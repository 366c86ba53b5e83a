------------------------ MODULE PackageReaderProofs ------------------------
(***************************************************************************)
(* For packages of any sizes, any number of them and of faults: what the   *)
(* reader hands on are packages of the device in order, what is untouched  *)
(* arrives, and the thread ends for a cause only.                          *)
(***************************************************************************)
EXTENDS PackageReader, SequenceTheorems, TLAPS

-----------------------------------------------------------------------------
(* The line *)

\* Bytes are on the line in the order in which the device sent them.
Before(a, b) == a.of < b.of \/ (a.of = b.of /\ a.place < b.place)

Sorted(s)   == \A i, j \in 1 .. Len(s) : i < j => Before(s[i], s[j])
Ahead(s, t) == \A i \in 1 .. Len(s), j \in 1 .. Len(t) : Before(s[i], t[j])

\* A byte that is not read to its end is of a package that was sent and not
\* delivered, and an intact length is the size of the package.
Pending(b) ==
    /\ b.of \in 1 .. Len(sizes) /\ b.place \in 1 .. sizes[b.of] + 4
    /\ b.intact /\ b.place = LengthPlace => b.value = sizes[b.of]
    /\ Fifo!LastDelivered < b.of

AllPending(s) == \A i \in 1 .. Len(s) : Pending(s[i])

\* The package under way is not complete.
GotShort == Len(got) >= LengthPlace => Len(got) < 4 + DataLength(got)

LineInv ==
    /\ TypeOK
    /\ AllPending(got) /\ AllPending(wire)
    /\ Sorted(got) /\ Sorted(wire) /\ Ahead(got, wire)
    /\ GotShort
    /\ mode = "discarding" => got = << >> /\ ~inStep /\ clean = {}

-----------------------------------------------------------------------------
(* The operations on the line *)

LEMMA SizesAreNat ==
    ASSUME TypeOK
    PROVE  /\ Len(sizes) \in Nat /\ \A n \in 1 .. Len(sizes) : sizes[n] \in Nat
           /\ Fifo!LastDelivered \in 0 .. Len(sizes)
           /\ Len(wire) \in Nat /\ Len(got) \in Nat
<1>1. /\ Len(sizes) \in Nat /\ \A n \in 1 .. Len(sizes) : sizes[n] \in Sizes
      /\ Len(wire) \in Nat /\ Len(got) \in Nat
  BY DEF TypeOK
<1>2. Fifo!LastDelivered \in 0 .. Len(sizes)
  <2>1. delivered # << >> => delivered[Len(delivered)] \in 1 .. Len(sizes)
    BY DEF TypeOK
  <2> QED BY <1>1, <2>1 DEF Fifo!LastDelivered
<1> QED BY <1>1, <1>2, ReaderAssumption

\* The first byte of the line is the next one of the package under way.
LEMMA HeadAndTail ==
    ASSUME TypeOK, wire # << >>
    PROVE  /\ Len(wire) \in Nat \ {0} /\ Head(wire) = wire[1] /\ wire[1] \in Byte
           /\ Tail(wire) \in Seq(Byte) /\ Len(Tail(wire)) = Len(wire) - 1
           /\ \A i \in 1 .. Len(wire) - 1 : Tail(wire)[i] = wire[i + 1]
           /\ Append(got, wire[1]) \in Seq(Byte)
           /\ Len(Append(got, wire[1])) = Len(got) + 1
           /\ \A i \in 1 .. Len(got) : Append(got, wire[1])[i] = got[i]
           /\ Append(got, wire[1])[Len(got) + 1] = wire[1]
<1>1. wire \in Seq(Byte) /\ got \in Seq(Byte)
  BY DEF TypeOK
<1>2. Len(wire) \in Nat \ {0} /\ Head(wire) = wire[1] /\ wire[1] \in Byte
  BY <1>1
<1>3. /\ Tail(wire) \in Seq(Byte) /\ Len(Tail(wire)) = Len(wire) - 1
      /\ \A i \in 1 .. Len(wire) - 1 : Tail(wire)[i] = wire[i + 1]
  BY <1>1, HeadTailProperties
<1> QED BY <1>1, <1>2, <1>3, AppendProperties

\* What a loss leaves of the line.
Without(s, i) == SubSeq(s, 1, i - 1) \o SubSeq(s, i + 1, Len(s))

LEMMA WithoutFacts ==
    ASSUME NEW s \in Seq(Byte), NEW i \in 1 .. Len(s)
    PROVE  /\ Without(s, i) \in Seq(Byte) /\ Len(Without(s, i)) = Len(s) - 1
           /\ \A j \in 1 .. Len(s) - 1 :
                Without(s, i)[j] = IF j < i THEN s[j] ELSE s[j + 1]
<1> DEFINE a == SubSeq(s, 1, i - 1)
           b == SubSeq(s, i + 1, Len(s))
<1>1. Len(s) \in Nat /\ i \in Nat /\ 1 <= i /\ i <= Len(s)
      /\ \A j \in 1 .. Len(s) : s[j] \in Byte
  OBVIOUS
<1>2. /\ a \in Seq(Byte) /\ Len(a) = i - 1
      /\ \A j \in 1 .. i - 1 : a[j] = s[j]
  BY <1>1, SubSeqProperties
<1>3. /\ b \in Seq(Byte) /\ Len(b) = Len(s) - i
      /\ \A j \in 1 .. Len(s) - i : b[j] = s[i + j]
  BY <1>1, SubSeqProperties
<1> HIDE DEF a, b
<1>4. /\ a \o b \in Seq(Byte) /\ Len(a \o b) = Len(s) - 1
      /\ \A j \in 1 .. Len(s) - 1 : (a \o b)[j] = IF j <= i - 1 THEN a[j] ELSE b[j - (i - 1)]
  BY <1>1, <1>2, <1>3, ConcatProperties
<1>5. \A j \in 1 .. Len(s) - 1 : (a \o b)[j] = IF j < i THEN s[j] ELSE s[j + 1]
  <2> TAKE j \in 1 .. Len(s) - 1
  <2>1. CASE j < i
    BY <2>1, <1>1, <1>2, <1>4
  <2>2. CASE ~(j < i)
    <3>1. j - (i - 1) \in 1 .. Len(s) - i /\ i + (j - (i - 1)) = j + 1 /\ ~(j <= i - 1)
      BY <2>2, <1>1
    <3>2. b[j - (i - 1)] = s[j + 1]
      BY <3>1, <1>3
    <3> QED BY <3>1, <3>2, <2>2, <1>4
  <2> QED BY <2>1, <2>2
<1> QED BY <1>4, <1>5 DEF Without, a, b

-----------------------------------------------------------------------------
(* The line keeps its order *)

LEMMA LineInitially ==
    Init => LineInv
<1> SUFFICES ASSUME Init PROVE LineInv
  OBVIOUS
<1>1. TypeOK
  <2>1. Len(<< >>) = 0 /\ 0 \in 0 .. MaxFaults /\ 0 <= MaxPackages
    BY ReaderAssumption
  <2>2. \A S : << >> \in Seq(S)
    OBVIOUS
  <2> QED BY <2>1, <2>2 DEF Init, TypeOK
<1> QED BY <1>1 DEF Init, LineInv, AllPending, Sorted, Ahead, GotShort, LengthPlace

LEMMA DiscardLine ==
    ASSUME LineInv, Discard
    PROVE  LineInv'
<1>1. PICK n \in 0 .. Len(wire) : /\ wire' = SubSeq(wire, n + 1, Len(wire))
                                 /\ inStep' = (n = Len(wire))
  BY DEF Discard
<1>2. /\ UNCHANGED <<got, delivered, sizes, faults, portFailed, clean>>
      /\ mode' = "reading" /\ got = << >>
  BY DEF Discard, LineInv
<1>3. wire \in Seq(Byte) /\ Len(wire) \in Nat /\ \A i \in 1 .. Len(wire) : wire[i] \in Byte
  BY DEF LineInv, TypeOK
<1>4. /\ wire' \in Seq(Byte) /\ Len(wire') = Len(wire) - n
      /\ \A i \in 1 .. Len(wire) - n : wire'[i] = wire[n + i]
  BY <1>1, <1>3, SubSeqProperties
<1>5. TypeOK'
  BY <1>1, <1>2, <1>4 DEF LineInv, TypeOK
<1>6. \A i \in 1 .. Len(wire') : n + i \in 1 .. Len(wire) /\ wire'[i] = wire[n + i]
  BY <1>3, <1>4
<1>7. AllPending(wire)' /\ AllPending(got)'
  BY SMTT(30), <1>2, <1>6 DEF LineInv, AllPending, Pending, Fifo!LastDelivered
<1>8. Sorted(wire')
  BY <1>3, <1>4, <1>6 DEF LineInv, Sorted
<1> QED BY <1>2, <1>5, <1>7, <1>8 DEF LineInv, Ahead, Sorted, GotShort, LengthPlace

LEMMA ReadByteLine ==
    ASSUME LineInv, ReadByte
    PROVE  LineInv'
<1>1. /\ wire # << >> /\ mode = "reading" /\ wire' = Tail(wire) /\ got' = Append(got, wire[1])
      /\ ~Complete(got')
      /\ UNCHANGED <<mode, delivered, sizes, faults, portFailed, inStep, clean>>
  BY HeadAndTail DEF ReadByte, LineInv
<1>2. /\ Len(wire) \in Nat \ {0} /\ Len(got) \in Nat /\ Len(wire') = Len(wire) - 1
      /\ Len(got') = Len(got) + 1
      /\ wire' \in Seq(Byte) /\ got' \in Seq(Byte) /\ wire[1] \in Byte
  BY <1>1, HeadAndTail, SizesAreNat DEF LineInv
<1>3. \A i \in 1 .. Len(wire') : i + 1 \in 1 .. Len(wire) /\ 1 < i + 1 /\ wire'[i] = wire[i + 1]
  BY <1>1, <1>2, HeadAndTail DEF LineInv
<1>4. \A i \in 1 .. Len(got') : \/ i \in 1 .. Len(got) /\ got'[i] = got[i]
                                \/ i = Len(got) + 1 /\ got'[i] = wire[1]
  BY <1>1, <1>2, HeadAndTail DEF LineInv
<1>5. 1 \in 1 .. Len(wire)
  BY <1>2
<1>6. AllPending(wire)' /\ AllPending(got)'
  <2>1. \A b : Pending(b)' <=> Pending(b)
    BY <1>1 DEF Pending, Fifo!LastDelivered
  <2> QED BY <2>1, <1>3, <1>4, <1>5 DEF LineInv, AllPending
<1>7. Sorted(wire')
  BY SMTT(30), <1>2, <1>3 DEF LineInv, Sorted
<1>8. Sorted(got')
  <2> SUFFICES ASSUME NEW i \in 1 .. Len(got'), NEW j \in 1 .. Len(got'), i < j
               PROVE  Before(got'[i], got'[j])
    BY DEF Sorted
  <2>1. i \in 1 .. Len(got) /\ got'[i] = got[i]
    BY <1>2, <1>4
  <2> QED BY <2>1, <1>4, <1>5 DEF LineInv, Sorted, Ahead
<1>9. Ahead(got', wire')
  <2> SUFFICES ASSUME NEW i \in 1 .. Len(got'), NEW j \in 1 .. Len(wire')
               PROVE  Before(got'[i], wire[j + 1])
    BY <1>3 DEF Ahead
  <2> QED BY <1>3, <1>4, <1>5 DEF LineInv, Sorted, Ahead
<1>10. GotShort'
  <2> SUFFICES ASSUME Len(got') >= LengthPlace PROVE Len(got') < 4 + DataLength(got')
    BY DEF GotShort
  <2>1. DataLength(got') \in Nat
    <3>1. got'[2] \in Byte
      BY <1>2 DEF LengthPlace
    <3> QED BY <3>1 DEF DataLength, LengthPlace, Byte
  <2>2. Len(got') # 4 + DataLength(got')
    BY <1>1 DEF Complete
  <2>3. CASE Len(got) < LengthPlace
    BY <2>1, <2>3, <1>2 DEF LengthPlace
  <2>4. CASE Len(got) >= LengthPlace
    <3>1. got'[LengthPlace] = got[LengthPlace]
      BY <2>4, <1>2, <1>4 DEF LengthPlace
    <3> QED BY <3>1, <2>1, <2>2, <2>4, <1>2 DEF LineInv, GotShort, DataLength
  <2> QED BY <2>3, <2>4, <1>2 DEF LengthPlace
<1>11. TypeOK'
  BY <1>1, <1>2 DEF LineInv, TypeOK
<1> QED BY <1>1, <1>6, <1>7, <1>8, <1>9, <1>10, <1>11 DEF LineInv

\* A package with a matching CRC is the whole of one package of the device: what
\* is left on the line belongs to later ones.
LEMMA Delivery ==
    ASSUME LineInv, wire # << >>, Complete(Append(got, wire[1])),
           CrcMatches(Append(got, wire[1]))
    PROVE  LET n == Append(got, wire[1])[1].of IN
           /\ n \in Fifo!LastDelivered + 1 .. Len(sizes)
           /\ \A i \in 2 .. Len(wire) : n < wire[i].of
<1> DEFINE bytes == Append(got, wire[1])
           n == bytes[1].of
           N == Len(got) + 1
<1>1. /\ Len(wire) \in Nat \ {0} /\ Len(got) \in Nat
      /\ bytes \in Seq(Byte) /\ Len(bytes) = N /\ bytes[N] = wire[1]
      /\ \A i \in 1 .. Len(got) : bytes[i] = got[i]
  BY HeadAndTail, SizesAreNat DEF LineInv
<1>2. N >= LengthPlace /\ N = 4 + DataLength(bytes)
  BY <1>1 DEF Complete
<1>3. \A i \in 1 .. N : /\ bytes[i] \in Byte /\ Pending(bytes[i])
                        /\ bytes[i].of = n /\ bytes[i].place = i /\ bytes[i].intact
  <2>1. DOMAIN bytes = 1 .. N
    BY <1>1
  <2>2. \A i \in 1 .. N : i \in 1 .. Len(got) \/ i = N
    BY <1>1
  <2>3. \A i \in 1 .. N : Pending(bytes[i])
    BY <1>1, <2>2 DEF LineInv, AllPending
  <2>4. \A i \in 1 .. N : bytes[i].of = n /\ bytes[i].place = i /\ bytes[i].intact
    BY <2>1 DEF CrcMatches
  <2> QED BY <1>1, <2>3, <2>4
<1> HIDE DEF bytes
<1>4. 1 \in 1 .. N /\ 2 \in 1 .. N /\ N \in 1 .. N
  BY <1>1, <1>2 DEF LengthPlace
<1>5. bytes[2].value = sizes[n]
  BY <1>3, <1>4 DEF Pending, LengthPlace
<1>6. n \in 1 .. Len(sizes) /\ Fifo!LastDelivered < n
  BY <1>3, <1>4 DEF Pending
<1>7. wire[1].of = n /\ wire[1].place = sizes[n] + 4
  BY <1>1, <1>2, <1>3, <1>4, <1>5, <1>6, SizesAreNat DEF DataLength, LengthPlace, LineInv
<1>8. \A i \in 2 .. Len(wire) : n < wire[i].of
  <2> SUFFICES ASSUME NEW i \in 2 .. Len(wire) PROVE n < wire[i].of
    OBVIOUS
  <2>1. i \in 1 .. Len(wire) /\ 1 \in 1 .. Len(wire) /\ 1 < i
    BY <1>1
  <2>2. Before(wire[1], wire[i]) /\ Pending(wire[i])
    BY <2>1 DEF LineInv, Sorted, AllPending
  <2>3. wire[i].of = n => wire[i].place <= sizes[n] + 4
    BY <2>2, SizesAreNat DEF Pending, LineInv
  <2>4. wire[i].place \in Nat /\ wire[i].of \in Nat /\ sizes[n] \in Nat
    <3>1. wire[i] \in Byte
      BY <2>1 DEF LineInv, TypeOK
    <3> QED BY <3>1, <1>6, SizesAreNat DEF LineInv, Byte
  <2> QED BY <2>2, <2>3, <2>4, <1>6, <1>7 DEF Before
<1>9. n \in Fifo!LastDelivered + 1 .. Len(sizes)
  BY <1>6, SizesAreNat DEF LineInv
<1> QED BY <1>8, <1>9 DEF bytes

LEMMA FinishPackageLine ==
    ASSUME LineInv, FinishPackage
    PROVE  LineInv'
<1> DEFINE bytes == Append(got, wire[1])
           n == bytes[1].of
<1>1. /\ wire # << >> /\ mode = "reading" /\ got' = << >> /\ wire' = Tail(wire)
      /\ Complete(bytes)
      /\ delivered' = IF CrcMatches(bytes) THEN Append(delivered, n) ELSE delivered
      /\ UNCHANGED <<mode, sizes, faults, portFailed, inStep, clean>>
  BY HeadAndTail DEF FinishPackage, LineInv
<1>2. /\ Len(wire) \in Nat \ {0} /\ wire' \in Seq(Byte) /\ Len(wire') = Len(wire) - 1
      /\ \A i \in 1 .. Len(wire') : i + 1 \in 2 .. Len(wire) /\ wire'[i] = wire[i + 1]
  BY <1>1, HeadAndTail DEF LineInv
<1>3. CrcMatches(bytes) => /\ n \in Fifo!LastDelivered + 1 .. Len(sizes)
                           /\ \A i \in 2 .. Len(wire) : n < wire[i].of
  BY <1>1, Delivery
<1> HIDE DEF n, bytes
<1>4. delivered \in Seq(1 .. Len(sizes)) /\ Len(sizes) \in Nat /\ Fifo!LastDelivered \in Nat
  BY SizesAreNat DEF LineInv, TypeOK
<1>5. CrcMatches(bytes) => /\ n \in 1 .. Len(sizes)
                           /\ delivered' \in Seq(1 .. Len(sizes)) /\ Fifo!LastDelivered' = n
  <2> SUFFICES ASSUME CrcMatches(bytes)
               PROVE  /\ n \in 1 .. Len(sizes)
                      /\ delivered' \in Seq(1 .. Len(sizes)) /\ Fifo!LastDelivered' = n
    OBVIOUS
  <2>1. n \in 1 .. Len(sizes) /\ delivered' = Append(delivered, n)
    BY <1>1, <1>3, <1>4
  <2>2. /\ delivered' \in Seq(1 .. Len(sizes)) /\ delivered' # << >>
        /\ Len(delivered') = Len(delivered) + 1 /\ delivered'[Len(delivered) + 1] = n
    BY <2>1, <1>4, AppendProperties
  <2> QED BY <2>1, <2>2 DEF Fifo!LastDelivered
<1>6. TypeOK'
  BY <1>1, <1>2, <1>5 DEF LineInv, TypeOK
<1>7. AllPending(wire)'
  <2> SUFFICES ASSUME NEW i \in 1 .. Len(wire') PROVE Pending(wire[i])'
    BY DEF AllPending
  <2>1. Pending(wire[i + 1]) /\ wire'[i] = wire[i + 1] /\ i + 1 \in 2 .. Len(wire)
    BY <1>2 DEF LineInv, AllPending
  <2>2. Fifo!LastDelivered' < wire[i + 1].of
    <3>1. CASE CrcMatches(bytes)
      BY <3>1, <2>1, <1>3, <1>5
    <3>2. CASE ~CrcMatches(bytes)
      BY <3>2, <2>1, <1>1 DEF Pending, Fifo!LastDelivered
    <3> QED BY <3>1, <3>2
  <2> QED BY <1>1, <2>1, <2>2 DEF Pending
<1>8. Sorted(wire')
  BY <1>2 DEF LineInv, Sorted
<1> QED
  BY <1>1, <1>6, <1>7, <1>8 DEF LineInv, AllPending, Sorted, Ahead, GotShort, LengthPlace

\* A package that is given up leaves the line alone.
LEMMA GiveUpLine ==
    ASSUME LineInv, GiveUp, mode = "reading", clean' \subseteq clean,
           inStep' \in BOOLEAN, faults' \in 0 .. MaxFaults,
           UNCHANGED <<wire, delivered, sizes, portFailed>>
    PROVE  LineInv'
<1>1. got' \in {got, << >>} /\ mode' \in {"reading", "stopped"}
  BY DEF GiveUp
<1>2. TypeOK'
  <2>1. got' \in Seq(Byte) /\ mode' \in {"discarding", "reading", "stopped"}
    <3>1. got \in Seq(Byte) /\ << >> \in Seq(Byte)
      BY DEF LineInv, TypeOK
    <3> QED BY <3>1, <1>1
  <2>2. clean' \subseteq 1 .. Len(sizes)
    BY DEF LineInv, TypeOK
  <2> QED BY <2>1, <2>2 DEF LineInv, TypeOK
<1>3. \A b : Pending(b)' <=> Pending(b)
  BY DEF Pending, Fifo!LastDelivered
<1>4. CASE got' = got
  BY <1>1, <1>2, <1>3, <1>4 DEF LineInv, AllPending, GotShort
<1>5. CASE got' = << >>
  BY <1>1, <1>2, <1>3, <1>5 DEF LineInv, AllPending, Sorted, Ahead, GotShort, LengthPlace
<1> QED BY <1>1, <1>4, <1>5

LEMMA TimeoutLine ==
    ASSUME LineInv, Timeout \/ TimeoutInPause
    PROVE  LineInv'
<1>1. faults \in 0 .. MaxFaults /\ inStep \in BOOLEAN /\ (faults < MaxFaults => faults + 1 \in 0 .. MaxFaults)
  BY ReaderAssumption DEF LineInv, TypeOK
<1>2. CASE Timeout
  BY <1>1, <1>2, GiveUpLine DEF Timeout
<1>3. CASE TimeoutInPause
  BY <1>1, <1>3, GiveUpLine DEF TimeoutInPause, OutOfStep
<1> QED BY <1>2, <1>3

LEMMA PortFailsLine ==
    ASSUME LineInv, PortFails
    PROVE  LineInv'
<1>1. TypeOK'
  BY ReaderAssumption DEF PortFails, LineInv, TypeOK
<1>2. \A b : Pending(b)' <=> Pending(b)
  BY DEF PortFails, Pending, Fifo!LastDelivered
<1> QED BY <1>1, <1>2 DEF PortFails, LineInv, AllPending, GotShort

\* A package that is sent comes behind what is on the line.
LEMMA DeviceSendsFacts ==
    ASSUME LineInv, DeviceSends
    PROVE  \E size \in Sizes :
             /\ sizes' = Append(sizes, size) /\ sizes' \in Seq(Sizes)
             /\ Len(sizes') = Len(sizes) + 1 /\ sizes'[Len(sizes) + 1] = size
             /\ \A i \in 1 .. Len(sizes) : sizes'[i] = sizes[i]
             /\ wire' \in Seq(Byte) /\ Len(wire') = Len(wire) + (size + 4)
             /\ \A i \in 1 .. Len(wire) : wire'[i] = wire[i]
             /\ \A i \in Len(wire) + 1 .. Len(wire') :
                  /\ wire'[i].of = Len(sizes) + 1 /\ wire'[i].place = i - Len(wire)
                  /\ wire'[i].intact = TRUE
                  /\ i - Len(wire) = LengthPlace => wire'[i].value = size
<1>1. PICK size \in Sizes, junk \in Junk :
        /\ wire' = wire \o BytesOf(Len(sizes) + 1, size, junk)
        /\ sizes' = Append(sizes, size)
  BY DEF DeviceSends
<1> DEFINE n == Len(sizes) + 1
           s == BytesOf(n, size, junk)
<1>2. Len(sizes) \in Nat /\ n \in Nat /\ size \in Nat /\ junk \in Nat /\ Len(wire) \in Nat
  BY SizesAreNat, ReaderAssumption DEF LineInv
<1>3. s \in Seq(Byte) /\ Len(s) = size + 4
  <2>1. s \in [1 .. size + 4 -> Byte]
    BY <1>2 DEF BytesOf, Byte
  <2> QED BY <1>2, <2>1, SeqDef
<1>4. \A i \in 1 .. size + 4 :
        /\ s[i].of = n /\ s[i].place = i /\ s[i].intact = TRUE
        /\ i = LengthPlace => s[i].value = size
  BY DEF BytesOf
<1>5. wire' = wire \o s
  BY <1>1
<1> HIDE DEF s
<1>6. /\ sizes' \in Seq(Sizes) /\ Len(sizes') = n /\ sizes'[n] = size
      /\ \A i \in 1 .. Len(sizes) : sizes'[i] = sizes[i]
  BY <1>1, AppendProperties DEF LineInv, TypeOK
<1>7. /\ wire' \in Seq(Byte) /\ Len(wire') = Len(wire) + Len(s)
      /\ \A i \in 1 .. Len(wire) + Len(s) :
           wire'[i] = IF i <= Len(wire) THEN wire[i] ELSE s[i - Len(wire)]
  BY <1>3, <1>5, ConcatProperties DEF LineInv, TypeOK
<1>8. \A i \in 1 .. Len(wire) : wire'[i] = wire[i]
  BY <1>2, <1>3, <1>7
<1>9. \A i \in Len(wire) + 1 .. Len(wire') :
        i - Len(wire) \in 1 .. size + 4 /\ wire'[i] = s[i - Len(wire)]
  <2> TAKE i \in Len(wire) + 1 .. Len(wire')
  <2>1. i \in 1 .. Len(wire) + Len(s) /\ ~(i <= Len(wire)) /\ i - Len(wire) \in 1 .. size + 4
    BY <1>2, <1>3, <1>7
  <2> QED BY <2>1, <1>7
<1>10. \A i \in Len(wire) + 1 .. Len(wire') :
         /\ wire'[i].of = n /\ wire'[i].place = i - Len(wire)
         /\ wire'[i].intact = TRUE
         /\ i - Len(wire) = LengthPlace => wire'[i].value = size
  <2> TAKE i \in Len(wire) + 1 .. Len(wire')
  <2>1. PICK j \in 1 .. size + 4 : j = i - Len(wire)
    BY <1>9
  <2>2. wire'[i] = s[j]
    BY <1>9, <2>1
  <2> QED BY <1>4, <2>1, <2>2
<1>11. wire' \in Seq(Byte) /\ Len(wire') = Len(wire) + (size + 4)
  BY <1>3, <1>7
<1> WITNESS size \in Sizes
<1> QED BY ONLY <1>1, <1>6, <1>8, <1>10, <1>11

LEMMA DeviceSendsLine ==
    ASSUME LineInv, DeviceSends
    PROVE  LineInv'
<1> DEFINE n == Len(sizes) + 1
           New(i) == i \in Len(wire) + 1 .. Len(wire')
<1>1. PICK size \in Sizes :
        /\ sizes' \in Seq(Sizes) /\ Len(sizes') = n /\ sizes'[n] = size
        /\ \A i \in 1 .. Len(sizes) : sizes'[i] = sizes[i]
        /\ wire' \in Seq(Byte) /\ Len(wire') = Len(wire) + (size + 4)
        /\ \A i \in 1 .. Len(wire) : wire'[i] = wire[i]
        /\ \A i \in Len(wire) + 1 .. Len(wire') :
             /\ wire'[i].of = n /\ wire'[i].place = i - Len(wire)
             /\ i - Len(wire) = LengthPlace => wire'[i].value = size
  BY DeviceSendsFacts
<1>2. /\ Len(sizes) < MaxPackages
      /\ clean' = IF inStep /\ mode = "reading" THEN clean \cup {n} ELSE clean
      /\ UNCHANGED <<got, mode, delivered, faults, portFailed, inStep>>
  BY DEF DeviceSends, host
<1>3. /\ Len(sizes) \in Nat /\ n \in Nat /\ size \in Nat /\ Len(wire) \in Nat
      /\ Fifo!LastDelivered \in 0 .. Len(sizes)
  BY SizesAreNat, ReaderAssumption DEF LineInv
<1>4. \A i \in 1 .. Len(wire') : i \in 1 .. Len(wire) \/ New(i)
  BY <1>1, <1>3
<1>5. \A b : Pending(b) => Pending(b)' /\ b.of < n
  BY <1>1, <1>2, <1>3 DEF Pending, Fifo!LastDelivered
<1>6. \A i \in Len(wire) + 1 .. Len(wire') : Pending(wire[i])'
  <2> SUFFICES ASSUME NEW i \in Len(wire) + 1 .. Len(wire') PROVE Pending(wire[i])'
    OBVIOUS
  <2>1. /\ wire'[i].of = n /\ wire'[i].place = i - Len(wire)
        /\ i - Len(wire) = LengthPlace => wire'[i].value = size
    BY <1>1
  <2>2. Fifo!LastDelivered' < n
    BY <1>2, <1>3 DEF Fifo!LastDelivered
  <2>3. /\ wire'[i].of \in 1 .. Len(sizes') /\ wire'[i].place \in 1 .. sizes'[wire'[i].of] + 4
        /\ wire'[i].place = LengthPlace => wire'[i].value = sizes'[wire'[i].of]
    BY <2>1, <1>1, <1>3
  <2> QED BY <2>1, <2>2, <2>3 DEF Pending
<1>7. AllPending(wire)' /\ AllPending(got)'
  BY <1>1, <1>2, <1>4, <1>5, <1>6 DEF LineInv, AllPending
<1>8. Sorted(wire')
  <2> SUFFICES ASSUME NEW i \in 1 .. Len(wire'), NEW j \in 1 .. Len(wire'), i < j
               PROVE  Before(wire'[i], wire'[j])
    BY DEF Sorted
  <2>1. CASE j \in 1 .. Len(wire)
    <3>1. i \in 1 .. Len(wire)
      BY <2>1, <1>3
    <3> QED BY <3>1, <2>1, <1>1 DEF LineInv, Sorted
  <2>2. CASE i \in 1 .. Len(wire) /\ New(j)
    <3>1. wire[i].of < n
      BY <2>2, <1>5 DEF LineInv, AllPending
    <3> QED BY <3>1, <2>2, <1>1 DEF Before
  <2>3. CASE New(i) /\ New(j)
    <3>1. i - Len(wire) < j - Len(wire)
      BY <1>3
    <3> QED BY <3>1, <2>3, <1>1 DEF Before
  <2> QED BY <2>1, <2>2, <2>3, <1>4
<1>9. Ahead(got', wire')
  <2> SUFFICES ASSUME NEW i \in 1 .. Len(got), NEW j \in 1 .. Len(wire')
               PROVE  Before(got[i], wire'[j])
    BY <1>2 DEF Ahead
  <2>1. CASE j \in 1 .. Len(wire)
    BY <2>1, <1>1 DEF LineInv, Ahead
  <2>2. CASE New(j)
    <3>1. got[i].of < n
      BY <1>5 DEF LineInv, AllPending
    <3> QED BY <3>1, <2>2, <1>1 DEF Before
  <2> QED BY <2>1, <2>2, <1>4
<1>10. TypeOK'
  <2>1. delivered \in Seq(1 .. Len(sizes'))
    <3>1. 1 .. Len(sizes) \subseteq 1 .. Len(sizes')
      BY <1>1, <1>3
    <3>2. delivered \in Seq(1 .. Len(sizes))
      BY DEF LineInv, TypeOK
    <3> QED BY <3>1, <3>2, SeqMonotonic
  <2>2. clean' \subseteq 1 .. Len(sizes') /\ Len(sizes') <= MaxPackages
    <3>1. clean \subseteq 1 .. Len(sizes) /\ clean' \subseteq clean \cup {n}
      BY <1>2 DEF LineInv, TypeOK
    <3>2. 1 .. Len(sizes) \subseteq 1 .. n /\ n \in 1 .. n /\ n <= MaxPackages
      BY <1>2, <1>3, ReaderAssumption
    <3> QED BY <3>1, <3>2, <1>1
  <2> QED BY <1>1, <1>2, <2>1, <2>2 DEF LineInv, TypeOK
<1> QED BY <1>2, <1>7, <1>8, <1>9, <1>10 DEF LineInv, GotShort, Sorted

LEMMA LineLosesByteLine ==
    ASSUME LineInv, LineLosesByte
    PROVE  LineInv'
<1>1. PICK i \in DOMAIN wire : /\ wire' = Without(wire, i)
                               /\ OutOfStep(wire[i].of)
  BY DEF LineLosesByte, Without
<1>2. /\ faults < MaxFaults /\ faults' = faults + 1
      /\ UNCHANGED <<got, mode, delivered, sizes, portFailed>>
  BY DEF LineLosesByte, host
<1>3. wire \in Seq(Byte) /\ Len(wire) \in Nat /\ i \in 1 .. Len(wire)
  BY DEF LineInv, TypeOK
<1>4. /\ wire' \in Seq(Byte) /\ Len(wire') = Len(wire) - 1
      /\ \A j \in 1 .. Len(wire) - 1 : wire'[j] = IF j < i THEN wire[j] ELSE wire[j + 1]
  BY <1>1, <1>3, WithoutFacts
<1>5. \A j \in 1 .. Len(wire') :
        \/ j < i /\ j \in 1 .. Len(wire) /\ wire'[j] = wire[j]
        \/ j >= i /\ j + 1 \in 1 .. Len(wire) /\ wire'[j] = wire[j + 1]
  BY <1>3, <1>4
<1>6. \A b : Pending(b)' <=> Pending(b)
  BY <1>2 DEF Pending, Fifo!LastDelivered
<1>7. AllPending(wire)' /\ AllPending(got)'
  BY <1>2, <1>5, <1>6 DEF LineInv, AllPending
<1>8. Sorted(wire')
  <2> SUFFICES ASSUME NEW j \in 1 .. Len(wire'), NEW k \in 1 .. Len(wire'), j < k
               PROVE  Before(wire'[j], wire'[k])
    BY DEF Sorted
  <2>1. PICK a \in 1 .. Len(wire), b \in 1 .. Len(wire) :
          a < b /\ wire'[j] = wire[a] /\ wire'[k] = wire[b]
    <3>1. CASE j < i /\ k < i
      BY <3>1, <1>5
    <3>2. CASE j < i /\ k >= i
      <4>1. j < k + 1
        BY <1>3
      <4> QED BY <3>2, <4>1, <1>5
    <3>3. CASE j >= i
      <4>1. j + 1 < k + 1 /\ k >= i
        BY <3>3, <1>3
      <4> QED BY <3>3, <4>1, <1>5
    <3> QED BY <3>1, <3>2, <3>3, <1>3
  <2> QED BY <2>1 DEF LineInv, Sorted
<1>9. Ahead(got', wire')
  BY <1>2, <1>5 DEF LineInv, Ahead
<1>10. TypeOK'
  <2>1. faults' \in 0 .. MaxFaults /\ clean' \subseteq clean /\ inStep' = FALSE
    BY <1>1, <1>2, ReaderAssumption DEF LineInv, TypeOK, OutOfStep
  <2> QED BY <1>2, <1>4, <2>1 DEF LineInv, TypeOK
<1> QED BY <1>1, <1>2, <1>7, <1>8, <1>9, <1>10 DEF LineInv, GotShort, OutOfStep

\* A damaged byte keeps its package and its place.
LEMMA LineDamagesByteLine ==
    ASSUME LineInv, LineDamagesByte
    PROVE  LineInv'
<1>1. PICK i \in DOMAIN wire, v \in Junk :
        /\ wire' = [wire EXCEPT ![i].value = v, ![i].intact = FALSE]
        /\ clean' \subseteq clean /\ (inStep' = inStep \/ inStep' = FALSE)
  BY DEF LineDamagesByte, OutOfStep
<1>2. /\ faults < MaxFaults /\ faults' = faults + 1
      /\ UNCHANGED <<got, mode, delivered, sizes, portFailed>>
  BY DEF LineDamagesByte, host
<1>3. /\ wire \in Seq(Byte) /\ Len(wire) \in Nat /\ i \in 1 .. Len(wire) /\ v \in Nat
      /\ DOMAIN wire = 1 .. Len(wire)
  BY ReaderAssumption DEF LineInv, TypeOK
<1>4. wire[i] \in Byte
  BY <1>3
<1> DEFINE b == [wire[i] EXCEPT !.value = v, !.intact = FALSE]
<1>5. b \in Byte /\ b.of = wire[i].of /\ b.place = wire[i].place /\ b.intact = FALSE
  BY <1>3, <1>4 DEF Byte
<1>6. wire' = [wire EXCEPT ![i] = b]
  BY <1>1
<1> HIDE DEF b
<1>7. /\ wire' \in Seq(Byte) /\ Len(wire') = Len(wire)
      /\ \A j \in 1 .. Len(wire) : wire'[j] = IF j = i THEN b ELSE wire[j]
  BY <1>3, <1>5, <1>6, ExceptSeq
<1>8. \A j \in 1 .. Len(wire) : /\ wire'[j].of = wire[j].of /\ wire'[j].place = wire[j].place
                                /\ wire'[j].intact => wire'[j] = wire[j]
  BY <1>5, <1>7
<1>9. AllPending(wire)' /\ AllPending(got)'
  <2>1. \A c : Pending(c)' <=> Pending(c)
    BY <1>2 DEF Pending, Fifo!LastDelivered
  <2>2. \A j \in 1 .. Len(wire) : Pending(wire[j]) => Pending(wire'[j])
    BY <1>8 DEF Pending
  <2> QED BY <2>1, <2>2, <1>2, <1>7 DEF LineInv, AllPending
<1>10. Sorted(wire') /\ Ahead(got', wire')
  BY <1>2, <1>7, <1>8 DEF LineInv, Sorted, Ahead, Before
<1>11. TypeOK'
  <2>1. faults' \in 0 .. MaxFaults
    BY <1>2, ReaderAssumption DEF LineInv, TypeOK
  <2>2. inStep' \in BOOLEAN
    BY <1>1, Zenon DEF LineInv, TypeOK
  <2> QED BY <1>1, <1>2, <1>7, <2>1, <2>2 DEF LineInv, TypeOK
<1> QED BY <1>1, <1>2, <1>9, <1>10, <1>11 DEF LineInv, GotShort, Sorted

LEMMA LineStep ==
    ASSUME LineInv, [Next]_vars
    PROVE  LineInv'
<1>1. CASE UNCHANGED vars
  <2>1. \A b : Pending(b)' <=> Pending(b)
    BY <1>1 DEF vars, host, Pending, Fifo!LastDelivered
  <2>2. TypeOK'
    BY <1>1 DEF vars, host, LineInv, TypeOK
  <2> QED BY <1>1, <2>1, <2>2 DEF vars, host, LineInv, AllPending, GotShort
<1> QED
  BY <1>1, DiscardLine, ReadByteLine, FinishPackageLine, TimeoutLine, PortFailsLine,
     DeviceSendsLine, LineLosesByteLine, LineDamagesByteLine DEF Next, Reader

\* Every variable keeps its type and the line its order, whatever is lost, damaged
\* or given up.
THEOREM LineInvariant ==
    Spec => []LineInv
BY LineInitially, LineStep, PTL DEF Spec

-----------------------------------------------------------------------------
(* The reader implements the lossy queue *)

\* Each step of the reader is a step of the abstract queue or none.
LEMMA FifoStep ==
    ASSUME LineInv, [Next]_vars
    PROVE  [Fifo!Next]_Fifo!vars
<1> USE DEF Fifo!vars
<1>1. CASE DeviceSends
  <2>1. PICK size \in Sizes : sizes' = Append(sizes, size)
    BY <1>1 DEF DeviceSends
  <2>2. Len(sizes') = Len(sizes) + 1
    BY <2>1, AppendProperties DEF LineInv, TypeOK
  <2> QED BY <1>1, <2>2 DEF DeviceSends, host, Fifo!Next, Fifo!Send
<1>2. CASE FinishPackage
  <2> DEFINE bytes == Append(got, wire[1])
  <2>1. /\ wire # << >> /\ Complete(bytes) /\ sizes' = sizes
        /\ delivered' = IF CrcMatches(bytes) THEN Append(delivered, bytes[1].of) ELSE delivered
    BY <1>2, HeadAndTail DEF FinishPackage, LineInv
  <2>2. CASE CrcMatches(bytes)
    <3>1. bytes[1].of \in Fifo!LastDelivered + 1 .. Len(sizes)
      BY <2>1, <2>2, Delivery
    <3> QED BY <3>1, <2>1, <2>2 DEF Fifo!Next, Fifo!Deliver
  <2>3. CASE ~CrcMatches(bytes)
    BY <2>1, <2>3
  <2> QED BY <2>2, <2>3
<1>3. CASE Discard \/ ReadByte \/ Timeout \/ TimeoutInPause \/ PortFails
  BY <1>3 DEF Discard, ReadByte, Timeout, TimeoutInPause, PortFails
<1>4. CASE LineLosesByte \/ LineDamagesByte
  BY <1>4 DEF LineLosesByte, LineDamagesByte, host
<1>5. CASE UNCHANGED vars
  BY <1>5 DEF vars, host
<1> QED BY <1>1, <1>2, <1>3, <1>4, <1>5 DEF Next, Reader

\* What is handed on are packages of the device, in order and each at most once,
\* whatever happens on the line (cfa835.cpp 387-492).
THEOREM ReaderImplementsFifo ==
    Spec => ImplementsFifo
<1>1. Init => Fifo!Init
  BY DEF Init, Fifo!Init
<1> QED BY <1>1, LineInvariant, FifoStep, PTL DEF Spec, ImplementsFifo, Fifo!Spec

-----------------------------------------------------------------------------
(* The packages on the line *)

Last(b)        == b.place = sizes[b.of] + 4
Follows(a, b)  == IF Last(a) THEN b.place = 1 ELSE b.of = a.of /\ b.place = a.place + 1
LengthRight(b) == b.place = LengthPlace => b.value = sizes[b.of]

\* The package under way and the first k bytes of the line are whole packages
\* with the right lengths.
Framed(k) ==
    /\ k \in 0 .. Len(wire)
    /\ \A i \in 1 .. Len(got) :
         got[i].place = i /\ got[i].of = got[1].of /\ LengthRight(got[i])
    /\ \A i \in 1 .. k : LengthRight(wire[i])
    /\ \A i \in 1 .. k - 1 : Follows(wire[i], wire[i + 1])
    /\ k = 0 => got = << >>
    /\ k > 0 => /\ wire[1].place = Len(got) + 1 /\ Last(wire[k])
                /\ got # << >> => wire[1].of = got[1].of

FirstOnLine(n) ==
    \/ \E i \in 1 .. Len(got) : got[i].of = n /\ got[i].place = 1
    \/ \E i \in 1 .. Len(wire) : wire[i].of = n /\ wire[i].place = 1

Untouched(n) ==
    /\ \A i \in 1 .. Len(got) : got[i].of = n => got[i].intact
    /\ \A i \in 1 .. Len(wire) : wire[i].of = n => wire[i].intact

\* Nothing stands between the reader and the end of package n.
Arriving(n) ==
    /\ mode = "reading" /\ FirstOnLine(n) /\ Untouched(n)
    /\ \E k \in 1 .. Len(wire) : Framed(k) /\ wire[k].of = n

StepInv ==
    /\ LineInv
    /\ inStep /\ mode = "reading" => Framed(Len(wire))
    /\ StopsForCause
    /\ \A n \in clean : Delivered(n) \/ portFailed \/ Arriving(n)

\* A framed reader completes a package exactly at its last byte.
LEMMA FramedNext ==
    ASSUME LineInv, NEW k \in 1 .. Len(wire), Framed(k)
    PROVE  /\ \A i \in 1 .. Len(got) + 1 :
                /\ Append(got, wire[1])[i].place = i
                /\ Append(got, wire[1])[i].of = wire[1].of
                /\ LengthRight(Append(got, wire[1])[i])
           /\ Complete(Append(got, wire[1])) <=> Last(wire[1])
<1> DEFINE bytes == Append(got, wire[1])
<1>1. /\ Len(wire) \in Nat \ {0} /\ Len(got) \in Nat /\ Len(bytes) = Len(got) + 1
      /\ \A i \in 1 .. Len(got) : bytes[i] = got[i]
      /\ bytes[Len(got) + 1] = wire[1]
      /\ 1 \in 1 .. k
  BY HeadAndTail, SizesAreNat DEF LineInv
<1> HIDE DEF bytes
<1>2. \A i \in 1 .. Len(got) : got[i].of = wire[1].of
  <2> TAKE i \in 1 .. Len(got)
  <2>1. got # << >> /\ k > 0
    BY <1>1
  <2> QED BY <2>1 DEF Framed
<1>3. \A i \in 1 .. Len(got) + 1 :
        bytes[i].place = i /\ bytes[i].of = wire[1].of /\ LengthRight(bytes[i])
  <2> TAKE i \in 1 .. Len(got) + 1
  <2>1. CASE i \in 1 .. Len(got)
    BY <2>1, <1>1, <1>2 DEF Framed
  <2>2. CASE i = Len(got) + 1
    BY <2>2, <1>1 DEF Framed
  <2> QED BY <2>1, <2>2, <1>1
<1>4. wire[1].place = Len(got) + 1 /\ sizes[wire[1].of] \in Nat
  <2>1. wire[1].of \in 1 .. Len(sizes)
    BY <1>1 DEF LineInv, AllPending, Pending
  <2> QED BY <2>1, <1>1, SizesAreNat DEF Framed, LineInv
<1>5. Complete(bytes) <=> Last(wire[1])
  <2>1. CASE Len(got) + 1 >= LengthPlace
    <3>1. bytes[2].value = sizes[wire[1].of]
      BY <2>1, <1>1, <1>3 DEF LengthPlace, LengthRight
    <3> QED BY <3>1, <2>1, <1>1, <1>4 DEF Complete, DataLength, Last, LengthPlace
  <2>2. CASE Len(got) + 1 < LengthPlace
    BY <2>2, <1>1, <1>4 DEF Complete, Last, LengthPlace
  <2> QED BY <2>1, <2>2, <1>1 DEF LengthPlace
<1> QED BY <1>3, <1>5 DEF bytes

\* Reading a byte leaves the rest framed.
LEMMA ReadByteFramed ==
    ASSUME LineInv, ReadByte, NEW k \in 1 .. Len(wire), Framed(k)
    PROVE  k - 1 \in 1 .. Len(wire') /\ Framed(k - 1)'
<1>1. /\ wire # << >> /\ wire' = Tail(wire) /\ got' = Append(got, wire[1])
      /\ ~Complete(got') /\ sizes' = sizes
  BY HeadAndTail DEF ReadByte, LineInv
<1>2. /\ Len(wire) \in Nat \ {0} /\ Len(got) \in Nat /\ Len(wire') = Len(wire) - 1
      /\ Len(got') = Len(got) + 1 /\ k \in Nat \ {0} /\ k <= Len(wire)
  BY <1>1, HeadAndTail, SizesAreNat DEF LineInv
<1>3. \A i \in 1 .. Len(wire') : i + 1 \in 1 .. Len(wire) /\ wire'[i] = wire[i + 1]
  BY <1>1, <1>2, HeadAndTail DEF LineInv
<1>4. /\ \A i \in 1 .. Len(got') : /\ got'[i].place = i /\ got'[i].of = wire[1].of
                                   /\ LengthRight(got'[i])
      /\ ~Last(wire[1])
  BY <1>1, <1>2, FramedNext
<1>5. k > 1
  BY <1>2, <1>4 DEF Framed
<1>6. wire[2].of = wire[1].of /\ wire[2].place = wire[1].place + 1
  <2>1. Follows(wire[1], wire[2])
    BY <1>2, <1>5 DEF Framed
  <2> QED BY <2>1, <1>4 DEF Follows
<1>7. wire'[1] = wire[2] /\ wire'[k - 1] = wire[k]
  BY <1>2, <1>3, <1>5
<1>8. \A i \in 1 .. k - 1 : LengthRight(wire'[i])
  BY SMTT(30), <1>2, <1>3 DEF Framed
<1>9. \A i \in 1 .. k - 2 : Follows(wire'[i], wire'[i + 1])
  <2> TAKE i \in 1 .. k - 2
  <2>1. i + 1 \in 1 .. k - 1 /\ i \in 1 .. Len(wire') /\ i + 1 \in 1 .. Len(wire')
    BY <1>2
  <2>2. wire'[i] = wire[i + 1] /\ wire'[i + 1] = wire[(i + 1) + 1]
    BY <2>1, <1>3
  <2> QED BY <2>1, <2>2 DEF Framed
<1>10. 1 \in 1 .. Len(got') /\ wire'[1].of = got'[1].of /\ wire'[1].place = Len(got') + 1
  BY <1>2, <1>4, <1>6, <1>7 DEF Framed
<1>11. Last(wire'[k - 1])
  BY <1>2, <1>7 DEF Framed
<1> QED
  BY <1>1, <1>2, <1>4, <1>5, <1>8, <1>9, <1>10, <1>11
  DEF Framed, Last, Follows, LengthRight

LEMMA FinishPackageFramed ==
    ASSUME LineInv, FinishPackage, NEW k \in 1 .. Len(wire), Framed(k)
    PROVE  Last(wire[1]) /\ Framed(k - 1)'
<1>1. /\ wire # << >> /\ wire' = Tail(wire) /\ got' = << >>
      /\ Complete(Append(got, wire[1])) /\ sizes' = sizes
  BY HeadAndTail DEF FinishPackage, LineInv
<1>2. /\ Len(wire) \in Nat \ {0} /\ Len(got) \in Nat /\ Len(wire') = Len(wire) - 1
      /\ k \in Nat \ {0} /\ k <= Len(wire) /\ Len(got') = 0
  BY <1>1, HeadAndTail, SizesAreNat DEF LineInv
<1>3. \A i \in 1 .. Len(wire') : i + 1 \in 1 .. Len(wire) /\ wire'[i] = wire[i + 1]
  BY <1>1, <1>2, HeadAndTail DEF LineInv
<1>4. Last(wire[1])
  BY <1>1, FramedNext
<1>5. \A i \in 1 .. k - 1 : LengthRight(wire'[i])
  BY SMTT(30), <1>2, <1>3 DEF Framed
<1>6. \A i \in 1 .. k - 2 : Follows(wire'[i], wire'[i + 1])
  <2> TAKE i \in 1 .. k - 2
  <2>1. i + 1 \in 1 .. k - 1 /\ i \in 1 .. Len(wire') /\ i + 1 \in 1 .. Len(wire')
    BY <1>2
  <2>2. wire'[i] = wire[i + 1] /\ wire'[i + 1] = wire[(i + 1) + 1]
    BY <2>1, <1>3
  <2> QED BY <2>1, <2>2 DEF Framed
<1>7. k > 1 => wire'[1].place = 1 /\ Last(wire'[k - 1])
  <2> SUFFICES ASSUME k > 1 PROVE wire'[1].place = 1 /\ Last(wire'[k - 1])
    OBVIOUS
  <2>1. wire'[1] = wire[2] /\ wire'[k - 1] = wire[k]
    BY <1>2, <1>3
  <2>2. Follows(wire[1], wire[2]) /\ Last(wire[k])
    BY <1>2 DEF Framed
  <2> QED BY <2>1, <2>2, <1>4 DEF Follows
<1> QED
  BY SMTT(30), <1>1, <1>2, <1>4, <1>5, <1>6, <1>7 DEF Framed, Last, Follows, LengthRight

\* What happens behind the first k bytes of the line does not matter to them.
LEMMA FramedKept ==
    ASSUME LineInv, NEW k \in 0 .. Len(wire), Framed(k), got' = got, k <= Len(wire'),
           Len(wire') \in Nat,
           \A i \in 1 .. Len(sizes) : sizes'[i] = sizes[i],
           \A i \in 1 .. k : /\ wire'[i].of = wire[i].of /\ wire'[i].place = wire[i].place
                             /\ wire[i].place = LengthPlace => wire'[i].value = wire[i].value
    PROVE  Framed(k)'
<1>1. Len(wire) \in Nat /\ Len(got) \in Nat
  BY SizesAreNat DEF LineInv
<1>2. \A i \in 1 .. k : sizes'[wire[i].of] = sizes[wire[i].of]
  BY <1>1 DEF LineInv, AllPending, Pending
<1>3. \A i \in 1 .. Len(got) : sizes'[got[i].of] = sizes[got[i].of]
  BY <1>1 DEF LineInv, AllPending, Pending
<1>4. \A i \in 1 .. k : LengthRight(wire[i])' /\ (Last(wire[i])' <=> Last(wire[i]))
  BY <1>2 DEF Framed, LengthRight, Last
<1>5. \A i \in 1 .. k - 1 : Follows(wire[i], wire[i + 1])'
  <2> TAKE i \in 1 .. k - 1
  <2>1. i \in 1 .. k /\ i + 1 \in 1 .. k
    BY <1>1
  <2> QED BY SMTT(30), <2>1, <1>4 DEF Framed, Follows
<1>6. \A i \in 1 .. Len(got) : LengthRight(got[i])'
  BY <1>3 DEF Framed, LengthRight
<1>7. k > 0 => 1 \in 1 .. k /\ k \in 1 .. k
  BY <1>1
<1> QED BY <1>1, <1>4, <1>5, <1>6, <1>7 DEF Framed

LEMMA StepInitially ==
    Init => StepInv
<1> SUFFICES ASSUME Init PROVE StepInv
  OBVIOUS
<1>1. LineInv
  BY LineInitially
<1> QED BY <1>1 DEF Init, StepInv, StopsForCause

LEMMA DiscardStep ==
    ASSUME StepInv, Discard
    PROVE  StepInv'
<1>1. LineInv /\ LineInv'
  BY DiscardLine DEF StepInv
<1>2. PICK n \in 0 .. Len(wire) : /\ wire' = SubSeq(wire, n + 1, Len(wire))
                                 /\ inStep' = (n = Len(wire))
  BY DEF Discard
<1>3. mode' = "reading" /\ got' = << >> /\ clean' = {}
  BY <1>1 DEF Discard, LineInv
<1>4. inStep' => Len(wire') = 0
  <2> SUFFICES ASSUME n = Len(wire) PROVE Len(wire') = 0
    BY <1>2
  <2>1. wire \in Seq(Byte) /\ Len(wire) \in Nat
    BY <1>1 DEF LineInv, TypeOK
  <2> QED BY <2>1, <1>2, SubSeqProperties
<1>5. Len(wire') = 0 => Framed(Len(wire))'
  BY <1>3 DEF Framed
<1> QED BY <1>1, <1>3, <1>4, <1>5 DEF StepInv, StopsForCause

LEMMA ReadByteStep ==
    ASSUME StepInv, ReadByte
    PROVE  StepInv'
<1>1. LineInv /\ LineInv'
  BY ReadByteLine DEF StepInv
<1>2. /\ wire # << >> /\ mode = "reading" /\ wire' = Tail(wire) /\ got' = Append(got, wire[1])
      /\ UNCHANGED <<mode, delivered, portFailed, inStep, clean>>
  BY <1>1, HeadAndTail DEF ReadByte, LineInv
<1>3. /\ Len(wire) \in Nat \ {0} /\ Len(got) \in Nat /\ Len(wire') = Len(wire) - 1
      /\ Len(got') = Len(got) + 1
  BY <1>1, <1>2, HeadAndTail, SizesAreNat DEF LineInv
<1>4. \A i \in 2 .. Len(wire) : i - 1 \in 1 .. Len(wire') /\ wire'[i - 1] = wire[i]
  <2> TAKE i \in 2 .. Len(wire)
  <2>1. i - 1 \in 1 .. Len(wire) - 1 /\ (i - 1) + 1 = i
    BY <1>3
  <2> QED BY <2>1, <1>1, <1>2, <1>3, HeadAndTail DEF LineInv
<1>5. \A i \in 1 .. Len(wire') : i + 1 \in 1 .. Len(wire) /\ wire'[i] = wire[i + 1]
  BY <1>1, <1>2, <1>3, HeadAndTail DEF LineInv
<1>6. /\ \A i \in 1 .. Len(got) : i \in 1 .. Len(got') /\ got'[i] = got[i]
      /\ Len(got') \in 1 .. Len(got') /\ got'[Len(got')] = wire[1]
      /\ 1 \in 1 .. Len(wire)
  BY <1>1, <1>2, <1>3, HeadAndTail DEF LineInv
<1>7. inStep => Framed(Len(wire))'
  <2> SUFFICES ASSUME inStep PROVE Framed(Len(wire))'
    OBVIOUS
  <2>1. Framed(Len(wire)) /\ Len(wire) \in 1 .. Len(wire)
    BY <1>2, <1>3 DEF StepInv
  <2> QED BY <2>1, <1>1, <1>3, ReadByteFramed
<1>8. ASSUME NEW n \in clean, Arriving(n)
      PROVE  Arriving(n)'
  <2>1. PICK k \in 1 .. Len(wire) : Framed(k) /\ wire[k].of = n
    BY <1>8 DEF Arriving
  <2>2. k - 1 \in 1 .. Len(wire') /\ Framed(k - 1)'
    BY <2>1, <1>1, ReadByteFramed
  <2>3. wire'[k - 1] = wire[k]
    <3>1. k \in 2 .. Len(wire)
      BY <2>2, <1>3
    <3> QED BY <3>1, <1>4
  <2>4. FirstOnLine(n)'
    <3>1. CASE \E i \in 1 .. Len(got) : got[i].of = n /\ got[i].place = 1
      BY <3>1, <1>6 DEF FirstOnLine
    <3>2. CASE \E i \in 1 .. Len(wire) : wire[i].of = n /\ wire[i].place = 1
      <4>1. PICK i \in 1 .. Len(wire) : wire[i].of = n /\ wire[i].place = 1
        BY <3>2
      <4>2. i = 1 \/ i \in 2 .. Len(wire)
        BY <1>3
      <4> QED BY ZenonT(90), <4>1, <4>2, <1>4, <1>6 DEF FirstOnLine
    <3> QED BY <1>8, <3>1, <3>2 DEF Arriving, FirstOnLine
  <2>5. Untouched(n)'
    <3>1. \A i \in 1 .. Len(got') : i \in 1 .. Len(got) \/ i = Len(got')
      BY <1>3
    <3> QED BY <3>1, <1>5, <1>6, <1>8 DEF Arriving, Untouched
  <2> QED BY <2>2, <2>3, <2>1, <2>4, <2>5, <1>2 DEF Arriving
<1> QED BY <1>1, <1>2, <1>7, <1>8 DEF StepInv, StopsForCause, Delivered

LEMMA FinishPackageStep ==
    ASSUME StepInv, FinishPackage
    PROVE  StepInv'
<1> DEFINE bytes == Append(got, wire[1])
<1>1. LineInv /\ LineInv'
  BY FinishPackageLine DEF StepInv
<1>2. /\ wire # << >> /\ mode = "reading" /\ wire' = Tail(wire) /\ got' = << >>
      /\ delivered' = IF CrcMatches(bytes) THEN Append(delivered, bytes[1].of) ELSE delivered
      /\ UNCHANGED <<mode, sizes, portFailed, inStep, clean>>
  BY <1>1, HeadAndTail DEF FinishPackage, LineInv
<1>3. /\ Len(wire) \in Nat \ {0} /\ Len(got) \in Nat /\ Len(wire') = Len(wire) - 1
      /\ Len(bytes) = Len(got) + 1 /\ bytes \in Seq(Byte)
      /\ \A i \in 1 .. Len(got) : bytes[i] = got[i]
      /\ bytes[Len(got) + 1] = wire[1]
  BY <1>1, <1>2, HeadAndTail, SizesAreNat DEF LineInv
<1> HIDE DEF bytes
<1>4. \A i \in 2 .. Len(wire) : i - 1 \in 1 .. Len(wire') /\ wire'[i - 1] = wire[i]
  <2> TAKE i \in 2 .. Len(wire)
  <2>1. i - 1 \in 1 .. Len(wire) - 1 /\ (i - 1) + 1 = i
    BY <1>3
  <2> QED BY <2>1, <1>1, <1>2, <1>3, HeadAndTail DEF LineInv
<1>5. \A i \in 1 .. Len(wire') : i + 1 \in 1 .. Len(wire) /\ wire'[i] = wire[i + 1]
  BY <1>1, <1>2, <1>3, HeadAndTail DEF LineInv
<1>6. inStep => Framed(Len(wire))'
  <2> SUFFICES ASSUME inStep PROVE Framed(Len(wire))'
    OBVIOUS
  <2>1. Framed(Len(wire)) /\ Len(wire) \in 1 .. Len(wire)
    BY <1>2, <1>3 DEF StepInv
  <2> QED BY <2>1, <1>1, <1>3, FinishPackageFramed
<1>7. delivered \in Seq(1 .. Len(sizes)) /\ Len(delivered) \in Nat
  BY <1>1 DEF LineInv, TypeOK
<1>8. CrcMatches(bytes) => /\ Len(delivered') = Len(delivered) + 1
                           /\ delivered'[Len(delivered')] = bytes[1].of
                           /\ \A i \in 1 .. Len(delivered) : delivered'[i] = delivered[i]
  <2> SUFFICES ASSUME CrcMatches(bytes)
               PROVE  /\ Len(delivered') = Len(delivered) + 1
                      /\ delivered'[Len(delivered) + 1] = bytes[1].of
                      /\ \A i \in 1 .. Len(delivered) : delivered'[i] = delivered[i]
    OBVIOUS
  <2>1. delivered' = Append(delivered, bytes[1].of)
    BY <1>2
  <2> QED BY <2>1, <1>7
<1>9. \A n : Delivered(n) => Delivered(n)'
  <2> SUFFICES ASSUME NEW n, NEW i \in 1 .. Len(delivered), delivered[i] = n
               PROVE  \E j \in DOMAIN delivered' : delivered'[j] = n
    BY <1>7 DEF Delivered
  <2>1. CASE CrcMatches(bytes)
    <3>1. DOMAIN delivered' = 1 .. Len(delivered')
      BY <1>1 DEF LineInv, TypeOK
    <3>2. i \in 1 .. Len(delivered') /\ delivered'[i] = n
      BY <2>1, <1>7, <1>8
    <3> QED BY <3>1, <3>2
  <2>2. CASE ~CrcMatches(bytes)
    BY <2>2, <1>2, <1>7
  <2> QED BY <2>1, <2>2
<1>10. ASSUME NEW n \in clean, Arriving(n)
       PROVE  Delivered(n)' \/ Arriving(n)'
  <2>1. PICK k \in 1 .. Len(wire) : Framed(k) /\ wire[k].of = n
    BY <1>10 DEF Arriving
  <2>2. Last(wire[1]) /\ Framed(k - 1)'
    BY <2>1, <1>1, FinishPackageFramed
  <2>3. \A i \in 1 .. Len(got) + 1 : bytes[i].place = i /\ bytes[i].of = wire[1].of
    BY <2>1, <1>1, FramedNext DEF bytes
  <2>4. CASE k = 1
    <3>1. \A i \in 1 .. Len(got) + 1 : bytes[i].intact
      <4> TAKE i \in 1 .. Len(got) + 1
      <4>1. bytes[i].of = n
        BY <2>1, <2>3, <2>4
      <4>2. i \in 1 .. Len(got) \/ i = Len(got) + 1
        BY <1>3
      <4> QED BY <4>1, <4>2, <2>1, <2>4, <1>3, <1>10 DEF Arriving, Untouched
    <3>2. 1 \in 1 .. Len(got) + 1 /\ DOMAIN bytes = 1 .. Len(got) + 1
      BY <1>3
    <3>3. CrcMatches(bytes) /\ bytes[1].of = n
      BY <3>1, <3>2, <2>1, <2>3, <2>4 DEF CrcMatches
    <3>4. DOMAIN delivered' = 1 .. Len(delivered')
      BY <1>1 DEF LineInv, TypeOK
    <3>5. Len(delivered') \in 1 .. Len(delivered')
      BY <3>3, <1>7, <1>8
    <3> QED BY <3>3, <3>4, <3>5, <1>8 DEF Delivered
  <2>5. CASE k > 1
    <3>1. k \in 2 .. Len(wire) /\ k - 1 \in 1 .. Len(wire') /\ wire'[k - 1] = wire[k]
      BY <2>5, <1>3, <1>4
    <3>2. ~(wire[1].of = n)
      <4>1. Before(wire[1], wire[k])
        BY <2>5, <1>1, <1>3 DEF LineInv, Sorted
      <4>2. Last(wire[k])
        BY <2>1, <1>3 DEF Framed
      <4>3. n \in 1 .. Len(sizes) /\ sizes[n] \in Nat /\ n \in Nat
        BY SMTT(30), <2>1, <1>1, SizesAreNat DEF LineInv, AllPending, Pending
      <4> QED BY <4>1, <4>2, <4>3, <2>1, <2>2 DEF Before, Last
    <3>3. FirstOnLine(n)'
      <4>1. \A i \in 1 .. Len(got) : got[i].of = wire[1].of
        BY <2>3, <1>3
      <4>2. PICK i \in 1 .. Len(wire) : wire[i].of = n /\ wire[i].place = 1
        BY <3>2, <4>1, <1>10 DEF Arriving, FirstOnLine
      <4>3. i \in 2 .. Len(wire)
        BY <3>2, <4>2, <1>3
      <4> QED BY <4>2, <4>3, <1>4 DEF FirstOnLine
    <3>4. Untouched(n)'
      BY <1>2, <1>5, <1>10 DEF Arriving, Untouched
    <3> QED BY <3>1, <3>3, <3>4, <2>1, <2>2, <1>2 DEF Arriving
  <2> QED BY <2>4, <2>5, <1>3
<1> QED BY <1>1, <1>2, <1>6, <1>9, <1>10 DEF StepInv, StopsForCause

LEMMA TimeoutStep ==
    ASSUME StepInv, Timeout
    PROVE  StepInv'
<1>1. LineInv /\ LineInv'
  BY TimeoutLine DEF StepInv
<1>2. /\ mode = "reading" /\ wire = << >> /\ GiveUp
      /\ inStep' = (inStep \/ mode' = "reading")
      /\ UNCHANGED <<wire, delivered, sizes, portFailed, clean>>
  BY DEF Timeout
<1>3. Len(wire) = 0
  BY <1>2
<1>4. inStep => got = << >>
  BY <1>2, <1>3 DEF StepInv, Framed
<1>5. mode' = "stopped" => ~inStep
  BY <1>2, <1>4 DEF GiveUp, Part
<1>6. mode' = "reading" => got' = << >>
  BY <1>2 DEF GiveUp
<1>7. inStep' /\ mode' = "reading" => Framed(Len(wire))'
  BY <1>2, <1>3, <1>6 DEF Framed
<1>8. \A n \in clean : Delivered(n) \/ portFailed
  BY <1>3 DEF StepInv, Arriving
<1> QED BY <1>1, <1>2, <1>5, <1>7, <1>8 DEF StepInv, StopsForCause, Delivered

LEMMA TimeoutInPauseStep ==
    ASSUME StepInv, TimeoutInPause
    PROVE  StepInv'
<1>1. LineInv /\ LineInv'
  BY TimeoutLine DEF StepInv
<1>2. inStep' = FALSE /\ UNCHANGED <<delivered, portFailed>>
  BY DEF TimeoutInPause, OutOfStep
<1>3. \A n \in clean' : Delivered(n)
  <2> SUFFICES ASSUME NEW n \in clean' PROVE Delivered(n)
    OBVIOUS
  <2>1. n \in clean /\ (n < 0 \/ Delivered(n))
    BY DEF TimeoutInPause, OutOfStep, Delivered
  <2>2. n \in 1 .. Len(sizes) /\ Len(sizes) \in Nat
    BY <2>1, <1>1, SizesAreNat DEF LineInv, TypeOK
  <2> QED BY <2>1, <2>2
<1> QED BY <1>1, <1>2, <1>3 DEF StepInv, StopsForCause, Delivered

LEMMA PortFailsStep ==
    ASSUME StepInv, PortFails
    PROVE  StepInv'
BY PortFailsLine DEF StepInv, StopsForCause, PortFails

LEMMA DeviceSendsStep ==
    ASSUME StepInv, DeviceSends
    PROVE  StepInv'
<1>1. LineInv /\ LineInv'
  BY DeviceSendsLine DEF StepInv
<1>2. PICK m \in Nat : m = Len(sizes) + 1
  BY <1>1, SizesAreNat DEF LineInv
<1>3. PICK size \in Sizes :
        /\ Len(sizes') = m /\ sizes'[m] = size
        /\ \A i \in 1 .. Len(sizes) : sizes'[i] = sizes[i]
        /\ wire' \in Seq(Byte) /\ Len(wire') = Len(wire) + (size + 4)
        /\ \A i \in 1 .. Len(wire) : wire'[i] = wire[i]
        /\ \A i \in Len(wire) + 1 .. Len(wire') :
             /\ wire'[i].of = m /\ wire'[i].place = i - Len(wire)
             /\ wire'[i].intact = TRUE
             /\ i - Len(wire) = LengthPlace => wire'[i].value = size
  BY <1>2, <1>1, DeviceSendsFacts
<1>4. /\ clean' = IF inStep /\ mode = "reading" THEN clean \cup {m} ELSE clean
      /\ UNCHANGED <<got, mode, delivered, portFailed, inStep>>
  BY <1>2 DEF DeviceSends, host
<1>5. /\ Len(sizes) \in Nat /\ m \in Nat /\ size \in Nat /\ Len(wire) \in Nat
      /\ Len(wire') \in Nat /\ Len(got) \in Nat
  BY <1>2, <1>1, <1>3, SizesAreNat, ReaderAssumption DEF LineInv
<1>6. \A i \in 1 .. Len(wire) : i \in 1 .. Len(wire')
  BY <1>3, <1>5
<1>7. \A i \in 1 .. Len(wire') : i \in 1 .. Len(wire) \/ i \in Len(wire) + 1 .. Len(wire')
  BY <1>3, <1>5
<1>8. ASSUME NEW k \in 0 .. Len(wire), Framed(k)
      PROVE  Framed(k)'
  <2>1. k <= Len(wire')
    BY <1>3, <1>5
  <2>2. \A i \in 1 .. k : wire'[i] = wire[i]
    BY <1>3, <1>5
  <2> QED BY <1>1, <1>3, <1>4, <1>5, <1>8, <2>1, <2>2, FramedKept
<1>9. inStep /\ mode = "reading" => Framed(Len(wire))'
  <2> SUFFICES ASSUME inStep, mode = "reading" PROVE Framed(Len(wire))'
    OBVIOUS
  <2>1. PICK k \in 0 .. Len(wire) : k = Len(wire)
    BY <1>5
  <2>2. Framed(k) /\ Framed(k)'
    BY <2>1, <1>8 DEF StepInv
  <2>3. PICK l \in 0 .. Len(wire') : l = Len(wire')
    BY <1>5
  <2>4. l = k + (size + 4) /\ l - 1 \in Nat
    BY <2>1, <2>3, <1>3, <1>5
  <2>5. \A i \in k + 1 .. l : /\ wire'[i].of = m /\ wire'[i].place = i - k
                              /\ LengthRight(wire[i])'
    <3> SUFFICES ASSUME NEW i \in k + 1 .. l
                 PROVE  /\ wire'[i].of = m /\ wire'[i].place = i - k
                        /\ LengthRight(wire[i])'
      OBVIOUS
    <3> QED BY <2>1, <2>3, <1>3 DEF LengthRight
  <2>6. Last(wire[l])'
    <3>1. l \in k + 1 .. l
      BY <2>4, <1>5, <2>1
    <3> QED BY SMTT(30), <3>1, <2>4, <2>5, <1>3, <1>5, <2>1 DEF Last
  <2>7. \A i \in 1 .. l : LengthRight(wire[i])'
    <3> SUFFICES ASSUME NEW i \in 1 .. l PROVE LengthRight(wire[i])'
      OBVIOUS
    <3>1. i \in 1 .. k \/ i \in k + 1 .. l
      BY <2>4, <1>5, <2>1
    <3> QED BY <3>1, <2>2, <2>5 DEF Framed
  <2>8. \A i \in 1 .. l - 1 : Follows(wire[i], wire[i + 1])'
    <3> SUFFICES ASSUME NEW i \in 1 .. l - 1 PROVE Follows(wire[i], wire[i + 1])'
      OBVIOUS
    <3>1. CASE i \in 1 .. k - 1
      BY <3>1, <2>2 DEF Framed
    <3>2. CASE i = k
      <4>1. Last(wire[k])' /\ k + 1 \in k + 1 .. l /\ (k + 1) - k = 1
        BY <3>2, <2>1, <2>2, <2>4, <1>5 DEF Framed
      <4> QED BY <3>2, <4>1, <2>5 DEF Follows
    <3>3. CASE i \in k + 1 .. l
      <4>1. i + 1 \in k + 1 .. l /\ (i + 1) - k = (i - k) + 1 /\ i - k # size + 4
        BY <3>3, <2>1, <2>4, <1>5
      <4>2. ~Last(wire[i])'
        BY <3>3, <4>1, <2>5, <1>3 DEF Last
      <4> QED BY <3>3, <4>1, <4>2, <2>5 DEF Follows
    <3> QED BY <3>1, <3>2, <3>3, <2>1, <2>4, <1>5
  <2>9. wire'[1].place = Len(got) + 1 /\ (got # << >> => wire'[1].of = got[1].of)
    <3>1. CASE k = 0
      <4>1. got = << >> /\ 1 \in k + 1 .. l /\ 1 - k = 1
        BY <3>1, <2>2, <2>4, <1>5 DEF Framed
      <4> QED BY <4>1, <2>5
    <3>2. CASE k > 0
      BY <3>2, <2>1, <2>2, <1>4 DEF Framed
    <3> QED BY <3>1, <3>2, <2>1, <1>5
  <2>10. \A i \in 1 .. Len(got') :
           got'[i].place = i /\ got'[i].of = got'[1].of /\ LengthRight(got[i])'
    BY <2>2 DEF Framed
  <2>11. Framed(l)'
    BY <2>3, <2>4, <2>6, <2>7, <2>8, <2>9, <2>10, <1>4, <1>5 DEF Framed
  <2> QED BY <2>3, <2>11
<1>10. ASSUME NEW n \in clean, Arriving(n)
      PROVE  Arriving(n)'
  <2>1. PICK k \in 1 .. Len(wire) : Framed(k) /\ wire[k].of = n
    BY <1>10 DEF Arriving
  <2>2. Framed(k)' /\ k \in 1 .. Len(wire') /\ wire'[k].of = n
    BY <2>1, <1>3, <1>5, <1>6, <1>8
  <2>3. FirstOnLine(n)' /\ Untouched(n)'
    BY <1>3, <1>4, <1>6, <1>7, <1>10 DEF Arriving, FirstOnLine, Untouched
  <2> QED BY <2>2, <2>3, <1>4, <1>10 DEF Arriving
<1>11. inStep /\ mode = "reading" => Arriving(m)'
  <2> SUFFICES ASSUME inStep, mode = "reading" PROVE Arriving(m)'
    OBVIOUS
  <2>1. /\ Len(wire) + 1 \in Len(wire) + 1 .. Len(wire')
        /\ Len(wire') \in Len(wire) + 1 .. Len(wire')
        /\ Len(wire) + 1 \in 1 .. Len(wire') /\ Len(wire') \in 1 .. Len(wire')
        /\ (Len(wire) + 1) - Len(wire) = 1
    BY <1>3, <1>5
  <2>2. FirstOnLine(m)'
    BY <2>1, <1>3 DEF FirstOnLine
  <2>3. /\ \A i \in 1 .. Len(got) : got[i].of # m
        /\ \A i \in 1 .. Len(wire) : wire[i].of # m
    BY <1>2, <1>1, <1>5 DEF LineInv, AllPending, Pending
  <2>4. Untouched(m)'
    BY <2>3, <1>3, <1>4, <1>7 DEF Untouched
  <2>5. PICK l \in 1 .. Len(wire') : l = Len(wire')
    BY <2>1
  <2>6. Framed(l)' /\ wire'[l].of = m
    BY <2>1, <2>5, <1>3, <1>9
  <2> QED BY <2>2, <2>4, <2>5, <2>6, <1>4 DEF Arriving
<1>12. \A n \in clean' : n \in clean \/ (n = m /\ inStep /\ mode = "reading")
  BY <1>4
<1> QED BY <1>1, <1>4, <1>9, <1>10, <1>11, <1>12 DEF StepInv, StopsForCause, Delivered

\* A fault of the line behind the last byte of package n does not reach it, and
\* one that is no loss and no damaged length keeps the packages framed.
LEMMA LineLosesByteStep ==
    ASSUME StepInv, LineLosesByte
    PROVE  StepInv'
<1>1. LineInv /\ LineInv'
  BY LineLosesByteLine DEF StepInv
<1>2. PICK i \in DOMAIN wire : /\ wire' = Without(wire, i)
                               /\ OutOfStep(wire[i].of)
  BY DEF LineLosesByte, Without
<1>3. UNCHANGED <<got, mode, delivered, sizes, portFailed>> /\ inStep' = FALSE
  BY <1>2 DEF LineLosesByte, host, OutOfStep
<1>4. wire \in Seq(Byte) /\ Len(wire) \in Nat /\ i \in 1 .. Len(wire)
  BY <1>1 DEF LineInv, TypeOK
<1>5. /\ Len(wire') = Len(wire) - 1 /\ Len(wire') \in Nat
      /\ \A j \in 1 .. Len(wire) - 1 : wire'[j] = IF j < i THEN wire[j] ELSE wire[j + 1]
  <2>1. /\ Len(wire') = Len(wire) - 1
        /\ \A j \in 1 .. Len(wire) - 1 : wire'[j] = IF j < i THEN wire[j] ELSE wire[j + 1]
    BY <1>2, <1>4, WithoutFacts
  <2> QED BY <2>1, <1>4
<1>6. ASSUME NEW n \in clean, n < wire[i].of, Arriving(n)
      PROVE  Arriving(n)'
  <2>1. PICK k \in 1 .. Len(wire) : Framed(k) /\ wire[k].of = n
    BY <1>6 DEF Arriving
  <2>2. wire[i].of \in Nat /\ n \in Nat
    <3>1. wire[i] \in Byte /\ wire[k] \in Byte
      BY <1>4
    <3> QED BY <3>1, <2>1 DEF Byte
  <2>3. \A j \in 1 .. Len(wire) : wire[j].of = n => j < i
    <3> SUFFICES ASSUME NEW j \in 1 .. Len(wire), wire[j].of = n, i <= j PROVE FALSE
      BY <1>4
    <3>1. i = j \/ Before(wire[i], wire[j])
      BY <1>1, <1>4 DEF LineInv, Sorted
    <3> QED BY <3>1, <2>2, <1>6 DEF Before
  <2>4. k < i
    BY <2>1, <2>3
  <2>5. \A j \in 1 .. i - 1 : j \in 1 .. Len(wire') /\ wire'[j] = wire[j]
    BY <1>4, <1>5
  <2>6. Framed(k)'
    <3>1. k \in 0 .. Len(wire) /\ k <= Len(wire')
      BY <2>4, <1>4, <1>5
    <3>2. \A j \in 1 .. k : wire'[j] = wire[j]
      BY <2>4, <2>5, <1>4
    <3> QED BY <3>1, <3>2, <2>1, <1>1, <1>3, <1>5, FramedKept
  <2>7. k \in 1 .. Len(wire') /\ wire'[k].of = n
    BY <2>1, <2>4, <2>5, <1>4
  <2>8. FirstOnLine(n)'
    <3>1. \A j \in 1 .. Len(wire) : j < i => j \in 1 .. i - 1
      BY <1>4
    <3> QED BY <3>1, <2>3, <2>5, <1>3, <1>6 DEF Arriving, FirstOnLine
  <2>9. Untouched(n)'
    <3>1. \A j \in 1 .. Len(wire') : \E l \in 1 .. Len(wire) : wire'[j] = wire[l]
      BY <1>4, <1>5
    <3> QED BY <3>1, <1>3, <1>6 DEF Arriving, Untouched
  <2> QED BY <2>6, <2>7, <2>8, <2>9, <1>3, <1>6 DEF Arriving
<1>7. \A n \in clean' : n \in clean /\ (n < wire[i].of \/ Delivered(n))
  BY <1>2 DEF OutOfStep, Delivered
<1> QED BY <1>1, <1>3, <1>6, <1>7 DEF StepInv, StopsForCause, Delivered

LEMMA LineDamagesByteStep ==
    ASSUME StepInv, LineDamagesByte
    PROVE  StepInv'
<1>1. LineInv /\ LineInv'
  BY LineDamagesByteLine DEF StepInv
<1>2. PICK i \in DOMAIN wire, v \in Junk :
        /\ wire' = [wire EXCEPT ![i].value = v, ![i].intact = FALSE]
        /\ IF wire[i].place = LengthPlace
           THEN OutOfStep(wire[i].of)
           ELSE clean' = clean \ {wire[i].of} /\ inStep' = inStep
  BY DEF LineDamagesByte
<1>3. UNCHANGED <<got, mode, delivered, sizes, portFailed>>
  BY DEF LineDamagesByte, host
<1>4. wire \in Seq(Byte) /\ Len(wire) \in Nat /\ i \in 1 .. Len(wire)
  BY <1>1 DEF LineInv, TypeOK
<1>5. /\ Len(wire') = Len(wire)
      /\ wire'[i].of = wire[i].of /\ wire'[i].place = wire[i].place
      /\ \A j \in 1 .. Len(wire) : j # i => wire'[j] = wire[j]
  <2>1. wire[i] \in Byte
    BY <1>4
  <2>2. wire' = [wire EXCEPT ![i] = [wire[i] EXCEPT !.value = v, !.intact = FALSE]]
    BY <1>2
  <2>3. DOMAIN wire' = DOMAIN wire /\ DOMAIN wire = 1 .. Len(wire)
    BY <2>2, <1>4
  <2>4. Len(wire') = Len(wire)
    <3>1. wire' \in Seq(Byte)
      BY <1>1 DEF LineInv, TypeOK
    <3> QED BY <3>1, <2>3, <1>4
  <2>5. wire'[i] = [wire[i] EXCEPT !.value = v, !.intact = FALSE]
    BY <2>2, <2>3, <1>4
  <2>6. wire'[i].of = wire[i].of /\ wire'[i].place = wire[i].place
    BY <2>1, <2>5 DEF Byte
  <2> QED BY <2>2, <2>3, <2>4, <2>6, <1>4
<1>6. ASSUME NEW k \in 0 .. Len(wire), Framed(k), wire[i].place # LengthPlace \/ k < i
      PROVE  Framed(k)'
  <2>1. \A j \in 1 .. k : /\ wire'[j].of = wire[j].of /\ wire'[j].place = wire[j].place
                          /\ wire[j].place = LengthPlace => wire'[j].value = wire[j].value
    BY <1>4, <1>5, <1>6
  <2> QED BY <2>1, <1>1, <1>3, <1>4, <1>5, <1>6, FramedKept
<1>7. inStep' /\ mode' = "reading" => Framed(Len(wire))'
  <2> SUFFICES ASSUME inStep', mode = "reading" PROVE Framed(Len(wire))'
    BY <1>3
  <2>1. wire[i].place # LengthPlace /\ inStep
    BY <1>2 DEF OutOfStep
  <2>2. PICK k \in 0 .. Len(wire) : k = Len(wire)
    BY <1>4
  <2>3. Framed(k)'
    BY <2>1, <2>2, <1>6 DEF StepInv
  <2> QED BY <2>2, <2>3, <1>5
<1>8. ASSUME NEW n \in clean', ~Delivered(n)
      PROVE  n \in clean /\ n # wire[i].of /\ (wire[i].place # LengthPlace \/ n < wire[i].of)
  <2>1. wire[i].of \in Nat
    <3>1. wire[i] \in Byte
      BY <1>4
    <3> QED BY <3>1 DEF Byte
  <2> QED BY <2>1, <1>2, <1>8 DEF OutOfStep, Delivered
<1>9. ASSUME NEW n \in clean', ~Delivered(n), Arriving(n)
      PROVE  Arriving(n)'
  <2>1. PICK k \in 1 .. Len(wire) : Framed(k) /\ wire[k].of = n
    BY <1>9 DEF Arriving
  <2>2. k # i /\ (wire[i].place # LengthPlace \/ k < i)
    <3>1. k # i
      BY <2>1, <1>8, <1>9
    <3>2. CASE n < wire[i].of /\ i < k
      <4>1. Before(wire[i], wire[k])
        BY <3>2, <1>1, <1>4 DEF LineInv, Sorted
      <4>2. wire[i].of \in Nat /\ n \in Nat
        <5>1. wire[i] \in Byte /\ wire[k] \in Byte
          BY <1>4
        <5> QED BY <5>1, <2>1 DEF Byte
      <4> QED BY <4>1, <4>2, <3>2, <2>1 DEF Before
    <3> QED BY <3>1, <3>2, <1>4, <1>8, <1>9
  <2>3. Framed(k)'
    BY <2>1, <2>2, <1>4, <1>6
  <2>4. \A j \in 1 .. Len(wire) : wire[j].of = n => j # i
    BY <1>8, <1>9
  <2>5. \A j \in 1 .. Len(wire) : wire'[j].of = n => wire'[j] = wire[j]
    BY <1>4, <1>5, <1>8, <1>9
  <2>6. FirstOnLine(n)' /\ Untouched(n)'
    BY <2>4, <2>5, <1>3, <1>5, <1>9 DEF Arriving, FirstOnLine, Untouched
  <2> QED BY <2>1, <2>2, <2>3, <2>6, <1>3, <1>4, <1>5, <1>9 DEF Arriving
<1>10. inStep' = inStep \/ inStep' = FALSE
  BY <1>2 DEF OutOfStep
<1>11. StopsForCause'
  BY <1>3, <1>10 DEF StepInv, StopsForCause
<1>12. \A n \in clean' : Delivered(n)' \/ portFailed' \/ Arriving(n)'
  BY <1>3, <1>8, <1>9 DEF StepInv, Delivered
<1> QED BY <1>1, <1>7, <1>11, <1>12 DEF StepInv

LEMMA StepKept ==
    ASSUME StepInv, [Next]_vars
    PROVE  StepInv'
<1>1. CASE UNCHANGED vars
  <2>1. LineInv'
    BY LineStep DEF StepInv
  <2> QED BY <1>1, <2>1 DEF vars, host, StepInv, StopsForCause, Delivered, Arriving,
             Framed, Last, Follows, LengthRight, FirstOnLine, Untouched
<1> QED
  BY <1>1, DiscardStep, ReadByteStep, FinishPackageStep, TimeoutStep, TimeoutInPauseStep,
     PortFailsStep, DeviceSendsStep, LineLosesByteStep, LineDamagesByteStep DEF Next, Reader

\* A reader that nothing has thrown out of step has whole packages in front of
\* it, and so has one that has not yet come to a package that is to arrive clean
\* (cfa835.cpp, the thread that reads the port).
THEOREM StepInvariant ==
    Spec => []StepInv
BY StepInitially, StepKept, PTL DEF Spec

\* The thread ends only when it was thrown out of step or the port has failed
\* (cfa835.cpp 417).
THEOREM StopsForCauseInvariant ==
    Spec => []StopsForCause
<1>1. StepInv => StopsForCause
  BY DEF StepInv
<1> QED BY <1>1, StepInvariant, PTL

\* A package sent to a reader in step and not touched on the line is handed on, or
\* still on its way, or the port has failed (cfa835.cpp 387-437).
THEOREM CleanArrivesInvariant ==
    Spec => []CleanArrives
<1>1. StepInv => CleanArrives
  <2> SUFFICES ASSUME StepInv, NEW n \in clean, ~Delivered(n), ~portFailed
               PROVE  LET line == got \o wire IN
                      \E i \in DOMAIN line : line[i].of = n /\ line[i].place = 1
    BY DEF CleanArrives
  <2> DEFINE line == got \o wire
  <2>1. got \in Seq(Byte) /\ wire \in Seq(Byte) /\ Len(got) \in Nat /\ Len(wire) \in Nat
    BY SizesAreNat DEF StepInv, LineInv, TypeOK
  <2>2. /\ DOMAIN line = 1 .. Len(got) + Len(wire)
        /\ \A i \in 1 .. Len(got) : line[i] = got[i]
        /\ \A i \in 1 .. Len(wire) : line[Len(got) + i] = wire[i]
    BY <2>1
  <2>3. FirstOnLine(n)
    BY DEF StepInv, Arriving
  <2>4. CASE \E i \in 1 .. Len(got) : got[i].of = n /\ got[i].place = 1
    <3>1. PICK i \in 1 .. Len(got) : got[i].of = n /\ got[i].place = 1
      BY <2>4
    <3>2. i \in DOMAIN line /\ line[i] = got[i]
      BY <2>1, <2>2
    <3> QED BY <3>1, <3>2
  <2>5. CASE \E i \in 1 .. Len(wire) : wire[i].of = n /\ wire[i].place = 1
    <3>1. PICK i \in 1 .. Len(wire) : wire[i].of = n /\ wire[i].place = 1
      BY <2>5
    <3>2. Len(got) + i \in DOMAIN line /\ line[Len(got) + i] = wire[i]
      BY <2>1, <2>2
    <3> QED BY <3>1, <3>2
  <2> QED BY <2>3, <2>4, <2>5 DEF FirstOnLine
<1> QED BY <1>1, StepInvariant, PTL

=============================================================================
