------------------------------ MODULE Checksum ------------------------------
(***************************************************************************)
(* The CRC of the CFA835: get_crc with its table, send_message that puts   *)
(* it after a package, the line that damages bytes, and the test of        *)
(* process_package.  PackageReader takes for granted what is checked here: *)
(* that damage of neighbouring bytes never goes unnoticed.  A damaged      *)
(* length byte, which moves the place of the CRC, is left to that module.  *)
(***************************************************************************)
EXTENDS Integers, Sequences

CONSTANTS
    Messages,  \* packages without their CRC: command, length, data
    Samples,   \* those of them that are damaged
    Damages    \* pairs of bytes: what the line flips in two neighbouring bytes

Bytes == 0 .. 255

ASSUME ChecksumAssumption ==
    /\ \A m \in Messages : m \in Seq(Bytes) /\ Len(m) >= 2 /\ Len(m) = 2 + m[2]
    /\ Samples \subseteq Messages
    /\ Damages \subseteq Bytes \X Bytes

VARIABLES
    message, \* the package sent, without its CRC
    arrived, \* the bytes the reader got
    verdict   \* "unread", "accepted" or "corrupted"

checksumVars == <<message, arrived, verdict>>

-----------------------------------------------------------------------------
\* CRCTable, entry i at place i + 1.
CRCTable == <<
    0, 4489, 8978, 12955, 17956, 22445, 25910, 29887, 35912, 40385, 44890, 48851, 51820, 56293, 59774, 63735,
    4225, 264, 13203, 8730, 22181, 18220, 30135, 25662, 40137, 36160, 49115, 44626, 56045, 52068, 63999, 59510,
    8450, 12427, 528, 5017, 26406, 30383, 17460, 21949, 44362, 48323, 36440, 40913, 60270, 64231, 51324, 55797,
    12675, 8202, 4753, 792, 30631, 26158, 21685, 17724, 48587, 44098, 40665, 36688, 64495, 60006, 55549, 51572,
    16900, 21389, 24854, 28831, 1056, 5545, 10034, 14011, 52812, 57285, 60766, 64727, 34920, 39393, 43898, 47859,
    21125, 17164, 29079, 24606, 5281, 1320, 14259, 9786, 57037, 53060, 64991, 60502, 39145, 35168, 48123, 43634,
    25350, 29327, 16404, 20893, 9506, 13483, 1584, 6073, 61262, 65223, 52316, 56789, 43370, 47331, 35448, 39921,
    29575, 25102, 20629, 16668, 13731, 9258, 5809, 1848, 65487, 60998, 56541, 52564, 47595, 43106, 39673, 35696,
    33800, 38273, 42778, 46739, 49708, 54181, 57662, 61623, 2112, 6601, 11090, 15067, 20068, 24557, 28022, 31999,
    38025, 34048, 47003, 42514, 53933, 49956, 61887, 57398, 6337, 2376, 15315, 10842, 24293, 20332, 32247, 27774,
    42250, 46211, 34328, 38801, 58158, 62119, 49212, 53685, 10562, 14539, 2640, 7129, 28518, 32495, 19572, 24061,
    46475, 41986, 38553, 34576, 62383, 57894, 53437, 49460, 14787, 10314, 6865, 2904, 32743, 28270, 23797, 19836,
    50700, 55173, 58654, 62615, 32808, 37281, 41786, 45747, 19012, 23501, 26966, 30943, 3168, 7657, 12146, 16123,
    54925, 50948, 62879, 58390, 37033, 33056, 46011, 41522, 23237, 19276, 31191, 26718, 7393, 3432, 16371, 11898,
    59150, 63111, 50204, 54677, 41258, 45219, 33336, 37809, 27462, 31439, 18516, 23005, 11618, 15595, 3696, 8185,
    63375, 58886, 54429, 50452, 45483, 40994, 37561, 33584, 31687, 27214, 22741, 18780, 15843, 11370, 7921, 3960 >>

\* The exclusive-or of C++: of two bits; of numbers twice as wide, from that of
\* their halves; of two bytes; and of numbers of 16 bits.
XorBit == [a \in 0 .. 1 |-> [b \in 0 .. 1 |-> (a + b) % 2]]

TwiceAsWide(xor, w) ==
    [a \in 0 .. w * w - 1 |-> [b \in 0 .. w * w - 1 |->
        w * xor[a \div w][b \div w] + xor[a % w][b % w]]]

XorByte   == TwiceAsWide(TwiceAsWide(TwiceAsWide(XorBit, 2), 4), 16)
Xor(a, b) == 256 * XorByte[a \div 256][b \div 256] + XorByte[a % 256][b % 256]

\* Mutant: the exclusive-or in the index is forgotten.
NextSumLow(sum, byte) == Xor(sum \div 256, CRCTable[byte + 1])

\* The old sum shifted by a byte, exclusive-or the entry of the byte that falls out.
NextSum(sum, byte) == Xor(sum \div 256, CRCTable[(Xor(sum, byte) % 256) + 1])

\* The sums of the first n bytes, for every n.
Sums(bytes) ==
    LET sum[n \in 0 .. Len(bytes)] ==
            IF n = 0 THEN 65535 ELSE NextSum(sum[n - 1], bytes[n])
    IN sum

\* In the end all bits are inverted.
GetCrc(bytes) == 65535 - Sums(bytes)[Len(bytes)]

\* send_message: the low byte of the CRC goes first.
Packed(bytes) == bytes \o <<GetCrc(bytes) % 256, GetCrc(bytes) \div 256>>

\* Flips in byte i and the next one: external.
Flipped(bytes, i, d) == [bytes EXCEPT ![i] = XorByte[@][d[1]], ![i + 1] = XorByte[@][d[2]]]

ChecksumInit ==
    /\ message \in Messages
    /\ \/ arrived = Packed(message)
       \/ /\ message \in Samples
          /\ \E i \in 3 .. Len(message) + 1, d \in Damages :
                arrived = Flipped(Packed(message), i, d)
    /\ verdict = "unread"

\* read_package splits the bytes, process_package sums up all but the CRC.
ProcessPackage ==
    /\ verdict = "unread"
    /\ LET n == 2 + arrived[2]
           crc == arrived[n + 2] * 256 + arrived[n + 1]
       IN verdict' = IF crc = GetCrc(SubSeq(arrived, 1, n)) THEN "accepted"
                     ELSE "corrupted"
    /\ UNCHANGED <<message, arrived>>

ChecksumSpec == ChecksumInit /\ [][ProcessPackage]_checksumVars

-----------------------------------------------------------------------------
\* The reference: the CRC of CCITT with its bits reversed, one bit at a time.
BitStep(c) == IF c % 2 = 1 THEN Xor(c \div 2, 33800) ELSE c \div 2

ByteStep(c) ==
    BitStep(BitStep(BitStep(BitStep(BitStep(BitStep(BitStep(BitStep(c))))))))

ReferenceSums(bytes) ==
    LET sum[n \in 0 .. Len(bytes)] ==
            IF n = 0 THEN 65535 ELSE ByteStep(Xor(sum[n - 1], bytes[n]))
    IN sum

ReferenceCrc(bytes) == 65535 - ReferenceSums(bytes)[Len(bytes)]

\* What is true of the table, which TLC computes from all of it: its entries are
\* of two bytes, no two share the high one, and an entry makes up for eight steps.
ASSUME TableAssumption ==
    /\ \A i \in 1 .. 256 : CRCTable[i] \in Nat /\ CRCTable[i] \div 256 \in Bytes
    /\ \A i, j \in 1 .. 256 : CRCTable[i] \div 256 = CRCTable[j] \div 256 => i = j
    /\ \A h, l \in Bytes : ByteStep(256 * h + l) = Xor(h, CRCTable[l + 1])

\* Every entry of the table is the one of the polynomial the device uses, and a
\* package passes if and only if it is what was sent: no damage of two
\* neighbouring bytes, the CRC's own bytes among them, meets a second package
\* with the same sum (cfa835.cpp:181-214, 447-454, 494-503).
ChecksumCatches ==
    verdict # "unread" =>
        /\ GetCrc(message) = ReferenceCrc(message)
        /\ verdict = "accepted" <=> arrived = Packed(message)

=============================================================================
