--------------------------- MODULE DrawingProofs ----------------------------
(***************************************************************************)
(* Pictures and shapes of any size: a bitmap is shown the right way up,    *)
(* and a triangle or a parallelogram is filled to its sides and not beyond *)
(* them.                                                                   *)
(***************************************************************************)
EXTENDS Bitmap, Shapes, FiniteSetTheorems, SequenceTheorems, TLAPS

-----------------------------------------------------------------------------
(* Numbers *)

LEMMA DivisionBounds ==
    ASSUME NEW n \in Nat, NEW d \in Nat \ {0}
    PROVE  /\ n \div d \in Nat
           /\ d * (n \div d) <= n
           /\ n < d * (n \div d) + d
OBVIOUS

\* A product of numbers grows with each of them.
LEMMA ProductGrows ==
    ASSUME NEW a \in Nat, NEW b \in Nat, NEW c \in Nat, a <= b
    PROVE  a * c <= b * c /\ c * a <= c * b /\ a * c \in Nat
OBVIOUS

LEMMA DivisionSplits ==
    ASSUME NEW n \in Nat, NEW w \in Nat \ {0}
    PROVE  /\ n \div w \in Nat /\ n % w \in 0 .. w - 1
           /\ n = w * (n \div w) + (n % w)
OBVIOUS

LEMMA IntDivisionBounds ==
    ASSUME NEW n \in Int, NEW d \in Nat \ {0}
    PROVE  /\ n \div d \in Int
           /\ d * (n \div d) <= n
           /\ n < d * (n \div d) + d
           /\ n >= 0 => n \div d \in Nat
OBVIOUS

LEMMA IntProductGrows ==
    ASSUME NEW a \in Int, NEW b \in Int, NEW c \in Nat, a <= b
    PROVE  a * c <= b * c /\ c * a <= c * b /\ c * a \in Int
OBVIOUS

-----------------------------------------------------------------------------
(* Bitmaps *)

-----------------------------------------------------------------------------
(* The picture *)

Wide  == bmp.width
High  == Absolute(bmp.height)
Pitch == Padded(bmp.width)

\* The row of the picture that scanline c of the file holds.
RowOf(c) == IF bmp.height < 0 THEN c ELSE High - 1 - c

\* The first n scanlines are in their place.
RowsCopied(n) ==
    \A c \in 0 .. n - 1 : \A w \in 0 .. Wide - 1 :
        data[Wide * RowOf(c) + w + 1] = Shade(Entry(w, RowOf(c)))

BitmapInvariant ==
    /\ Wide \in Nat \ {0} /\ bmp.height \in Int \ {0} /\ bmp.size \in {0, Pitch * High}
    /\ reading \in {"file", "rows", "done", "thrown"}
    /\ reading = "file" => data = << >> /\ pxIndex = 0
    /\ reading = "rows" => /\ line \in 0 .. High - 1
                           /\ pxIndex = Pitch * (High - 1 - line)
                           /\ RowsCopied(High - 1 - line)
    /\ reading = "done" /\ data # << >> => pxIndex = Pitch * High /\ RowsCopied(High)
    /\ reading = "rows" \/ (reading = "done" /\ data # << >>) =>
          /\ buffer = RawData
          /\ data = [i \in 1 .. Wide * High |-> data[i]]

LEMMA QuotientIs ==
    ASSUME NEW n \in Nat \ {0}, NEW p \in Nat, NEW r \in 0 .. n - 1
    PROVE  /\ n * p + r \in Nat
           /\ (n * p + r) \div n = p
           /\ (n * p + r) % n = r
<1> DEFINE t == n * p + r
           q == t \div n
           s == t % n
<1>1. n * p \in Nat /\ t \in Nat /\ n \in Nat /\ n >= 1
  OBVIOUS
<1>2. q \in Nat /\ s \in 0 .. n - 1 /\ t = n * q + s
  <2> HIDE DEF t
  <2> QED BY <1>1, DivisionSplits
<1> HIDE DEF q, s
<1>3. n * q \in Nat
  BY <1>1, <1>2
<1>4. q <= p
  <2> SUFFICES ASSUME p + 1 <= q PROVE FALSE
    BY <1>2
  <2>1. n * (p + 1) <= n * q /\ n * (p + 1) = n * p + n
    BY <1>1, <1>2, ProductGrows
  <2> QED BY <1>1, <1>2, <1>3, <2>1
<1>5. p <= q
  <2> SUFFICES ASSUME q + 1 <= p PROVE FALSE
    BY <1>2
  <2>1. n * (q + 1) <= n * p
    BY <1>1, <1>2, ProductGrows
  <2>2. n * (q + 1) = n * q + n
    BY <1>1, <1>2
  <2> QED BY <1>1, <1>2, <1>3, <2>1, <2>2
<1>6. q = p
  BY <1>2, <1>4, <1>5
<1>7. s = r
  BY <1>1, <1>2, <1>3, <1>6
<1> QED BY <1>1, <1>6, <1>7 DEF q, s

\* A place in row g of a picture of h rows of m pixels.
LEMMA PlaceInPicture ==
    ASSUME NEW m \in Nat \ {0}, NEW h \in Nat, NEW g \in 0 .. h - 1, NEW w \in 0 .. m - 1
    PROVE  m * g + w + 1 \in 1 .. m * h
<1>1. m * g \in Nat /\ m * h \in Nat /\ m * (g + 1) = m * g + m
  OBVIOUS
<1>2. m * (g + 1) <= m * h
  <2>1. g + 1 \in Nat /\ g + 1 <= h /\ m \in Nat
    OBVIOUS
  <2> QED BY <2>1, ProductGrows
<1> QED BY <1>1, <1>2

\* A place in another row than g.
LEMMA PlaceElsewhere ==
    ASSUME NEW m \in Nat \ {0}, NEW g \in Nat, NEW h \in Nat, g # h, NEW w \in 0 .. m - 1
    PROVE  (m * h + w + 1) - 1 - m * g \notin 0 .. m - 1
<1>1. m * g \in Nat /\ m * h \in Nat /\ m * (g + 1) = m * g + m /\ m * (h + 1) = m * h + m
      /\ m \in Nat
  OBVIOUS
<1>2. CASE g < h
  <2>1. m * (g + 1) <= m * h
    BY <1>1, <1>2, ProductGrows
  <2> QED BY <1>1, <2>1
<1>3. CASE h < g
  <2>1. m * (h + 1) <= m * g
    BY <1>1, <1>3, ProductGrows
  <2> QED BY <1>1, <2>1
<1> QED BY <1>2, <1>3

LEMMA PictureSizes ==
    ASSUME BitmapInvariant
    PROVE  /\ Pitch \in Nat \ {0} /\ Wide <= Pitch /\ Wide \in Nat \ {0}
           /\ High \in Nat \ {0} /\ Pitch * High \in Nat /\ Wide * High \in Nat
           /\ Absolute(Pitch * bmp.height) = Pitch * High
           /\ Absolute(Wide * bmp.height) = Wide * High
<1>1. Wide \in Nat \ {0} /\ bmp.height \in Int \ {0}
  BY DEF BitmapInvariant
<1>2. High \in Nat \ {0}
  BY <1>1 DEF High, Absolute
<1>3. Pitch \in Nat \ {0} /\ Wide <= Pitch
  <2>1. Wide % 4 \in 0 .. 3
    BY <1>1
  <2> QED BY <1>1, <2>1 DEF Pitch, Padded, Wide
<1>4. ASSUME NEW a \in Nat, NEW h \in Int
      PROVE  Absolute(a * h) = a * Absolute(h) /\ a * Absolute(h) \in Nat
  <2>1. CASE h < 0
    <3>1. -h \in Nat /\ a * (-h) \in Nat /\ a * h = -(a * (-h))
      BY <2>1
    <3> QED BY <2>1, <3>1 DEF Absolute
  <2>2. CASE h >= 0
    <3>1. a * h \in Nat
      BY <2>2
    <3> QED BY <2>2, <3>1 DEF Absolute
  <2> QED BY <2>1, <2>2
<1>5. /\ Absolute(Pitch * bmp.height) = Pitch * High /\ Pitch * High \in Nat
      /\ Absolute(Wide * bmp.height) = Wide * High /\ Wide * High \in Nat
  BY <1>1, <1>3, <1>4 DEF High
<1> QED BY <1>1, <1>2, <1>3, <1>5

LEMMA RowOfIs ==
    ASSUME BitmapInvariant
    PROVE  /\ \A c \in 0 .. High - 1 : RowOf(c) \in 0 .. High - 1 /\ RowOf(RowOf(c)) = c
           /\ \A c, d \in 0 .. High - 1 : c # d => RowOf(c) # RowOf(d)
BY PictureSizes DEF RowOf

\* What the file has at pixel w of scanline c.
LEMMA RawPixel ==
    ASSUME BitmapInvariant, NEW c \in 0 .. High - 1, NEW w \in 0 .. Wide - 1
    PROVE  /\ Pitch * c + w + 1 \in 1 .. Pitch * High
           /\ RawData[Pitch * c + w + 1] = Entry(w, RowOf(c))
<1>1. /\ Pitch \in Nat \ {0} /\ Wide <= Pitch /\ Wide \in Nat \ {0}
      /\ High \in Nat \ {0} /\ bmp.height \in Int \ {0} /\ Pitch * High \in Nat
  BY PictureSizes DEF BitmapInvariant
<1>2. w \in 0 .. Pitch - 1 /\ ~ (w >= Wide) /\ c \in Nat /\ Pitch * c \in Nat
  BY <1>1
<1>3. Pitch * c + w + 1 \in 1 .. Pitch * High
  BY <1>1, <1>2, PlaceInPicture
<1> DEFINE k == Pitch * c + w + 1
<1>4. k - 1 = Pitch * c + w
  BY <1>2
<1>5. (k - 1) % Pitch = w /\ (k - 1) \div Pitch = c
  BY <1>1, <1>2, <1>4, QuotientIs
<1>6. RawData = [j \in 1 .. Pitch * High |->
                   IF (j - 1) % Pitch >= Wide THEN 0
                   ELSE Entry((j - 1) % Pitch,
                              IF bmp.height > 0 THEN High - 1 - ((j - 1) \div Pitch)
                              ELSE (j - 1) \div Pitch)]
  BY DEF RawData, Pitch, High, Wide
<1> HIDE DEF k
<1>7. RawData[k] = IF (k - 1) % Pitch >= Wide THEN 0
                   ELSE Entry((k - 1) % Pitch,
                              IF bmp.height > 0 THEN High - 1 - ((k - 1) \div Pitch)
                              ELSE (k - 1) \div Pitch)
  BY <1>3, <1>6 DEF k
<1>8. RawData[k] = Entry(w, IF bmp.height > 0 THEN High - 1 - c ELSE c)
  BY <1>2, <1>5, <1>7
<1>9. (IF bmp.height > 0 THEN High - 1 - c ELSE c) = RowOf(c)
  BY <1>1 DEF RowOf
<1>10. RawData[k] = Entry(w, RowOf(c))
  BY <1>8, <1>9
<1> QED BY <1>3, <1>10 DEF k

LEMMA WholeSequence ==
    ASSUME NEW m \in Nat, NEW s, s = [j \in 1 .. m |-> s[j]]
    PROVE  SubSeq(s, 1, m) = s /\ Len(s) = m
<1> DEFINE S == {s[j] : j \in 1 .. m}
<1>1. s \in [1 .. m -> S]
  OBVIOUS
<1> HIDE DEF S
<1>2. s \in Seq(S)
  BY <1>1, SeqDef
<1>3. Len(s) = m
  BY <1>1, <1>2, LenProperties
<1>4. SubSeq(s, 1, m) = s
  BY <1>2, <1>3, SubSeqProperties
<1> QED BY <1>3, <1>4

LEMMA RawDataIs ==
    ASSUME BitmapInvariant
    PROVE  /\ RawData = [j \in 1 .. Pitch * High |-> RawData[j]]
           /\ SubSeq(RawData, 1, Pitch * High) = RawData
           /\ Len(RawData) = Pitch * High
<1>1. Pitch * High \in Nat
  BY PictureSizes
<1>2. RawData = [j \in 1 .. Pitch * High |-> RawData[j]]
  BY DEF RawData, Pitch, High, Wide
<1> QED BY <1>1, <1>2, WholeSequence

LEMMA ReadStep ==
    ASSUME BitmapInvariant, ReadBitmap
    PROVE  BitmapInvariant'
<1>1. /\ reading = "file" /\ bmp' = bmp /\ pxIndex' = pxIndex
      /\ pxIndex = 0 /\ data = << >>
  BY DEF BitmapInvariant, ReadBitmap
<1>2. /\ Wide' = Wide /\ High' = High /\ Pitch' = Pitch /\ RawData' = RawData
      /\ \A c : RowOf(c)' = RowOf(c)
  BY <1>1 DEF Wide, High, Pitch, RawData, Entry, RowOf
<1>3. /\ Wide \in Nat \ {0} /\ bmp.height \in Int \ {0} /\ bmp.size \in {0, Pitch * High}
  BY DEF BitmapInvariant
<1>4. CASE reading' \in {"done", "thrown"} /\ UNCHANGED <<buffer, data, line>>
  BY <1>1, <1>2, <1>3, <1>4 DEF BitmapInvariant
<1>5. CASE reading' = "rows"
  <2>1. /\ Absolute(Pitch * bmp.height) = Pitch * High
        /\ Absolute(Wide * bmp.height) = Wide * High /\ High \in Nat \ {0}
        /\ Pitch \in Nat
    BY PictureSizes
  <2>2. /\ line' = High - 1
        /\ buffer' = SubSeq(RawData, 1, IF bmp.size = 0 THEN Absolute(Pitch * bmp.height)
                                        ELSE bmp.size)
        /\ data' = [i \in 1 .. Absolute(Wide * bmp.height) |-> 0]
    BY <1>5 DEF ReadBitmap, Pitch, High, Wide
  <2>3. buffer' = RawData
    BY <1>3, <2>1, <2>2, RawDataIs
  <2>4. data' = [i \in 1 .. Wide * High |-> data'[i]]
    BY <2>1, <2>2
  <2>5. line' \in 0 .. High - 1 /\ High - 1 - line' = 0 /\ pxIndex' = Pitch * (High - 1 - line')
    BY <1>1, <2>1, <2>2
  <2>6. RowsCopied(High - 1 - line)'
    BY <1>2, <2>5 DEF RowsCopied
  <2>7. /\ buffer' = RawData'
        /\ data' = [i \in 1 .. Wide' * High' |-> data'[i]]
        /\ line' \in 0 .. High' - 1
        /\ pxIndex' = Pitch' * (High' - 1 - line')
    BY <1>2, <2>3, <2>4, <2>5
  <2>8. /\ Wide' \in Nat \ {0} /\ bmp'.height \in Int \ {0}
        /\ bmp'.size \in {0, Pitch' * High'}
    BY <1>1, <1>2, <1>3
  <2> QED BY <1>5, <2>6, <2>7, <2>8 DEF BitmapInvariant
<1> QED BY <1>4, <1>5 DEF ReadBitmap

LEMMA CopyStep ==
    ASSUME BitmapInvariant, CopyRow
    PROVE  BitmapInvariant'
<1> DEFINE c == High - 1 - line
           g == RowOf(c)
<1>1. /\ reading = "rows" /\ bmp' = bmp /\ buffer' = buffer
      /\ line \in 0 .. High - 1 /\ pxIndex = Pitch * c
      /\ RowsCopied(c) /\ buffer = RawData
      /\ data = [i \in 1 .. Wide * High |-> data[i]]
  BY DEF BitmapInvariant, CopyRow
<1>2. /\ Wide' = Wide /\ High' = High /\ Pitch' = Pitch /\ RawData' = RawData
      /\ \A n : RowOf(n)' = RowOf(n)
      /\ \A w, n : Entry(w, n)' = Entry(w, n)
  BY <1>1 DEF Wide, High, Pitch, RawData, Entry, RowOf
<1>3. /\ Wide \in Nat \ {0} /\ bmp.height \in Int \ {0} /\ bmp.size \in {0, Pitch * High}
  BY DEF BitmapInvariant
<1>4. Pitch \in Nat \ {0} /\ High \in Nat \ {0}
  BY PictureSizes
<1>5. c \in 0 .. High - 1 /\ g \in 0 .. High - 1
  <2>1. c \in 0 .. High - 1
    BY <1>1, <1>4
  <2> HIDE DEF c
  <2> QED BY <2>1, RowOfIs
<1>6. (IF bmp.height < 0 THEN Absolute(line + 1 + bmp.height) ELSE line) = g
  <2>1. line \in Int /\ line <= High - 1 /\ bmp.height \in Int
    BY <1>1, <1>3, <1>4
  <2>2. CASE bmp.height < 0
    <3>1. High = -bmp.height
      BY <2>2 DEF High, Absolute
    <3>2. line + 1 + bmp.height = -c /\ c \in Nat
      BY <1>5, <2>1, <3>1
    <3>3. Absolute(-c) = c
      <4> HIDE DEF c
      <4> QED BY <3>2 DEF Absolute
    <3> QED BY <2>2, <3>2, <3>3 DEF RowOf
  <2>3. CASE ~ (bmp.height < 0)
    BY <1>4, <2>1, <2>3 DEF RowOf
  <2> QED BY <2>2, <2>3
<1>7. data' = Copied(g)
  BY <1>6 DEF CopyRow
<1> HIDE DEF g
<1>8. data' = [i \in 1 .. Wide * High |->
                IF i - 1 - Wide * g \in 0 .. Wide - 1
                THEN Shade(RawData[Pitch * c + (i - 1 - Wide * g) + 1])
                ELSE data[i]]
  <2>1. DOMAIN data = 1 .. Wide * High
    BY <1>1
  <2> QED BY <1>1, <1>7, <2>1 DEF Copied, Wide
<1> HIDE DEF c
<1>9. ASSUME NEW w \in 0 .. Wide - 1
      PROVE  data'[Wide * g + w + 1] = Shade(Entry(w, g))
  <2> DEFINE i == Wide * g + w + 1
  <2>1. i \in 1 .. Wide * High
    BY <1>3, <1>4, <1>5, PlaceInPicture
  <2>2. i - 1 - Wide * g = w
    <3>1. Wide * g \in Nat /\ w \in Nat
      BY <1>3, <1>5
    <3> QED BY <3>1
  <2> HIDE DEF i
  <2>3. data'[i] = Shade(RawData[Pitch * c + w + 1])
    BY <1>8, <2>1, <2>2
  <2>4. RawData[Pitch * c + w + 1] = Entry(w, g)
    BY <1>5, RawPixel DEF g
  <2> QED BY <2>3, <2>4 DEF i
<1>10. ASSUME NEW d \in 0 .. High - 1, d < c, NEW w \in 0 .. Wide - 1
       PROVE  data'[Wide * RowOf(d) + w + 1] = Shade(Entry(w, RowOf(d)))
  <2> DEFINE i == Wide * RowOf(d) + w + 1
  <2>1. RowOf(d) \in 0 .. High - 1 /\ RowOf(d) # g
    <3>1. d # c
      BY <1>5, <1>10
    <3> QED BY <1>5, <3>1, RowOfIs DEF g
  <2>2. i \in 1 .. Wide * High
    BY <1>3, <1>4, <2>1, PlaceInPicture
  <2>3. i - 1 - Wide * g \notin 0 .. Wide - 1
    <3>1. RowOf(d) \in Nat /\ g \in Nat
      BY <1>5, <2>1
    <3> QED BY <1>3, <2>1, <3>1, PlaceElsewhere
  <2>4. data[i] = Shade(Entry(w, RowOf(d)))
    <3>1. d \in 0 .. c - 1
      BY <1>5, <1>10
    <3> QED BY <1>1, <3>1 DEF RowsCopied
  <2> HIDE DEF i
  <2>5. data'[i] = data[i]
    BY <1>8, <2>2, <2>3
  <2> QED BY <2>4, <2>5 DEF i
<1>11. \A d \in 0 .. c : \A w \in 0 .. Wide - 1 :
          data'[Wide * RowOf(d) + w + 1] = Shade(Entry(w, RowOf(d)))
  <2>1. \A d \in 0 .. c : d = c \/ (d \in 0 .. High - 1 /\ d < c)
    BY <1>4, <1>5
  <2> QED BY <1>9, <1>10, <2>1 DEF g
<1>12. data' = [i \in 1 .. Wide * High |-> data'[i]]
  BY <1>8
<1>13. pxIndex' = Pitch * (c + 1)
  <2>1. pxIndex' = pxIndex + Pitch
    BY DEF CopyRow, Pitch
  <2>2. Pitch * (c + 1) = Pitch * c + Pitch
    BY <1>4, <1>5
  <2> QED BY <1>1, <2>1, <2>2
<1>14. /\ line' = line - 1
       /\ reading' = IF line = 0 THEN "done" ELSE "rows"
  BY DEF CopyRow
<1>15. CASE line = 0
  <2>1. c = High - 1 /\ c + 1 = High /\ reading' = "done"
    BY <1>4, <1>14, <1>15 DEF c
  <2>2. RowsCopied(High)'
    BY <1>2, <1>11, <2>1 DEF RowsCopied, Shade, PaletteByte
  <2> QED BY <1>1, <1>2, <1>3, <1>12, <1>13, <2>1, <2>2 DEF BitmapInvariant
<1>16. CASE line # 0
  <2>1. /\ line' \in 0 .. High - 1 /\ High - 1 - line' = c + 1 /\ reading' = "rows"
    BY <1>1, <1>4, <1>14, <1>16 DEF c
  <2>2. RowsCopied(High - 1 - line)'
    <3>1. 0 .. (c + 1) - 1 = 0 .. c
      BY <1>5
    <3> QED BY <1>2, <1>11, <2>1, <3>1 DEF RowsCopied
  <2> QED BY <1>1, <1>2, <1>3, <1>12, <1>13, <2>1, <2>2 DEF BitmapInvariant
<1> QED BY <1>15, <1>16

\* For pictures of any size: each pixel is at its place, upright, whatever the
\* order of the rows in the file and the padding, and the raw data is used up.
THEOREM PictureIsUprightHolds == BitmapSpec => []PictureIsUpright
<1>1. BitmapInit => BitmapInvariant
  <2> SUFFICES ASSUME BitmapInit PROVE BitmapInvariant
    OBVIOUS
  <2>1. PICK w \in Widths, h \in Heights, told \in BOOLEAN : \E height \in {h, -h} :
          bmp = [width |-> w, height |-> height, size |-> IF told THEN Padded(w) * h ELSE 0]
    BY DEF BitmapInit
  <2>2. PICK height \in {h, -h} :
          bmp = [width |-> w, height |-> height, size |-> IF told THEN Padded(w) * h ELSE 0]
    BY <2>1
  <2>3. w \in Nat \ {0} /\ h \in Nat \ {0} /\ height \in Int \ {0} /\ Absolute(height) = h
    BY BitmapAssumption DEF Absolute
  <2>4. Wide = w /\ High = h /\ Pitch = Padded(w) /\ bmp.size \in {0, Pitch * High}
    BY <2>3, <2>2 DEF Wide, High, Pitch
  <2>5. bmp.height = height
    BY <2>2
  <2> QED BY <2>3, <2>4, <2>5 DEF BitmapInit, BitmapInvariant
<1>2. BitmapInvariant /\ [BitmapNext]_bitmapVars => BitmapInvariant'
  <2> SUFFICES ASSUME BitmapInvariant, [BitmapNext]_bitmapVars PROVE BitmapInvariant'
    OBVIOUS
  <2>1. CASE UNCHANGED bitmapVars
    <3>1. /\ bmp' = bmp /\ buffer' = buffer /\ pxIndex' = pxIndex /\ line' = line
          /\ data' = data /\ reading' = reading
      BY <2>1 DEF bitmapVars
    <3>2. /\ Wide' = Wide /\ High' = High /\ Pitch' = Pitch /\ RawData' = RawData
          /\ \A n : RowOf(n)' = RowOf(n)
          /\ \A w, n : Entry(w, n)' = Entry(w, n)
      BY <3>1 DEF Wide, High, Pitch, RawData, Entry, RowOf
    <3>3. /\ RowsCopied(High)' = RowsCopied(High)
          /\ RowsCopied(High - 1 - line)' = RowsCopied(High - 1 - line)
      BY <3>1, <3>2 DEF RowsCopied
    <3> QED BY <3>1, <3>2, <3>3 DEF BitmapInvariant
  <2> QED BY <2>1, ReadStep, CopyStep DEF BitmapNext
<1>3. BitmapInvariant => PictureIsUpright
  <2> SUFFICES ASSUME BitmapInvariant, reading = "done", data # << >>
               PROVE  /\ pxIndex = Len(buffer)
                      /\ \A w \in 0 .. bmp.width - 1, y \in 0 .. Absolute(bmp.height) - 1 :
                           data[bmp.width * y + w + 1] = Shade(Entry(w, y))
    BY DEF PictureIsUpright
  <2>1. pxIndex = Pitch * High /\ RowsCopied(High) /\ buffer = RawData
    BY DEF BitmapInvariant
  <2>2. pxIndex = Len(buffer)
    BY <2>1, RawDataIs
  <2>3. ASSUME NEW w \in 0 .. Wide - 1, NEW y \in 0 .. High - 1
        PROVE  data[Wide * y + w + 1] = Shade(Entry(w, y))
    <3>1. RowOf(y) \in 0 .. High - 1 /\ RowOf(RowOf(y)) = y
      BY RowOfIs
    <3> QED BY <2>1, <3>1 DEF RowsCopied
  <2> QED BY <2>2, <2>3 DEF Wide, High
<1> QED BY <1>1, <1>2, <1>3, PTL DEF BitmapSpec

-----------------------------------------------------------------------------
(* Shapes *)

LEMMA Cancel ==
    ASSUME NEW d \in Nat \ {0}, NEW a \in Int, NEW b \in Int, d * a < d * b + d
    PROVE  a <= b
<1> SUFFICES ASSUME b + 1 <= a PROVE FALSE
  OBVIOUS
<1>1. d * (b + 1) <= d * a /\ d * (b + 1) = d * b + d /\ d * b \in Int /\ d * a \in Int
  BY IntProductGrows
<1> QED BY <1>1

LEMMA LeastOf ==
    ASSUME NEW a \in Int, NEW b \in Int
    PROVE  /\ Least({a, b}) \in Int /\ Least({a, b}) <= a /\ Least({a, b}) <= b
           /\ Least({a, b}) = a \/ Least({a, b}) = b
           /\ Greatest({a, b}) \in Int /\ Greatest({a, b}) >= a /\ Greatest({a, b}) >= b
           /\ Greatest({a, b}) = a \/ Greatest({a, b}) = b
<1>1. \E n \in {a, b} : \A m \in {a, b} : n <= m
  BY a <= b \/ b <= a
<1>2. \E n \in {a, b} : \A m \in {a, b} : n >= m
  BY a <= b \/ b <= a
<1>3. Least({a, b}) \in {a, b} /\ \A m \in {a, b} : Least({a, b}) <= m
  BY <1>1 DEF Least
<1>4. Greatest({a, b}) \in {a, b} /\ \A m \in {a, b} : Greatest({a, b}) >= m
  BY <1>2 DEF Greatest
<1> QED BY <1>3, <1>4

-----------------------------------------------------------------------------
(* A border and the side it follows *)

\* Six times what lies between two whole numbers.
LEMMA SixthsOf ==
    ASSUME NEW d \in Nat \ {0}, NEW n \in Int, NEW q \in Int, NEW m \in Int,
           d * q <= n, n < d * q + d, d * m <= 6 * n, 6 * n < d * m + d
    PROVE  6 * q <= m /\ m <= 6 * q + 5
<1>1. d * (6 * q) = 6 * (d * q) /\ d * (6 * q + 5) = 6 * (d * q) + 5 * d
      /\ d * q \in Int /\ d * m \in Int
  OBVIOUS
<1>2. d * (6 * q) < d * m + d
  BY <1>1
<1>3. d * m < d * (6 * q + 5) + d
  BY <1>1
<1> QED BY <1>2, <1>3, Cancel

\* What a side that rises from x0 to x1 in d rows has reached after k.
LEMMA ReachedSum ==
    ASSUME NEW x0 \in Nat, NEW x1 \in Nat, NEW d \in Nat \ {0}, NEW k \in 0 .. d,
           NEW top \in Nat, x0 <= top, x1 <= top
    PROVE  /\ x0 * d + k * (x1 - x0) \in Nat
           /\ x0 * d + k * (x1 - x0) <= d * top
<1>1. k \in Nat /\ d - k \in Nat
  OBVIOUS
<1>2. x0 * d + k * (x1 - x0) = x0 * (d - k) + x1 * k
  BY <1>1
<1>3. x0 * (d - k) \in Nat /\ x1 * k \in Nat
  BY <1>1
<1>4. x0 * (d - k) <= top * (d - k) /\ x1 * k <= top * k
  BY <1>1, IntProductGrows
<1>5. top * (d - k) + top * k = d * top /\ top * (d - k) \in Nat /\ top * k \in Nat
  BY <1>1
<1> QED BY <1>2, <1>3, <1>4, <1>5

\* Where a side that rises from x0 to x1 in d rows is after k, in sixths of a pixel
\* and rounded down.
Sixths(x0, x1, d, k) == 6 * x0 + (6 * (x1 - x0) * k) \div d

\* A pixel within one of a place that is given in sixths.
Near(p, m) == 6 * p <= m + 6 /\ m <= 6 * p + 6

LEMMA TruncatedIs ==
    ASSUME NEW n \in Nat, NEW d \in Nat \ {0}
    PROVE  Truncated(n, d) = n \div d /\ Magnitude(d) = d
<1>1. ~ (n < 0) /\ ~ (d < 0)
  OBVIOUS
<1> QED BY <1>1 DEF Truncated, Magnitude

\* The sums of slopes stay within a pixel of the side and between its ends.
LEMMA ReachedNear ==
    ASSUME NEW top \in Nat, NEW x0 \in 0 .. top, NEW x1 \in 0 .. top,
           NEW d \in Nat \ {0}, NEW k \in 0 .. d,
           NEW r \in Reached(x0, x1 - x0, d, k)
    PROVE  /\ r \in 0 .. top
           /\ Sixths(x0, x1, d, k) \in Int
           /\ Near(r, Sixths(x0, x1, d, k))
<1> DEFINE n == x0 * d + k * (x1 - x0)
           x == n \div d
           m == Sixths(x0, x1, d, k)
<1>1. n \in Nat /\ n <= d * top
  BY ReachedSum
<1>2. r = x \/ (r = x - 1 /\ n % d = 0 /\ x > 0)
  <2>1. Truncated(n, d) = x /\ Magnitude(d) = d /\ d # 0
    <3> HIDE DEF n
    <3> QED BY <1>1, TruncatedIs
  <2>2. x \in Nat
    <3> HIDE DEF n
    <3> QED BY <1>1, IntDivisionBounds
  <2> DEFINE exact == Magnitude(d) \in {1, 2, 4} \/ (x1 - x0) % Magnitude(d) = 0 \/ k = 0
  <2>3. Reached(x0, x1 - x0, d, k) =
          IF exact \/ n % d # 0 \/ x = 0 THEN {x} ELSE {x, IF x > 0 THEN x - 1 ELSE x + 1}
    <3> DEFINE t == Truncated(n, d)
    <3>1. (IF d = 0 THEN 1 ELSE d) = d
          /\ (IF d = 0 THEN 0 ELSE k * (x1 - x0)) = k * (x1 - x0)
      BY <2>1
    <3>2. Reached(x0, x1 - x0, d, k) =
            IF exact \/ n % Magnitude(d) # 0 \/ t = 0 THEN {t}
            ELSE {t, IF t > 0 THEN t - 1 ELSE t + 1}
      BY <3>1, Zenon DEF Reached
    <3> HIDE DEF exact, n, x
    <3> QED BY <2>1, <3>2
  <2> HIDE DEF exact, n, x
  <2> QED BY <2>2, <2>3
<1> HIDE DEF n
<1>3. x \in Nat /\ d * x <= n /\ n < d * x + d
  BY <1>1, IntDivisionBounds
<1>4. x <= top
  <2>1. d * x < d * top + d /\ d * top \in Nat /\ d * x \in Nat
    BY <1>1, <1>3
  <2> QED BY <1>3, <2>1, Cancel
<1>5. m \in Int /\ d * m <= 6 * n /\ 6 * n < d * m + d
  <2> DEFINE a == 6 * (x1 - x0) * k
             q == a \div d
  <2>1. a \in Int
    OBVIOUS
  <2>2. 6 * n = d * (6 * x0) + a
    BY DEF n
  <2> HIDE DEF a
  <2>3. q \in Int /\ d * q <= a /\ a < d * q + d
    BY <2>1, IntDivisionBounds
  <2> HIDE DEF q
  <2>4. d * (6 * x0 + q) = d * (6 * x0) + d * q /\ d * (6 * x0) \in Int /\ d * q \in Int
    BY <2>3
  <2>5. /\ 6 * x0 + q \in Int
        /\ d * (6 * x0 + q) <= 6 * n /\ 6 * n < d * (6 * x0 + q) + d
    BY <2>1, <2>2, <2>3, <2>4
  <2>6. m = 6 * x0 + q
    BY DEF Sixths, q, a
  <2> HIDE DEF m
  <2> QED BY <2>5, <2>6
<1> HIDE DEF m, x
<1>6. 6 * x <= m /\ m <= 6 * x + 5
  BY <1>1, <1>3, <1>5, SixthsOf
<1>7. n % d = 0 => m <= 6 * x
  <2> SUFFICES ASSUME n % d = 0 PROVE m <= 6 * x
    OBVIOUS
  <2>1. n = d * (n \div d) + (n % d)
    BY <1>1
  <2>2. n = d * x
    BY <1>1, <1>3, <2>1 DEF x
  <2>3. d * (6 * x) = 6 * n /\ d * m \in Int
    BY <1>3, <1>5, <2>2
  <2>4. d * m < d * (6 * x) + d
    BY <1>1, <1>5, <2>3
  <2> QED BY <1>3, <1>5, <2>4, Cancel
<1>8. CASE r = x
  BY <1>3, <1>4, <1>5, <1>6, <1>8 DEF Near, m
<1>9. CASE r = x - 1 /\ n % d = 0 /\ x > 0
  BY <1>3, <1>4, <1>5, <1>6, <1>7, <1>9 DEF Near, m
<1> QED BY <1>2, <1>8, <1>9

\* A side that is flat stays where it starts, and so does every side before its
\* first row.
LEMMA ReachedStart ==
    ASSUME NEW x0 \in Nat, NEW dx \in Int, NEW d \in Nat, NEW k \in Nat, d = 0 \/ k = 0
    PROVE  Reached(x0, dx, d, k) = {x0}
<1> DEFINE e == IF d = 0 THEN 1 ELSE d
           n == x0 * e + (IF d = 0 THEN 0 ELSE k * dx)
<1>1. e \in Nat \ {0}
  OBVIOUS
<1>2. n = e * x0 /\ n \in Nat
  BY <1>1
<1>3. Truncated(n, e) = x0
  <2> DEFINE q == n \div e
  <2> HIDE DEF n, e
  <2>1. q \in Nat /\ e * q <= n /\ n < e * q + e
    BY <1>1, <1>2, IntDivisionBounds
  <2> HIDE DEF q
  <2>2. e * q \in Nat /\ e * x0 \in Nat /\ e * q < e * x0 + e /\ e * x0 < e * q + e
    BY <1>1, <1>2, <2>1
  <2>3. q <= x0 /\ x0 <= q
    BY <1>1, <2>1, <2>2, Cancel
  <2>4. Truncated(n, e) = q
    BY <1>1, <1>2, TruncatedIs DEF q
  <2> QED BY <2>1, <2>3, <2>4
<1>4. Magnitude(e) \in {1, 2, 4} \/ k = 0
  BY DEF Magnitude
<1> DEFINE t == Truncated(n, e)
           exact == Magnitude(e) \in {1, 2, 4} \/ dx % Magnitude(e) = 0 \/ k = 0
<1>5. Reached(x0, dx, d, k) =
        IF exact \/ n % Magnitude(e) # 0 \/ t = 0 THEN {t}
        ELSE {t, IF t > 0 THEN t - 1 ELSE t + 1}
  BY Zenon DEF Reached
<1>6. exact
  BY <1>4
<1> HIDE DEF exact, n, e
<1> QED BY <1>3, <1>5, <1>6

\* The border of a parallelogram, which divides whole numbers, is within a pixel
\* of its side and between its ends.
LEMMA BorderNear ==
    ASSUME NEW top \in Nat, NEW a, NEW b, a.x \in 0 .. top, b.x \in 0 .. top,
           a.y \in Int, b.y \in Int, a.y # b.y, row \in Int,
           row \in Least({a.y, b.y}) .. Greatest({a.y, b.y})
    PROVE  /\ Border(a, b) \in 0 .. top
           /\ Sixths(a.x, b.x, Magnitude(b.y - a.y), Magnitude(row - a.y)) \in Int
           /\ Near(Border(a, b), Sixths(a.x, b.x, Magnitude(b.y - a.y), Magnitude(row - a.y)))
<1> DEFINE dx == b.x - a.x
           dy == b.y - a.y
           ky == row - a.y
           d  == Magnitude(dy)
           k  == Magnitude(ky)
           e  == Magnitude(dx)
           p  == (e * k) \div d
           q  == (6 * dx * k) \div d
<1>1. /\ dx \in Int /\ dy \in Int /\ ky \in Int /\ dy # 0
      /\ d \in Nat \ {0} /\ k \in Nat /\ e \in Nat
      /\ e = (IF dx < 0 THEN -dx ELSE dx)
  BY DEF Magnitude
<1>2. /\ k <= d
      /\ dy < 0 => ky <= 0
      /\ dy > 0 => ky >= 0
  <2>1. /\ Least({a.y, b.y}) \in {a.y, b.y} /\ Least({a.y, b.y}) <= a.y /\ Least({a.y, b.y}) <= b.y
        /\ Greatest({a.y, b.y}) \in {a.y, b.y}
        /\ Greatest({a.y, b.y}) >= a.y /\ Greatest({a.y, b.y}) >= b.y
    BY LeastOf
  <2>2. Least({a.y, b.y}) <= row /\ row <= Greatest({a.y, b.y})
    BY <2>1
  <2>3. CASE a.y < b.y
    <3>1. a.y <= row /\ row <= b.y
      BY <2>1, <2>2, <2>3
    <3> QED BY <2>3, <3>1 DEF Magnitude
  <2>4. CASE b.y < a.y
    <3>1. b.y <= row /\ row <= a.y
      BY <2>1, <2>2, <2>4
    <3> QED BY <2>4, <3>1 DEF Magnitude
  <2> QED BY <2>3, <2>4
<1>3. Magnitude(dx * ky) = e * k
  <2>1. ASSUME NEW i \in Int, NEW j \in Int
        PROVE  Magnitude(i * j) = Magnitude(i) * Magnitude(j)
    <3>1. CASE i >= 0 /\ j >= 0
      <4>1. i * j >= 0
        BY <3>1
      <4> QED BY <3>1, <4>1 DEF Magnitude
    <3>2. CASE i < 0 /\ j < 0
      <4>1. (-i) * (-j) = i * j /\ (-i) * (-j) \in Nat
        BY <3>2
      <4> QED BY <3>2, <4>1 DEF Magnitude
    <3>3. CASE i < 0 /\ j >= 0
      <4>1. (-i) * j = -(i * j) /\ (-i) * j \in Nat
        BY <3>3
      <4> QED BY <3>3, <4>1 DEF Magnitude
    <3>4. CASE i >= 0 /\ j < 0
      <4>1. i * (-j) = -(i * j) /\ i * (-j) \in Nat
        BY <3>4
      <4> QED BY <3>4, <4>1 DEF Magnitude
    <3> QED BY <3>1, <3>2, <3>3, <3>4
  <2> QED BY <1>1, <2>1
<1>4. e * k \in Nat /\ p \in Nat /\ d * p <= e * k /\ e * k < d * p + d
  <2>1. /\ \A i, j \in Nat : i * j \in Nat
        /\ \A i \in Int : i >= 0 <=> i \in Nat
    OBVIOUS
  <2> DEFINE ek == e * k
  <2> HIDE DEF e, k, d
  <2>2. ek \in Nat
    BY <1>1, <2>1
  <2> HIDE DEF ek
  <2>3. ek \div d \in Nat /\ d * (ek \div d) <= ek /\ ek < d * (ek \div d) + d
    <3>1. ek \in Int /\ ek >= 0 /\ d \in Nat \ {0}
      BY <1>1, <2>2
    <3> QED BY <3>1, IntDivisionBounds
  <2> QED BY <2>2, <2>3 DEF ek
<1>5. q \in Int /\ d * q <= 6 * dx * k /\ 6 * dx * k < d * q + d
  <2>1. 6 * dx * k \in Int
    BY <1>1
  <2> HIDE DEF dx, k, d
  <2> QED BY <1>1, <2>1, IntDivisionBounds
<1>6. p <= e
  <2> HIDE DEF e, k, d, p
  <2>1. e * k <= e * d /\ e * d = d * e /\ d * e \in Nat /\ d * p \in Nat
    BY <1>1, <1>2, <1>4, IntProductGrows
  <2>2. d * p < d * e + d
    BY <1>1, <1>4, <2>1
  <2> QED BY <1>1, <1>4, <2>2, Cancel

<1>7. Truncated(dx * ky, dy) = IF dx < 0 THEN -p ELSE p
  <2> DEFINE n == dx * ky
             t == Magnitude(n) \div d
  <2>1. t = p
    BY <1>3
  <2>2. Truncated(n, dy) = IF (n < 0) = (dy < 0) THEN t ELSE -t
    BY DEF Truncated
  <2>3. CASE dx = 0 \/ ky = 0
    <3>1. e * k = 0
      <4>1. e = 0 \/ k = 0
        BY <2>3 DEF Magnitude
      <4> QED BY <1>1, <4>1
    <3> HIDE DEF d, p, e, k
    <3>2. d * p < d * 0 + d
      <4> DEFINE dp == d * p
                 ek == e * k
      <4>1. dp \in Int /\ dp <= ek /\ ek = 0
        BY <1>1, <1>4, <3>1
      <4> HIDE DEF dp, ek
      <4>2. dp < d * 0 + d
        BY <1>1, <4>1
      <4> QED BY <4>2 DEF dp
    <3>3. p = 0
      <4>1. p <= 0
        BY <1>1, <1>4, <3>2, Cancel
      <4> QED BY <1>4, <4>1
    <3> HIDE DEF t, p
    <3>4. t = 0 /\ -t = t /\ -p = p
      <4>1. \A i \in Int : i <= 0 /\ i >= 0 => -i = i
        OBVIOUS
      <4>2. t \in Int /\ t <= 0 /\ t >= 0 /\ p = t
        BY <1>4, <2>1, <3>3
      <4> QED BY <4>1, <4>2
    <3>5. (IF dx < 0 THEN -p ELSE p) = 0
      BY <3>3, <3>4
    <3> HIDE DEF t, n, dy, dx
    <3>6. Truncated(n, dy) = 0
      BY <2>2, <3>4
    <3> QED BY <3>5, <3>6 DEF n
  <2>4. CASE dx > 0 /\ ky # 0
    <3>1. (n < 0) = (dy < 0)
      <4>1. CASE dy < 0
        <5>1. ky < 0 /\ -ky > 0
          BY <1>1, <1>2, <2>4, <4>1
        <5>2. dx * (-ky) > 0 /\ n = -(dx * (-ky))
          BY <1>1, <2>4, <5>1
        <5> QED BY <1>1, <4>1, <5>2
      <4>2. CASE dy > 0
        <5>1. ky > 0
          BY <1>1, <1>2, <2>4, <4>2
        <5>2. n > 0
          BY <1>1, <2>4, <5>1
        <5> QED BY <1>1, <4>2, <5>2
      <4> QED BY <1>1, <4>1, <4>2
    <3>2. ~ (dx < 0)
      BY <1>1, <2>4
    <3> HIDE DEF t, p, n, dx, dy
    <3>3. Truncated(n, dy) = t
      BY <2>2, <3>1
    <3> QED BY <2>1, <3>2, <3>3 DEF n
  <2>5. CASE dx < 0 /\ ky # 0
    <3>1. (n < 0) # (dy < 0)
      <4>1. CASE dy < 0
        <5>1. ky < 0 /\ -ky > 0 /\ -dx > 0
          BY <1>1, <1>2, <2>5, <4>1
        <5>2. (-dx) * (-ky) > 0 /\ n = (-dx) * (-ky)
          BY <1>1, <2>5, <5>1
        <5> QED BY <1>1, <4>1, <5>2
      <4>2. CASE dy > 0
        <5>1. ky > 0 /\ -dx > 0
          BY <1>1, <1>2, <2>5, <4>2
        <5>2. (-dx) * ky > 0 /\ n = -((-dx) * ky)
          BY <1>1, <2>5, <5>1
        <5> QED BY <1>1, <4>2, <5>2
      <4> QED BY <1>1, <4>1, <4>2
    <3> HIDE DEF t, p, n, dx, dy
    <3>2. Truncated(n, dy) = -t
      BY <2>2, <3>1
    <3> QED BY <2>1, <2>5, <3>2 DEF n
  <2> QED BY <1>1, <2>3, <2>4, <2>5
<1>8. Border(a, b) = a.x + (IF dx < 0 THEN -p ELSE p)
  BY <1>7 DEF Border
<1>9. Sixths(a.x, b.x, d, k) = 6 * a.x + q
  BY DEF Sixths
<1>10. CASE dx >= 0
  <2>1. e = dx /\ 6 * dx * k = 6 * (e * k)
    BY <1>1, <1>10
  <2>2. 6 * p <= q /\ q <= 6 * p + 5
    <3> HIDE DEF p, q, e, d, k, dx
    <3> QED BY <1>1, <1>4, <1>5, <2>1, SixthsOf
  <2>3. Border(a, b) = a.x + p
    BY <1>8, <1>10
  <2>4. a.x \in Nat /\ a.x + e <= top
    BY <2>1
  <2> HIDE DEF p, q, e, d, k, dx
  <2>5. Border(a, b) \in 0 .. top
    BY <1>1, <1>4, <1>6, <2>3, <2>4
  <2>6. Near(Border(a, b), 6 * a.x + q) /\ 6 * a.x + q \in Int
    BY <1>4, <1>5, <2>2, <2>3, <2>4 DEF Near
  <2> QED BY <1>9, <2>5, <2>6 DEF d, k
<1>11. CASE dx < 0
  <2>1. e = -dx /\ 6 * dx * k = -(6 * (e * k))
    BY <1>1, <1>11
  <2>2. q <= -6 * p /\ -6 * p - 6 <= q
    <3> HIDE DEF p, q, e, d, k, dx
    <3>1. /\ d * q \in Int /\ d * p \in Int
          /\ d * (-6 * p) = -6 * (d * p) /\ d * (-6 * p - 6) = -6 * (d * p) - 6 * d
      BY <1>1, <1>4, <1>5
    <3>2. d * q < d * (-6 * p) + d
      BY <1>1, <1>4, <1>5, <2>1, <3>1
    <3>3. d * (-6 * p - 6) < d * q + d
      BY <1>1, <1>4, <1>5, <2>1, <3>1
    <3> QED BY <1>1, <1>4, <1>5, <3>2, <3>3, Cancel
  <2>3. Border(a, b) = a.x - p
    BY <1>4, <1>8, <1>11
  <2>4. a.x \in Nat /\ a.x - e >= 0 /\ a.x <= top
    BY <2>1
  <2> HIDE DEF p, q, e, d, k, dx
  <2>5. Border(a, b) \in 0 .. top
    BY <1>1, <1>4, <1>6, <2>3, <2>4
  <2>6. Near(Border(a, b), 6 * a.x + q) /\ 6 * a.x + q \in Int
    BY <1>4, <1>5, <2>2, <2>3, <2>4 DEF Near
  <2> QED BY <1>9, <2>5, <2>6 DEF d, k
<1> QED BY <1>1, <1>10, <1>11

-----------------------------------------------------------------------------
(* Where the sides of a shape are *)

\* Where the side from a to b is in row y, and where a flat one starts.
Side(a, b, y) ==
    IF a.y = b.y THEN 6 * a.x
    ELSE Sixths(a.x, b.x, Magnitude(b.y - a.y), Magnitude(y - a.y))

\* The coordinates of a vertex are bytes.
Bytes == 0 .. 255
IsVertex(a) == a.x \in Bytes /\ a.y \in Bytes

\* The coordinates of a vertex as numbers.
LEMMA VertexIs ==
    ASSUME NEW a, IsVertex(a)
    PROVE  /\ a.x \in Nat /\ a.x <= 255 /\ a.x \in 0 .. 255
           /\ a.y \in Nat /\ a.y <= 255 /\ a.y \in 0 .. 255
<1>1. \A n \in 0 .. 255 : n \in Nat /\ n <= 255
  OBVIOUS
<1>2. a.x \in 0 .. 255 /\ a.y \in 0 .. 255
  BY DEF IsVertex, Bytes
<1> QED BY <1>1, <1>2

LEMMA VertexBytes ==
    ASSUME NEW a \in Vertex
    PROVE  IsVertex(a)
BY ShapesAssumption DEF Vertex, IsVertex, Bytes

LEMMA CutsAre ==
    ASSUME NEW a, NEW b, NEW y
    PROVE  Cuts(a, b, y) = IF a.y = b.y THEN {6 * a.x, 6 * b.x} ELSE {Side(a, b, y)}
BY Zenon DEF Cuts, Side, Sixths

LEMMA BetweenIs ==
    ASSUME NEW a, NEW b, IsVertex(a), IsVertex(b), NEW y \in Int
    PROVE  /\ a.y <= b.y => (Between(a, b, y) <=> a.y <= y /\ y <= b.y)
           /\ b.y <= a.y => (Between(a, b, y) <=> b.y <= y /\ y <= a.y)
<1>1. a.y \in Int /\ b.y \in Int
  BY DEF IsVertex, Bytes
<1> DEFINE l == Least({a.y, b.y})
           g == Greatest({a.y, b.y})
<1>2. /\ l \in Int /\ l <= a.y /\ l <= b.y /\ (l = a.y \/ l = b.y)
      /\ g \in Int /\ g >= a.y /\ g >= b.y /\ (g = a.y \/ g = b.y)
  BY <1>1, LeastOf
<1>3. Between(a, b, y) <=> y \in l .. g
  BY DEF Between
<1> HIDE DEF l, g
<1> QED BY <1>1, <1>2, <1>3

\* A side starts at its first end and arrives at its second.
LEMMA SideEnds ==
    ASSUME NEW a, NEW b, IsVertex(a), IsVertex(b)
    PROVE  /\ Side(a, b, a.y) = 6 * a.x
           /\ a.y # b.y => Side(a, b, b.y) = 6 * b.x
<1>1. a.x \in Nat /\ b.x \in Nat /\ a.y \in Nat /\ b.y \in Nat
  BY DEF IsVertex, Bytes
<1> DEFINE d == Magnitude(b.y - a.y)
<1>2. a.y # b.y => d \in Nat \ {0}
  BY <1>1 DEF Magnitude
<1>3. \A e \in Nat \ {0} : \A z \in Int : (z * e) \div e = z
  <2> SUFFICES ASSUME NEW e \in Nat \ {0}, NEW z \in Int PROVE (z * e) \div e = z
    OBVIOUS
  <2> DEFINE n == z * e
             q == n \div e
  <2>1. n \in Int /\ n = e * z
    OBVIOUS
  <2> HIDE DEF n
  <2>2. q \in Int /\ e * q <= n /\ n < e * q + e
    BY <2>1, IntDivisionBounds
  <2> HIDE DEF q
  <2>3. e * q < e * z + e /\ e * z < e * q + e
    <3>1. e * q \in Int /\ e * z \in Int
      BY <2>2
    <3> QED BY <2>1, <2>2, <3>1
  <2>4. q <= z /\ z <= q
    BY <2>2, <2>3, Cancel
  <2>5. q = z
    BY <2>2, <2>4
  <2> QED BY <2>5 DEF q, n
<1>4. Side(a, b, a.y) = 6 * a.x
  <2>1. CASE a.y = b.y
    BY <2>1 DEF Side
  <2>2. CASE a.y # b.y
    <3>1. Magnitude(a.y - a.y) = 0
      BY <1>1 DEF Magnitude
    <3>2. 6 * (b.x - a.x) * 0 = 0 * d
      BY <1>1, <1>2, <2>2
    <3> HIDE DEF d
    <3>3. (0 * d) \div d = 0
      BY <1>2, <1>3, <2>2
    <3>4. Side(a, b, a.y) = 6 * a.x + (6 * (b.x - a.x) * 0) \div d
      BY <2>2, <3>1 DEF Side, Sixths, d
    <3> QED BY <1>1, <3>2, <3>3, <3>4
  <2> QED BY <2>1, <2>2
<1>5. ASSUME a.y # b.y PROVE Side(a, b, b.y) = 6 * b.x
  <2>1. 6 * (b.x - a.x) \in Int
    BY <1>1
  <2> HIDE DEF d
  <2>2. (6 * (b.x - a.x) * d) \div d = 6 * (b.x - a.x)
    BY <1>2, <1>3, <1>5, <2>1
  <2>3. Side(a, b, b.y) = 6 * a.x + (6 * (b.x - a.x) * d) \div d
    BY <1>5 DEF Side, Sixths, d
  <2> QED BY <1>1, <2>2, <2>3
<1> QED BY <1>4, <1>5

\* What the sum of slopes has reached is near the side, and a pixel of a byte.
LEMMA SideNear ==
    ASSUME NEW a, NEW b, IsVertex(a), IsVertex(b), a.y <= b.y,
           NEW y \in a.y .. b.y,
           NEW r \in Reached(a.x, b.x - a.x, b.y - a.y, y - a.y)
    PROVE  r \in Bytes /\ Side(a, b, y) \in Int /\ Near(r, Side(a, b, y))
<1>1. /\ a.x \in 0 .. 255 /\ b.x \in 0 .. 255 /\ a.y \in Nat /\ b.y \in Nat
      /\ a.x \in Nat /\ b.x - a.x \in Int
      /\ y \in Int /\ a.y <= y /\ y <= b.y
  <2>1. /\ a.x \in 0 .. 255 /\ b.x \in 0 .. 255 /\ a.y \in Nat /\ b.y \in Nat
        /\ a.x \in Nat /\ b.x \in Nat
    BY VertexIs
  <2>2. b.x - a.x \in Int
    BY <2>1
  <2>3. y \in Int /\ a.y <= y /\ y <= b.y
    BY <2>1
  <2> QED BY <2>1, <2>2, <2>3
<1>2. CASE a.y = b.y
  <2>1. b.y - a.y = 0 /\ y - a.y = 0
    BY <1>1, <1>2
  <2>2. Reached(a.x, b.x - a.x, 0, 0) = {a.x}
    BY <1>1, ReachedStart
  <2>3. r = a.x
    BY <2>1, <2>2
  <2>4. Side(a, b, y) = 6 * a.x
    BY <1>2 DEF Side
  <2> QED BY <1>1, <2>3, <2>4 DEF Near, Bytes
<1>3. CASE a.y # b.y
  <2> DEFINE d == b.y - a.y
             k == y - a.y
  <2>1. d \in Nat \ {0} /\ k \in 0 .. d
    <3>1. \A i, j, z \in Int :
            i <= j /\ i # j /\ i <= z /\ z <= j => j - i \in Nat \ {0} /\ z - i \in 0 .. j - i
      OBVIOUS
    <3>2. a.y \in Int /\ b.y \in Int /\ a.y # b.y /\ a.y <= b.y
      BY <1>1, <1>3
    <3> QED BY <1>1, <3>1, <3>2
  <2>2. Magnitude(d) = d /\ Magnitude(k) = k
    BY <2>1 DEF Magnitude
  <2> HIDE DEF d, k
  <2>3. Side(a, b, y) = Sixths(a.x, b.x, d, k)
    BY <1>3, <2>2 DEF Side, d, k
  <2>4. r \in Reached(a.x, b.x - a.x, d, k)
    BY DEF d, k
  <2>5. 255 \in Nat
    OBVIOUS
  <2>6. r \in 0 .. 255 /\ Sixths(a.x, b.x, d, k) \in Int /\ Near(r, Sixths(a.x, b.x, d, k))
    <3> DEFINE x0 == a.x
               x1 == b.x
    <3>1. x0 \in 0 .. 255 /\ x1 \in 0 .. 255
      BY <1>1
    <3>2. r \in Reached(x0, x1 - x0, d, k)
      BY <2>4
    <3> HIDE DEF x0, x1
    <3>3. r \in 0 .. 255 /\ Sixths(x0, x1, d, k) \in Int /\ Near(r, Sixths(x0, x1, d, k))
      BY <2>1, <2>5, <3>1, <3>2, ReachedNear, ZenonT(60)
    <3> QED BY <3>3 DEF x0, x1
  <2> QED BY <2>3, <2>6 DEF Bytes
<1> QED BY <1>2, <1>3

-----------------------------------------------------------------------------
(* One row *)

\* Between two pixels that are near two places, everything between the places is
\* reached, and nothing more than a pixel outside of them.
LEMMA RowBetween ==
    ASSUME NEW s \in Int, NEW t \in Int, NEW from \in Int, NEW to \in Int,
           Near(from, s), Near(to, t), NEW x \in Int
    PROVE  LET span == Least({from, to}) .. Greatest({from, to})
               M    == {s, t}
           IN /\ Least(M) < 6 * x /\ 6 * x < Greatest(M) => x \in span
              /\ x \in span => Least(M) - 6 <= 6 * x /\ 6 * x <= Greatest(M) + 6
<1> DEFINE lo == Least({from, to})
           hi == Greatest({from, to})
           ls == Least({s, t})
           gr == Greatest({s, t})
<1>1. /\ lo \in Int /\ lo <= from /\ lo <= to /\ (lo = from \/ lo = to)
      /\ hi \in Int /\ hi >= from /\ hi >= to /\ (hi = from \/ hi = to)
  BY LeastOf
<1>2. /\ ls \in Int /\ ls <= s /\ ls <= t /\ (ls = s \/ ls = t)
      /\ gr \in Int /\ gr >= s /\ gr >= t /\ (gr = s \/ gr = t)
  BY LeastOf
<1> HIDE DEF lo, hi, ls, gr
<1>3. 6 * from <= s + 6 /\ s <= 6 * from + 6 /\ 6 * to <= t + 6 /\ t <= 6 * to + 6
  BY DEF Near
<1>4. ls < 6 * x /\ 6 * x < gr => lo <= x /\ x <= hi
  BY <1>1, <1>2, <1>3
<1>5. lo <= x /\ x <= hi => ls - 6 <= 6 * x /\ 6 * x <= gr + 6
  BY <1>1, <1>2, <1>3
<1> QED BY <1>1, <1>4, <1>5 DEF lo, hi, ls, gr

-----------------------------------------------------------------------------
(* What a row of a shape meets *)

\* A triangle and a parallelogram, as they are read.
Three == IsTriangle /\ v \in [1 .. 3 -> Vertex]
Four  == /\ ~ IsTriangle /\ v \in [1 .. 4 -> Vertex]
         /\ v[4].y = v[2].y + v[3].y - v[1].y

\* A side cuts a row.
Through(i, j, y, e) == Between(v[i], v[j], y) /\ e \in Cuts(v[i], v[j], y)

LEMMA MeetsOfThree ==
    ASSUME IsTriangle, NEW y, NEW e
    PROVE  e \in Meets(y) <=> Through(1, 2, y, e) \/ Through(2, 3, y, e) \/ Through(1, 3, y, e)
<1>1. Sides = {<<1, 2>>, <<2, 3>>, <<1, 3>>}
  BY DEF Sides
<1>2. e \in Meets(y) <=> \E s \in Sides : Through(s[1], s[2], y, e)
  BY Zenon DEF Meets, Through
<1>3. (\E s \in Sides : Through(s[1], s[2], y, e))
        <=> Through(1, 2, y, e) \/ Through(2, 3, y, e) \/ Through(1, 3, y, e)
  BY <1>1
<1> QED BY <1>2, <1>3

LEMMA MeetsOfFour ==
    ASSUME ~ IsTriangle, NEW y, NEW e
    PROVE  e \in Meets(y) <=> \/ Through(1, 2, y, e) \/ Through(2, 4, y, e)
                              \/ Through(3, 4, y, e) \/ Through(1, 3, y, e)
<1>1. Sides = {<<1, 2>>, <<2, 4>>, <<3, 4>>, <<1, 3>>}
  BY DEF Sides
<1>2. e \in Meets(y) <=> \E s \in Sides : Through(s[1], s[2], y, e)
  BY Zenon DEF Meets, Through
<1>3. (\E s \in Sides : Through(s[1], s[2], y, e))
        <=> \/ Through(1, 2, y, e) \/ Through(2, 4, y, e)
            \/ Through(3, 4, y, e) \/ Through(1, 3, y, e)
  BY <1>1
<1> QED BY <1>2, <1>3

\* Above its second vertex a triangle lies between its long side and its upper
\* one, from there on between the long side and the lower one.
LEMMA TriangleMeets ==
    ASSUME Three, Whole, NEW y \in v[1].y .. v[3].y
    PROVE  /\ y < v[2].y => Meets(y) = {Side(v[1], v[2], y), Side(v[1], v[3], y)}
           /\ y >= v[2].y => Meets(y) = {Side(v[2], v[3], y), Side(v[1], v[3], y)}
           /\ y = v[2].y => Side(v[1], v[2], y) \in Meets(y)
<1> DEFINE a == v[1]
           b == v[2]
           c == v[3]
<1>1. IsVertex(a) /\ IsVertex(b) /\ IsVertex(c) /\ IsTriangle
  BY VertexBytes DEF Three
<1>2. a.y <= b.y /\ b.y <= c.y /\ a.y < c.y
  BY <1>1 DEF Whole, IsSorted
<1>3. a.y \in Int /\ b.y \in Int /\ c.y \in Int
  <2>1. a.y \in Nat /\ b.y \in Nat /\ c.y \in Nat
    BY <1>1, VertexIs
  <2> QED BY <2>1
<1>4. y \in Int /\ a.y <= y /\ y <= c.y
  BY <1>3
<1>5. \A e : e \in Meets(y) <=> Through(1, 2, y, e) \/ Through(2, 3, y, e) \/ Through(1, 3, y, e)
  BY <1>1, MeetsOfThree
<1> HIDE DEF a, b, c
<1>6. /\ Between(a, b, y) <=> y <= b.y
      /\ Between(b, c, y) <=> b.y <= y
      /\ Between(a, c, y)
  BY <1>1, <1>2, <1>3, <1>4, BetweenIs
<1>7. /\ Cuts(a, b, y) = IF a.y = b.y THEN {6 * a.x, 6 * b.x} ELSE {Side(a, b, y)}
      /\ Cuts(b, c, y) = IF b.y = c.y THEN {6 * b.x, 6 * c.x} ELSE {Side(b, c, y)}
      /\ Cuts(a, c, y) = {Side(a, c, y)}
  BY <1>2, <1>3, CutsAre
<1>8. \A e : /\ Through(1, 2, y, e) <=> y <= b.y /\ e \in Cuts(a, b, y)
             /\ Through(2, 3, y, e) <=> b.y <= y /\ e \in Cuts(b, c, y)
             /\ Through(1, 3, y, e) <=> e \in Cuts(a, c, y)
  BY <1>6 DEF Through, a, b, c
<1>9. /\ Side(a, c, a.y) = 6 * a.x /\ Side(a, c, c.y) = 6 * c.x
      /\ Side(b, c, b.y) = 6 * b.x
      /\ a.y # b.y => Side(a, b, b.y) = 6 * b.x
      /\ a.y = b.y => Side(a, b, y) = 6 * a.x
      /\ b.y = c.y => Side(b, c, y) = 6 * b.x
  <2>1. a.y # c.y
    BY <1>2, <1>3
  <2>2. Side(a, c, a.y) = 6 * a.x /\ Side(a, c, c.y) = 6 * c.x
    BY <1>1, <2>1, SideEnds
  <2>3. Side(b, c, b.y) = 6 * b.x /\ (a.y # b.y => Side(a, b, b.y) = 6 * b.x)
    BY <1>1, SideEnds
  <2> QED BY <2>2, <2>3 DEF Side
<1>10. CASE y < b.y
  <2>1. a.y # b.y /\ ~ (b.y <= y) /\ y <= b.y
    BY <1>2, <1>3, <1>4, <1>10
  <2>2. \A e : e \in Meets(y) <=> e = Side(a, b, y) \/ e = Side(a, c, y)
    BY <1>5, <1>7, <1>8, <2>1
  <2>3. Meets(y) = {Side(a, b, y), Side(a, c, y)}
    BY <2>2
  <2> QED BY <1>3, <1>4, <1>10, <2>3 DEF a, b, c
<1>11. CASE y > b.y
  <2>1. b.y # c.y /\ b.y <= y /\ ~ (y <= b.y)
    BY <1>2, <1>3, <1>4, <1>11
  <2>2. \A e : e \in Meets(y) <=> e = Side(b, c, y) \/ e = Side(a, c, y)
    BY <1>5, <1>7, <1>8, <2>1
  <2>3. Meets(y) = {Side(b, c, y), Side(a, c, y)}
    BY <2>2
  <2> QED BY <1>3, <1>4, <1>11, <2>3 DEF a, b, c
<1>12. CASE y = b.y
  <2>1. b.y <= y /\ y <= b.y
    BY <1>3, <1>12
  <2>2. \A e : e \in Meets(y) <=> e \in Cuts(a, b, y) \/ e \in Cuts(b, c, y) \/ e = Side(a, c, y)
    BY <1>5, <1>7, <1>8, <2>1
  <2>3. Side(b, c, y) = 6 * b.x
    BY <1>9, <1>12
  <2>4. CASE a.y = b.y
    <3>1. b.y # c.y
      BY <1>2, <1>3, <2>4
    <3>2. Side(a, c, y) = 6 * a.x /\ Side(a, b, y) = 6 * a.x
      BY <1>9, <1>12, <2>4
    <3>3. \A e : e \in Meets(y) <=> e = Side(b, c, y) \/ e = Side(a, c, y)
      BY <1>7, <2>2, <2>3, <2>4, <3>1, <3>2
    <3>4. Meets(y) = {Side(b, c, y), Side(a, c, y)} /\ Side(a, b, y) \in Meets(y)
      BY <3>2, <3>3
    <3> QED BY <1>3, <1>12, <3>4 DEF a, b, c
  <2>5. CASE a.y # b.y
    <3>1. Side(a, b, y) = 6 * b.x
      BY <1>9, <1>12, <2>5
    <3>2. b.y = c.y => Side(a, c, y) = 6 * c.x
      BY <1>9, <1>12
    <3>3. \A e : e \in Meets(y) <=> e = Side(b, c, y) \/ e = Side(a, c, y)
      BY <1>7, <2>2, <2>3, <2>5, <3>1, <3>2
    <3>4. Meets(y) = {Side(b, c, y), Side(a, c, y)} /\ Side(a, b, y) \in Meets(y)
      BY <2>3, <3>1, <3>3
    <3> QED BY <1>3, <1>12, <3>4 DEF a, b, c
  <2> QED BY <2>4, <2>5
<1> QED BY <1>3, <1>4, <1>10, <1>11, <1>12

\* The lines of a parallelogram whose top and bottom are level.
LEMMA FourLines ==
    ASSUME Four, Whole
    PROVE  /\ Lines(v) = {v[1].y, v[3].y}
           /\ v[2].y = v[1].y /\ v[4].y = v[3].y /\ v[1].y # v[3].y
           /\ \A i \in 1 .. 4 : IsVertex(v[i])
           /\ v[1].y \in Int /\ v[3].y \in Int
<1>1. \A i \in 1 .. 4 : IsVertex(v[i])
  BY VertexBytes DEF Four
<1>2. v[2].y = v[1].y /\ v[1].y # v[3].y
  BY DEF Four, Whole
<1>3. v[1].y \in Bytes /\ v[2].y \in Bytes /\ v[3].y \in Bytes
  BY <1>1 DEF IsVertex
<1>4. v[1].y \in Int /\ v[2].y \in Int /\ v[3].y \in Int
  BY <1>3 DEF Bytes
<1>5. v[4].y = v[3].y
  <2>1. v[4].y = v[2].y + v[3].y - v[1].y
    BY DEF Four
  <2> QED BY <1>2, <1>4, <2>1
<1>6. DOMAIN v = 1 .. 4
  BY DEF Four
<1>7. \A n : n \in Lines(v) <=> n = v[1].y \/ n = v[2].y \/ n = v[3].y \/ n = v[4].y
  BY <1>6 DEF Lines
<1>8. Lines(v) = {v[1].y, v[3].y}
  BY <1>2, <1>5, <1>7
<1> QED BY <1>1, <1>2, <1>4, <1>5, <1>8

\* Between its top and its bottom a parallelogram lies between its two borders.
LEMMA FourMeets ==
    ASSUME Four, Whole, NEW y \in FillRows
    PROVE  /\ Meets(y) = {Side(v[1], v[3], y), Side(v[2], v[4], y)}
           /\ y \in Bytes
           /\ y \in Least({v[1].y, v[3].y}) .. Greatest({v[1].y, v[3].y})
<1> DEFINE a == v[1]
           b == v[2]
           c == v[3]
           d == v[4]
           l == Least({a.y, c.y})
           g == Greatest({a.y, c.y})
<1>1. /\ IsVertex(a) /\ IsVertex(b) /\ IsVertex(c) /\ IsVertex(d) /\ ~ IsTriangle
      /\ b.y = a.y /\ d.y = c.y /\ a.y # c.y /\ Lines(v) = {a.y, c.y}
  BY FourLines DEF Four
<1>2. a.y \in Bytes /\ c.y \in Bytes /\ a.y \in Int /\ c.y \in Int
  BY <1>1 DEF IsVertex, Bytes
<1>3. /\ l \in Int /\ l <= a.y /\ l <= c.y /\ (l = a.y \/ l = c.y)
      /\ g \in Int /\ g >= a.y /\ g >= c.y /\ (g = a.y \/ g = c.y)
  BY <1>2, LeastOf
<1>4. FillRows = l + 1 .. g - 1
  BY <1>1 DEF FillRows
<1>5. \A e : e \in Meets(y) <=> \/ Through(1, 2, y, e) \/ Through(2, 4, y, e)
                                \/ Through(3, 4, y, e) \/ Through(1, 3, y, e)
  BY <1>1, MeetsOfFour
<1> HIDE DEF a, b, c, d, l, g
<1>6. y \in Int /\ l < y /\ y < g
  BY <1>3, <1>4
<1>7. /\ ~ Between(a, b, y) /\ ~ Between(c, d, y)
      /\ Between(a, c, y) /\ Between(b, d, y)
  <2>1. a.y <= b.y /\ c.y <= d.y /\ (a.y <= c.y \/ c.y <= a.y)
    BY <1>1, <1>2
  <2>2. ~ Between(a, b, y)
    <3>1. Between(a, b, y) <=> a.y <= y /\ y <= b.y
      BY <1>1, <1>6, <2>1, BetweenIs
    <3> QED BY <1>1, <1>2, <1>3, <1>6, <3>1
  <2>3. ~ Between(c, d, y)
    <3>1. Between(c, d, y) <=> c.y <= y /\ y <= d.y
      BY <1>1, <1>6, <2>1, BetweenIs
    <3> QED BY <1>1, <1>2, <1>3, <1>6, <3>1
  <2>4. /\ a.y <= c.y => (Between(a, c, y) <=> a.y <= y /\ y <= c.y)
        /\ c.y <= a.y => (Between(a, c, y) <=> c.y <= y /\ y <= a.y)
    BY <1>1, <1>6, BetweenIs
  <2>5. /\ b.y <= d.y => (Between(b, d, y) <=> b.y <= y /\ y <= d.y)
        /\ d.y <= b.y => (Between(b, d, y) <=> d.y <= y /\ y <= b.y)
    BY <1>1, <1>6, BetweenIs
  <2>6. /\ a.y <= c.y => a.y <= y /\ y <= c.y
        /\ c.y <= a.y => c.y <= y /\ y <= a.y
    BY <1>2, <1>3, <1>6
  <2> QED BY <1>1, <2>1, <2>2, <2>3, <2>4, <2>5, <2>6
<1>8. Cuts(a, c, y) = {Side(a, c, y)} /\ Cuts(b, d, y) = {Side(b, d, y)}
  BY <1>1, CutsAre
<1>9. \A e : e \in Meets(y) <=> e = Side(a, c, y) \/ e = Side(b, d, y)
  BY <1>5, <1>7, <1>8 DEF Through, a, b, c, d
<1>10. Meets(y) = {Side(a, c, y), Side(b, d, y)}
  BY <1>9
<1>11. y \in Bytes /\ y \in l .. g
  <2>1. a.y \in 0 .. 255 /\ c.y \in 0 .. 255
    BY <1>2 DEF Bytes
  <2>2. 0 <= y /\ y <= 255 /\ l <= y /\ y <= g
    BY <1>3, <1>6, <2>1
  <2> QED BY <1>3, <1>6, <2>2 DEF Bytes
<1> QED BY <1>10, <1>11 DEF a, b, c, d, l, g

-----------------------------------------------------------------------------
(* The pixels that are filled *)

\* Row y is filled between what it meets, and nothing is filled elsewhere.
CoveredIn(F, y) == \A x \in Columns :
    Least(Meets(y)) < 6 * x /\ 6 * x < Greatest(Meets(y)) => <<x, y>> \in F

InsideIn(F) == \A p \in F :
    /\ p[2] \in FillRows
    /\ Least(Meets(p[2])) - 6 <= 6 * p[1] /\ 6 * p[1] <= Greatest(Meets(p[2])) + 6

LEMMA RowFilled ==
    ASSUME NEW from \in Bytes, NEW to \in Bytes, row \in Bytes, NEW next,
           FillRow(from, to, next)
    PROVE  \/ stage' = "aborted"
           \/ /\ stage' = next
              /\ \A p : p \in filled' <=>
                          \/ p \in filled
                          \/ \E x \in Least({from, to}) .. Greatest({from, to}) : p = <<x, row>>
<1> DEFINE lo == Least({from, to})
           hi == Greatest({from, to})
<1>1. from \in 0 .. 255 /\ to \in 0 .. 255 /\ row \in 0 .. 255
  BY DEF Bytes
<1>2. /\ lo \in Int /\ lo <= from /\ lo <= to /\ (lo = from \/ lo = to)
      /\ hi \in Int /\ hi >= from /\ hi >= to /\ (hi = from \/ hi = to)
  <2>1. from \in Int /\ to \in Int
    BY <1>1
  <2> QED BY <2>1, LeastOf
<1>3. CASE ~ \A x \in lo .. hi : OnScreen(x, row)
  BY <1>3, Zenon DEF FillRow
<1>4. CASE \A x \in lo .. hi : OnScreen(x, row)
  <2>1. filled' = filled \cup {<<x % 256, row % 256>> : x \in lo .. hi} /\ stage' = next
    BY <1>4, Zenon DEF FillRow
  <2> HIDE DEF lo, hi
  <2>2. row % 256 = row /\ \A x \in lo .. hi : x % 256 = x
    BY <1>1, <1>2
  <2>3. {<<x % 256, row % 256>> : x \in lo .. hi} = {<<x, row>> : x \in lo .. hi}
    BY <2>2
  <2> QED BY <2>1, <2>3 DEF lo, hi
<1> QED BY <1>3, <1>4

\* A row that is filled from near one side to near another.
LEMMA RowAdded ==
    ASSUME NEW from \in Bytes, NEW to \in Bytes, row \in Bytes, row \in FillRows, NEW next,
           NEW a \in Int, NEW b \in Int, Meets(row) = {a, b},
           NEW s \in Meets(row), NEW t \in Meets(row), Near(from, s), Near(to, t),
           FillRow(from, to, next), InsideIn(filled)
    PROVE  \/ stage' = "aborted"
           \/ /\ stage' = next
              /\ InsideIn(filled')
              /\ \A y : CoveredIn(filled, y) => CoveredIn(filled', y)
              /\ Meets(row) = {s, t} => CoveredIn(filled', row)
<1> DEFINE span == Least({from, to}) .. Greatest({from, to})
<1>1. from \in Int /\ to \in Int
  BY DEF Bytes
<1>2. s \in Int /\ t \in Int /\ (s = a \/ s = b) /\ (t = a \/ t = b)
  OBVIOUS
<1>3. \A x \in Int :
        /\ Least({s, t}) < 6 * x /\ 6 * x < Greatest({s, t}) => x \in span
        /\ x \in span => Least({s, t}) - 6 <= 6 * x /\ 6 * x <= Greatest({s, t}) + 6
  BY <1>1, <1>2, RowBetween
<1>4. /\ Least({s, t}) \in Int /\ Least(Meets(row)) \in Int
      /\ Greatest({s, t}) \in Int /\ Greatest(Meets(row)) \in Int
      /\ Least(Meets(row)) <= Least({s, t}) /\ Greatest({s, t}) <= Greatest(Meets(row))
  <2> DEFINE A == Least({a, b})
             B == Greatest({a, b})
             S == Least({s, t})
             T == Greatest({s, t})
  <2>1. A \in Int /\ A <= a /\ A <= b /\ B \in Int /\ B >= a /\ B >= b
    BY LeastOf
  <2>2. S \in Int /\ (S = s \/ S = t) /\ T \in Int /\ (T = s \/ T = t)
    BY <1>2, LeastOf
  <2> HIDE DEF A, B, S, T
  <2>3. A <= S /\ T <= B
    BY <1>2, <2>1, <2>2
  <2> QED BY <2>1, <2>2, <2>3 DEF A, B, S, T
<1>5. span \in SUBSET Int
  OBVIOUS
<1> HIDE DEF span
<1>6. CASE stage' = "aborted"
  BY <1>6
<1>7. CASE stage' # "aborted"
  <2>1. /\ stage' = next
        /\ \A p : p \in filled' <=> p \in filled \/ \E x \in span : p = <<x, row>>
    BY <1>7, RowFilled DEF span
  <2>2. ASSUME NEW x \in span
        PROVE  /\ <<x, row>>[2] \in FillRows
               /\ Least(Meets(<<x, row>>[2])) - 6 <= 6 * <<x, row>>[1]
               /\ 6 * <<x, row>>[1] <= Greatest(Meets(<<x, row>>[2])) + 6
    <3>1. x \in Int
      BY <1>5
    <3>2. Least({s, t}) - 6 <= 6 * x /\ 6 * x <= Greatest({s, t}) + 6
      BY <1>3, <3>1
    <3>3. Least(Meets(row)) - 6 <= 6 * x /\ 6 * x <= Greatest(Meets(row)) + 6
      BY <1>4, <3>1, <3>2
    <3>4. <<x, row>>[2] = row /\ <<x, row>>[1] = x
      OBVIOUS
    <3> QED BY <3>3, <3>4
  <2>3. InsideIn(filled')
    BY <2>1, <2>2, Zenon DEF InsideIn
  <2>4. \A y : CoveredIn(filled, y) => CoveredIn(filled', y)
    BY <2>1, Zenon DEF CoveredIn
  <2>5. ASSUME Meets(row) = {s, t} PROVE CoveredIn(filled', row)
    <3>1. ASSUME NEW x \in Columns,
                 Least(Meets(row)) < 6 * x, 6 * x < Greatest(Meets(row))
          PROVE  <<x, row>> \in filled'
      <4>1. x \in Int
        BY ShapesAssumption
      <4>2. x \in span
        BY <1>3, <2>5, <3>1, <4>1
      <4> QED BY <2>1, <4>2
    <3> QED BY <3>1 DEF CoveredIn
  <2> QED BY <2>1, <2>3, <2>4, <2>5
<1> QED BY <1>6, <1>7

-----------------------------------------------------------------------------
(* The drawing *)

\* The rows that must be complete, by the stage of the drawing.
Complete(y) ==
    \/ stage = "upper" /\ y < row /\ y < v[2].y
    \/ stage \in {"lower", "inside"} /\ y < row
    \/ stage \in {"outline", "drawn"}

\* What is filled so far is right, and the next row is the one after it.
FilledSoFar ==
    /\ InsideIn(filled)
    /\ stage = "upper" => row \in v[1].y .. v[2].y + 1
    /\ stage = "lower" => row \in v[2].y .. v[3].y + 1
    /\ stage = "inside" => row \in Int /\ row > Least(Lines(v))
    /\ \A y \in FillRows : Complete(y) => CoveredIn(filled, y)

\* A parallelogram is outlined before it is filled, a triangle after that.
ShapeInvariant ==
    \/ /\ Three
       /\ stage \in {"sort", "upper", "lower", "outline", "drawn", "aborted"}
       /\ stage = "sort" => filled = {}
       /\ Whole /\ stage \notin {"sort", "aborted"} => FilledSoFar
    \/ /\ Four
       /\ stage \in {"outline", "inside", "drawn", "aborted"}
       /\ stage = "outline" => filled = {}
       /\ Whole /\ stage \in {"inside", "drawn"} => FilledSoFar

LEMMA ShapeStarts == ShapeInit => ShapeInvariant
<1> SUFFICES ASSUME ShapeInit PROVE ShapeInvariant
  OBVIOUS
<1>1. CASE v \in [1 .. 3 -> Vertex] /\ stage = "sort"
  <2>1. IsTriangle
    BY <1>1, LenProperties, SeqDef DEF IsTriangle
  <2> QED BY <1>1, <2>1 DEF ShapeInit, ShapeInvariant, Three
<1>2. ASSUME NEW tl \in Vertex, NEW tr \in Vertex, NEW bl \in Vertex, NEW br \in Vertex,
             br.y = tr.y + bl.y - tl.y, v = <<tl, tr, bl, br>>, stage = "outline"
      PROVE  ShapeInvariant
  <2>1. v \in [1 .. 4 -> Vertex] /\ ~ IsTriangle
    BY <1>2 DEF IsTriangle
  <2>2. v[4].y = v[2].y + v[3].y - v[1].y
    BY <1>2
  <2> QED BY <1>2, <2>1, <2>2 DEF ShapeInit, ShapeInvariant, Four
<1>3. CASE /\ \E tl, tr, bl \in Vertex :
                LET br == [x |-> tr.x + bl.x - tl.x, y |-> tr.y + bl.y - tl.y]
                IN br \in Vertex /\ v = <<tl, tr, bl, br>>
           /\ stage = "outline"
  BY <1>2, <1>3
<1> QED BY <1>1, <1>3 DEF ShapeInit

\* The shape is the same while it is drawn.
LEMMA SameShape ==
    ASSUME v' = v
    PROVE  /\ Whole' <=> Whole
           /\ Three' <=> Three
           /\ Four' <=> Four
           /\ FillRows' = FillRows
           /\ InsideIn(filled)' <=> InsideIn(filled')
           /\ \A y : CoveredIn(filled, y)' <=> CoveredIn(filled', y)
<1>1. IsTriangle' <=> IsTriangle
  BY DEF IsTriangle
<1>2. Sides' = Sides
  BY <1>1 DEF Sides
<1>3. FillRows' = FillRows
  BY <1>1 DEF FillRows, Lines
<1>4. Whole' <=> Whole
  BY <1>1 DEF Whole, IsSorted
<1>5. Three' <=> Three
  BY <1>1 DEF Three
<1>6. Four' <=> Four
  BY <1>1 DEF Four
<1>7. ASSUME NEW y PROVE Meets(y)' = Meets(y)
  <2>1. Meets(y)' = UNION {Cuts(v'[s[1]], v'[s[2]], y)
                             : s \in {t \in Sides' : Between(v'[t[1]], v'[t[2]], y)}}
    BY Zenon DEF Meets
  <2>2. @ = UNION {Cuts(v[s[1]], v[s[2]], y)
                     : s \in {t \in Sides : Between(v[t[1]], v[t[2]], y)}}
    BY <1>2, Zenon
  <2>3. @ = Meets(y)
    BY Zenon DEF Meets
  <2> QED BY <2>1, <2>2, <2>3
<1>8. InsideIn(filled)' <=> InsideIn(filled')
  BY <1>3, <1>7, Zenon DEF InsideIn
<1>9. ASSUME NEW y PROVE CoveredIn(filled, y)' <=> CoveredIn(filled', y)
  BY <1>7, Zenon DEF CoveredIn
<1> QED BY <1>3, <1>4, <1>5, <1>6, <1>8, <1>9

LEMMA SortStep ==
    ASSUME ShapeInvariant, Sort
    PROVE  ShapeInvariant'
<1>1. Three /\ filled = {}
  BY DEF ShapeInvariant, Sort
<1>2. v' \in [1 .. 3 -> Vertex]
  <2>1. ASSUME NEW w \in [1 .. 3 -> Vertex], NEW i \in 1 .. 3, NEW j \in 1 .. 3
        PROVE  SwapIfBelow(w, i, j) \in [1 .. 3 -> Vertex]
    <3>1. [w EXCEPT ![i] = w[j], ![j] = w[i]] \in [1 .. 3 -> Vertex]
      OBVIOUS
    <3> QED BY <3>1 DEF SwapIfBelow
  <2>2. 1 \in 1 .. 3 /\ 2 \in 1 .. 3 /\ 3 \in 1 .. 3
    OBVIOUS
  <2>3. SwapIfBelow(v, 1, 2) \in [1 .. 3 -> Vertex]
    BY <1>1, <2>1, <2>2 DEF Three
  <2>4. SwapIfBelow(SwapIfBelow(v, 1, 2), 2, 3) \in [1 .. 3 -> Vertex]
    BY <2>1, <2>2, <2>3
  <2>5. SwapIfBelow(SwapIfBelow(SwapIfBelow(v, 1, 2), 2, 3), 1, 3) \in [1 .. 3 -> Vertex]
    BY <2>1, <2>2, <2>4
  <2> QED BY <2>5 DEF Sort
<1>3. IsTriangle'
  BY <1>2, LenProperties, SeqDef DEF IsTriangle
<1>4. row' = v'[1].y /\ stage' = "upper" /\ filled' = {}
  BY <1>1 DEF Sort
<1>5. ASSUME Whole' PROVE FilledSoFar'
  <2>1. v'[1].y <= v'[2].y /\ v'[1].y \in Int /\ v'[2].y \in Int /\ v'[3].y \in Int
    <3>1. v'[1] \in Vertex /\ v'[2] \in Vertex /\ v'[3] \in Vertex
      BY <1>2
    <3>2. v'[1].y \in Bytes /\ v'[2].y \in Bytes /\ v'[3].y \in Bytes
      BY <3>1, VertexBytes DEF IsVertex
    <3>3. v'[1].y <= v'[2].y
      BY <1>3, <1>5 DEF Whole, IsSorted
    <3> QED BY <3>2, <3>3 DEF Bytes
  <2>2. row' \in v'[1].y .. v'[2].y + 1
    BY <1>4, <2>1
  <2>3. InsideIn(filled)'
    BY <1>4 DEF InsideIn
  <2>4. \A y \in FillRows' : ~ Complete(y)'
    <3>1. FillRows' = v'[1].y .. v'[3].y
      BY <1>3 DEF FillRows
    <3>2. \A y \in FillRows' : ~ (y < row')
      BY <1>4, <2>1, <3>1
    <3> QED BY <1>4, <3>2 DEF Complete
  <2> QED BY <1>4, <2>2, <2>3, <2>4 DEF FilledSoFar
<1> QED BY <1>2, <1>3, <1>4, <1>5 DEF ShapeInvariant, Three

LEMMA ThreeBytes ==
    ASSUME Three
    PROVE  /\ IsVertex(v[1]) /\ IsVertex(v[2]) /\ IsVertex(v[3])
           /\ v[1].y \in Nat /\ v[2].y \in Nat /\ v[3].y \in Nat
           /\ v[1].y <= 255 /\ v[2].y <= 255 /\ v[3].y <= 255
           /\ FillRows = v[1].y .. v[3].y
           /\ Whole => v[1].y <= v[2].y /\ v[2].y <= v[3].y /\ v[1].y < v[3].y
<1>1. IsVertex(v[1]) /\ IsVertex(v[2]) /\ IsVertex(v[3])
  BY VertexBytes DEF Three
<1>2. /\ v[1].y \in Nat /\ v[2].y \in Nat /\ v[3].y \in Nat
      /\ v[1].y <= 255 /\ v[2].y <= 255 /\ v[3].y <= 255
  BY <1>1, VertexIs
<1>3. FillRows = v[1].y .. v[3].y
  BY DEF Three, FillRows
<1>4. Whole => v[1].y <= v[2].y /\ v[2].y <= v[3].y /\ v[1].y < v[3].y
  BY DEF Three, Whole, IsSorted
<1> QED BY <1>1, <1>2, <1>3, <1>4

\* One row of a triangle, between the long side and another one that it meets.
LEMMA TriangleRow ==
    ASSUME Three, Whole, row \in v[1].y .. v[3].y, InsideIn(filled), NEW next,
           NEW i \in 1 .. 2, row \in v[i].y .. v[i + 1].y, v[i].y <= v[i + 1].y,
           Side(v[i], v[i + 1], row) \in Meets(row),
           NEW from \in Reached(v[i].x, v[i + 1].x - v[i].x, v[i + 1].y - v[i].y, row - v[i].y),
           NEW to \in Reached(v[1].x, v[3].x - v[1].x, v[3].y - v[1].y, row - v[1].y),
           FillRow(from, to, next)
    PROVE  \/ stage' = "aborted"
           \/ /\ stage' = next
              /\ InsideIn(filled')
              /\ \A y : CoveredIn(filled, y) => CoveredIn(filled', y)
              /\ Meets(row) = {Side(v[i], v[i + 1], row), Side(v[1], v[3], row)}
                   => CoveredIn(filled', row)
<1> DEFINE s == Side(v[i], v[i + 1], row)
           t == Side(v[1], v[3], row)
           u == Side(v[2], v[3], row)
           w == Side(v[1], v[2], row)
<1>1. /\ v[1].y \in Nat /\ v[2].y \in Nat /\ v[3].y \in Nat
      /\ v[1].y <= 255 /\ v[2].y <= 255 /\ v[3].y <= 255
      /\ v[1].y <= v[2].y /\ v[2].y <= v[3].y /\ v[1].y < v[3].y
      /\ FillRows = v[1].y .. v[3].y
      /\ IsVertex(v[1]) /\ IsVertex(v[2]) /\ IsVertex(v[3])
  BY ThreeBytes
<1>2. /\ row \in Nat /\ v[1].y <= row /\ row <= v[3].y /\ row \in Bytes /\ row \in FillRows
  BY <1>1 DEF Bytes
<1>3. i = 1 \/ i = 2
  OBVIOUS
<1>4. IsVertex(v[i]) /\ IsVertex(v[i + 1])
  <2>1. CASE i = 1
    <3>1. i + 1 = 2
      BY <2>1
    <3> QED BY <1>1, <2>1, <3>1
  <2>2. CASE i = 2
    <3>1. i + 1 = 3
      BY <2>2
    <3> QED BY <1>1, <2>2, <3>1
  <2> QED BY <1>3, <2>1, <2>2
<1>5. from \in Bytes /\ s \in Int /\ Near(from, s)
  BY <1>4, SideNear
<1>6. to \in Bytes /\ t \in Int /\ Near(to, t)
  <2>1. v[1].y <= v[3].y
    BY <1>1
  <2> QED BY <1>1, <2>1, SideNear
<1>7. /\ row < v[2].y => Meets(row) = {w, t}
      /\ row >= v[2].y => Meets(row) = {u, t}
  BY TriangleMeets
<1>8. t \in Meets(row)
  <2>1. row < v[2].y \/ row >= v[2].y
    BY <1>1, <1>2
  <2> QED BY <1>7, <2>1
<1>9. \E a, b \in Int : Meets(row) = {a, b}
  <2>1. CASE row < v[2].y
    <3>1. i = 1
      <4>1. i = 2 => v[i].y <= row
        BY <1>1, <1>2
      <4> QED BY <1>1, <1>2, <1>3, <2>1, <4>1
    <3>2. i + 1 = 2
      BY <3>1
    <3>3. w = s
      BY <3>1, <3>2
    <3> QED BY <1>5, <1>6, <1>7, <2>1, <3>3
  <2>2. CASE row = v[2].y
    <3>1. row >= v[2].y
      BY <1>1, <2>2
    <3>2. u = 6 * v[2].x
      BY <1>1, <2>2, SideEnds
    <3>3. u \in Int
      <4>1. v[2].x \in Nat
        BY <1>1, VertexIs
      <4> QED BY <3>2, <4>1
    <3> QED BY <1>6, <1>7, <3>1, <3>3
  <2>3. CASE row > v[2].y
    <3>1. i = 2
      <4>1. i = 1 => i + 1 = 2
        OBVIOUS
      <4>2. i = 1 => row <= v[2].y
        BY <1>1, <1>2, <4>1
      <4> QED BY <1>1, <1>2, <1>3, <2>3, <4>2
    <3>2. i + 1 = 3
      BY <3>1
    <3>3. u = s
      BY <3>1, <3>2
    <3>4. row >= v[2].y
      BY <1>1, <1>2, <2>3
    <3> QED BY <1>5, <1>6, <1>7, <3>3, <3>4
  <2>4. row < v[2].y \/ row = v[2].y \/ row > v[2].y
    BY <1>1, <1>2
  <2> QED BY <2>1, <2>2, <2>3, <2>4
<1> HIDE DEF s, t, u, w
<1>10. PICK a \in Int, b \in Int : Meets(row) = {a, b}
  BY <1>9
<1>11. s \in Meets(row)
  BY DEF s
<1> QED BY <1>2, <1>5, <1>6, <1>8, <1>10, <1>11, RowAdded DEF s, t

LEMMA UpperRowStep ==
    ASSUME ShapeInvariant, UpperRow
    PROVE  ShapeInvariant'
<1>1. Three /\ (Whole => FilledSoFar) /\ stage = "upper" /\ v' = v
  BY DEF ShapeInvariant, UpperRow
<1>2. /\ Whole' <=> Whole
      /\ Three' <=> Three
      /\ FillRows' = FillRows
      /\ InsideIn(filled)' <=> InsideIn(filled')
      /\ \A y : CoveredIn(filled, y)' <=> CoveredIn(filled', y)
  BY <1>1, SameShape
<1>3. /\ v[1].y \in Nat /\ v[2].y \in Nat /\ v[3].y \in Nat
      /\ FillRows = v[1].y .. v[3].y
      /\ Whole => v[1].y <= v[2].y /\ v[2].y <= v[3].y /\ v[1].y < v[3].y
  BY <1>1, ThreeBytes
<1>4. CASE row > v[2].y
  <2>1. row' = v[2].y /\ stage' = "lower" /\ filled' = filled
    BY <1>4 DEF UpperRow
  <2>2. ASSUME Whole PROVE FilledSoFar'
    <3>1. InsideIn(filled') /\ row \in v[1].y .. v[2].y + 1
      BY <1>1, <2>1, <2>2 DEF FilledSoFar
    <3>2. row' \in v'[2].y .. v'[3].y + 1
      BY <1>1, <1>3, <2>1, <2>2
    <3>3. ASSUME NEW y \in FillRows, Complete(y)' PROVE CoveredIn(filled', y)
      <4>1. y < row' /\ y \in Int
        BY <1>3, <2>1, <3>3 DEF Complete
      <4>2. Complete(y)
        BY <1>1, <1>3, <1>4, <2>1, <3>1, <4>1 DEF Complete
      <4> QED BY <1>1, <2>1, <2>2, <4>2 DEF FilledSoFar
    <3> QED BY <1>2, <2>1, <3>1, <3>2, <3>3 DEF FilledSoFar
  <2> QED BY <1>1, <1>2, <2>1, <2>2 DEF ShapeInvariant
<1>5. CASE ~ (row > v[2].y)
  <2>1. PICK from \in Reached(v[1].x, v[2].x - v[1].x, v[2].y - v[1].y, row - v[1].y),
             to   \in Reached(v[1].x, v[3].x - v[1].x, v[3].y - v[1].y, row - v[1].y) :
          FillRow(from, to, "upper")
    BY <1>5 DEF UpperRow
  <2>2. row' = row + 1
    BY <1>5 DEF UpperRow
  <2>3. stage' \in {"upper", "aborted"}
    BY <2>1 DEF FillRow
  <2>4. ASSUME Whole, stage' = "upper" PROVE FilledSoFar'
    <3>1. row \in v[1].y .. v[2].y + 1 /\ InsideIn(filled)
      BY <1>1, <2>4 DEF FilledSoFar
    <3>2. row \in Nat /\ v[1].y <= row /\ row <= v[2].y /\ row \in v[1].y .. v[3].y
      BY <1>3, <1>5, <2>4, <3>1
    <3>3. /\ row < v[2].y => Meets(row) = {Side(v[1], v[2], row), Side(v[1], v[3], row)}
          /\ row = v[2].y => Side(v[1], v[2], row) \in Meets(row)
      BY <1>1, <2>4, <3>2, TriangleMeets
    <3>4. Side(v[1], v[2], row) \in Meets(row)
      BY <1>3, <3>2, <3>3
    <3>5. /\ InsideIn(filled')
          /\ \A y : CoveredIn(filled, y) => CoveredIn(filled', y)
          /\ Meets(row) = {Side(v[1], v[2], row), Side(v[1], v[3], row)} => CoveredIn(filled', row)
      <4>1. 1 \in 1 .. 2 /\ 1 + 1 = 2
        OBVIOUS
      <4>2. row \in v[1].y .. v[2].y /\ v[1].y <= v[2].y
        BY <1>3, <2>4, <3>2
      <4>3. stage' # "aborted"
        BY <2>4
      <4> DEFINE i == 1
      <4>4. /\ i \in 1 .. 2 /\ i = 1 /\ i + 1 = 2
        BY <4>1
      <4> HIDE DEF i
      <4>5. /\ row \in v[i].y .. v[i + 1].y /\ v[i].y <= v[i + 1].y
            /\ Side(v[i], v[i + 1], row) \in Meets(row)
            /\ from \in Reached(v[i].x, v[i + 1].x - v[i].x, v[i + 1].y - v[i].y, row - v[i].y)
        BY <2>1, <3>4, <4>2, <4>4
      <4>6. /\ InsideIn(filled')
            /\ \A y : CoveredIn(filled, y) => CoveredIn(filled', y)
            /\ Meets(row) = {Side(v[i], v[i + 1], row), Side(v[1], v[3], row)}
                 => CoveredIn(filled', row)
        BY <1>1, <2>1, <2>4, <3>1, <3>2, <4>3, <4>4, <4>5, TriangleRow
      <4> QED BY <4>4, <4>6
    <3>6. ASSUME NEW y \in FillRows, Complete(y)' PROVE CoveredIn(filled', y)
      <4>1. y \in Int /\ y < row + 1 /\ y < v[2].y
        BY <1>1, <1>3, <2>2, <2>4, <3>6 DEF Complete
      <4>2. CASE y = row
        BY <3>3, <3>5, <4>1, <4>2
      <4>3. CASE y # row
        <5>1. y < row
          BY <3>2, <4>1, <4>3
        <5>2. Complete(y)
          BY <1>1, <4>1, <5>1 DEF Complete
        <5>3. CoveredIn(filled, y)
          BY <1>1, <2>4, <5>2 DEF FilledSoFar
        <5> QED BY <3>5, <5>3
      <4> QED BY <4>2, <4>3
    <3>7. row' \in v'[1].y .. v'[2].y + 1
      BY <1>1, <1>3, <2>2, <3>2
    <3> QED BY <1>2, <2>4, <3>5, <3>6, <3>7 DEF FilledSoFar
  <2> QED BY <1>1, <1>2, <2>3, <2>4 DEF ShapeInvariant
<1> QED BY <1>4, <1>5

LEMMA LowerRowStep ==
    ASSUME ShapeInvariant, LowerRow
    PROVE  ShapeInvariant'
<1>1. Three /\ (Whole => FilledSoFar) /\ stage = "lower" /\ v' = v
  BY DEF ShapeInvariant, LowerRow
<1>2. /\ Whole' <=> Whole
      /\ Three' <=> Three
      /\ FillRows' = FillRows
      /\ InsideIn(filled)' <=> InsideIn(filled')
      /\ \A y : CoveredIn(filled, y)' <=> CoveredIn(filled', y)
  BY <1>1, SameShape
<1>3. /\ v[1].y \in Nat /\ v[2].y \in Nat /\ v[3].y \in Nat
      /\ FillRows = v[1].y .. v[3].y
      /\ Whole => v[1].y <= v[2].y /\ v[2].y <= v[3].y /\ v[1].y < v[3].y
  BY <1>1, ThreeBytes
<1>4. CASE row > v[3].y
  <2>1. stage' = "outline" /\ filled' = filled /\ row' = row
    BY <1>4 DEF LowerRow
  <2>2. ASSUME Whole PROVE FilledSoFar'
    <3>1. InsideIn(filled') /\ row \in v[2].y .. v[3].y + 1
      BY <1>1, <2>1, <2>2 DEF FilledSoFar
    <3>2. ASSUME NEW y \in FillRows PROVE CoveredIn(filled', y)
      <4>1. y < row
        BY <1>3, <1>4, <3>1
      <4>2. Complete(y)
        BY <1>1, <4>1 DEF Complete
      <4> QED BY <1>1, <2>1, <2>2, <4>2 DEF FilledSoFar
    <3> QED BY <1>2, <2>1, <3>1, <3>2 DEF FilledSoFar
  <2> QED BY <1>1, <1>2, <2>1, <2>2 DEF ShapeInvariant
<1>5. CASE ~ (row > v[3].y)
  <2>1. PICK from \in Reached(v[2].x, v[3].x - v[2].x, v[3].y - v[2].y, row - v[2].y),
             to   \in Reached(v[1].x, v[3].x - v[1].x, v[3].y - v[1].y, row - v[1].y) :
          FillRow(from, to, "lower")
    BY <1>5 DEF LowerRow
  <2>2. row' = row + 1
    BY <1>5 DEF LowerRow
  <2>3. stage' \in {"lower", "aborted"}
    BY <2>1 DEF FillRow
  <2>4. ASSUME Whole, stage' = "lower" PROVE FilledSoFar'
    <3>1. row \in v[2].y .. v[3].y + 1 /\ InsideIn(filled)
      BY <1>1, <2>4 DEF FilledSoFar
    <3>2. /\ row \in Nat /\ v[2].y <= row /\ row <= v[3].y
          /\ row \in v[1].y .. v[3].y /\ row \in v[2].y .. v[3].y
      BY <1>3, <1>5, <2>4, <3>1
    <3>3. Meets(row) = {Side(v[2], v[3], row), Side(v[1], v[3], row)}
      <4>1. row >= v[2].y
        BY <1>3, <3>2
      <4> QED BY <1>1, <2>4, <3>2, <4>1, TriangleMeets
    <3>4. /\ InsideIn(filled')
          /\ \A y : CoveredIn(filled, y) => CoveredIn(filled', y)
          /\ CoveredIn(filled', row)
      <4> DEFINE i == 2
      <4>1. i \in 1 .. 2 /\ i = 2 /\ i + 1 = 3
        OBVIOUS
      <4> HIDE DEF i
      <4>2. stage' # "aborted" /\ v[2].y <= v[3].y
        BY <1>3, <2>4
      <4>3. /\ row \in v[i].y .. v[i + 1].y /\ v[i].y <= v[i + 1].y
            /\ Side(v[i], v[i + 1], row) \in Meets(row)
            /\ from \in Reached(v[i].x, v[i + 1].x - v[i].x, v[i + 1].y - v[i].y, row - v[i].y)
        BY <2>1, <3>2, <3>3, <4>1, <4>2
      <4>4. /\ InsideIn(filled')
            /\ \A y : CoveredIn(filled, y) => CoveredIn(filled', y)
            /\ Meets(row) = {Side(v[i], v[i + 1], row), Side(v[1], v[3], row)}
                 => CoveredIn(filled', row)
        BY <1>1, <2>1, <2>4, <3>1, <3>2, <4>1, <4>2, <4>3, TriangleRow
      <4> QED BY <3>3, <4>1, <4>4
    <3>5. ASSUME NEW y \in FillRows, Complete(y)' PROVE CoveredIn(filled', y)
      <4>1. y \in Int /\ y < row + 1
        BY <1>3, <2>2, <2>4, <3>5 DEF Complete
      <4>2. CASE y = row
        BY <3>4, <4>2
      <4>3. CASE y # row
        <5>1. y < row
          BY <3>2, <4>1, <4>3
        <5>2. Complete(y)
          BY <1>1, <5>1 DEF Complete
        <5>3. CoveredIn(filled, y)
          BY <1>1, <2>4, <5>2 DEF FilledSoFar
        <5> QED BY <3>4, <5>3
      <4> QED BY <4>2, <4>3
    <3>6. row' \in v'[2].y .. v'[3].y + 1
      BY <1>1, <1>3, <2>2, <3>2
    <3> QED BY <1>2, <2>4, <3>4, <3>5, <3>6 DEF FilledSoFar
  <2> QED BY <1>1, <1>2, <2>3, <2>4 DEF ShapeInvariant
<1> QED BY <1>4, <1>5

LEMMA OutlineStep ==
    ASSUME ShapeInvariant, Outline
    PROVE  ShapeInvariant'
<1>1. v' = v /\ filled' = filled /\ stage = "outline"
  BY DEF Outline
<1>2. /\ Whole' <=> Whole
      /\ Three' <=> Three
      /\ Four' <=> Four
      /\ FillRows' = FillRows
      /\ InsideIn(filled)' <=> InsideIn(filled')
      /\ \A y : CoveredIn(filled, y)' <=> CoveredIn(filled', y)
  BY <1>1, SameShape
<1>3. CASE Three
  <2>1. stage' \in {"drawn", "aborted"}
    BY <1>3 DEF Outline, Three
  <2>2. Whole => FilledSoFar
    BY <1>1, <1>3 DEF ShapeInvariant, Three, Four
  <2>3. ASSUME Whole, stage' = "drawn" PROVE FilledSoFar'
    <3>1. InsideIn(filled') /\ \A y \in FillRows : CoveredIn(filled', y)
      BY <1>1, <2>2, <2>3 DEF FilledSoFar, Complete
    <3> QED BY <1>2, <2>3, <3>1 DEF FilledSoFar
  <2> QED BY <1>2, <1>3, <2>1, <2>3 DEF ShapeInvariant
<1>4. CASE Four
  <2>1. stage' \in {"inside", "aborted"} /\ row' = Least(Lines(v)) + 1 /\ filled = {}
    BY <1>1, <1>4 DEF Outline, Three, Four, ShapeInvariant
  <2>2. ASSUME Whole, stage' = "inside" PROVE FilledSoFar'
    <3>1. /\ Lines(v) = {v[1].y, v[3].y} /\ v[1].y \in Int /\ v[3].y \in Int
      BY <1>4, <2>2, FourLines
    <3>2. Least(Lines(v)) \in Int
      BY <3>1, LeastOf
    <3>3. InsideIn(filled')
      BY <1>1, <2>1 DEF InsideIn
    <3>4. ~ IsTriangle
      BY <1>4 DEF Four
    <3>5. ASSUME NEW y \in FillRows, Complete(y)' PROVE FALSE
      <4>1. y < row'
        BY <2>2, <3>5 DEF Complete
      <4>2. y \in Least(Lines(v)) + 1 .. Greatest(Lines(v)) - 1
        BY <3>4 DEF FillRows
      <4>3. Greatest(Lines(v)) \in Int
        BY <3>1, LeastOf
      <4> QED BY <2>1, <3>2, <4>1, <4>2, <4>3
    <3>6. row' \in Int /\ row' > Least(Lines(v'))
      BY <1>1, <2>1, <3>2
    <3> QED BY <1>2, <2>2, <3>3, <3>5, <3>6 DEF FilledSoFar
  <2> QED BY <1>2, <1>4, <2>1, <2>2 DEF ShapeInvariant
<1> QED BY <1>3, <1>4 DEF ShapeInvariant

\* One border of a parallelogram.
LEMMA BorderRow ==
    ASSUME NEW a, NEW b, IsVertex(a), IsVertex(b), a.y # b.y, row \in Int,
           row \in Least({a.y, b.y}) .. Greatest({a.y, b.y})
    PROVE  /\ Border(a, b) \in Bytes
           /\ Side(a, b, row) \in Int
           /\ Near(Border(a, b), Side(a, b, row))
<1>1. /\ 255 \in Nat /\ a.x \in 0 .. 255 /\ b.x \in 0 .. 255
      /\ a.y \in Int /\ b.y \in Int
  BY DEF IsVertex, Bytes
<1>2. Side(a, b, row) = Sixths(a.x, b.x, Magnitude(b.y - a.y), Magnitude(row - a.y))
  BY DEF Side
<1>3. Border(a, b) \in 0 .. 255
      /\ Sixths(a.x, b.x, Magnitude(b.y - a.y), Magnitude(row - a.y)) \in Int
      /\ Near(Border(a, b), Sixths(a.x, b.x, Magnitude(b.y - a.y), Magnitude(row - a.y)))
  BY <1>1, BorderNear, ZenonT(60)
<1> QED BY <1>2, <1>3 DEF Bytes

LEMMA InsideRowStep ==
    ASSUME ShapeInvariant, InsideRow
    PROVE  ShapeInvariant'
<1>1. Four /\ (Whole => FilledSoFar) /\ stage = "inside" /\ v' = v
  BY DEF ShapeInvariant, InsideRow
<1>2. /\ Whole' <=> Whole
      /\ Four' <=> Four
      /\ FillRows' = FillRows
      /\ InsideIn(filled)' <=> InsideIn(filled')
      /\ \A y : CoveredIn(filled, y)' <=> CoveredIn(filled', y)
  BY <1>1, SameShape
<1>3. Whole => /\ Lines(v) = {v[1].y, v[3].y}
               /\ v[2].y = v[1].y /\ v[4].y = v[3].y /\ v[1].y # v[3].y
               /\ \A i \in 1 .. 4 : IsVertex(v[i])
               /\ v[1].y \in Int /\ v[3].y \in Int
  BY <1>1, FourLines
<1>4. Whole => FillRows = Least(Lines(v)) + 1 .. Greatest(Lines(v)) - 1
               /\ Least(Lines(v)) \in Int /\ Greatest(Lines(v)) \in Int
  BY <1>1, <1>3, LeastOf DEF FillRows, Four
<1>5. CASE row >= Greatest(Lines(v))
  <2>1. stage' = "drawn" /\ row' = row /\ filled' = filled
    BY <1>5 DEF InsideRow
  <2>2. ASSUME Whole PROVE FilledSoFar'
    <3>1. InsideIn(filled') /\ row \in Int
      BY <1>1, <2>1, <2>2 DEF FilledSoFar
    <3>2. ASSUME NEW y \in FillRows PROVE CoveredIn(filled', y)
      <4>1. y < row
        BY <1>4, <1>5, <2>2, <3>1
      <4>2. Complete(y)
        BY <1>1, <4>1 DEF Complete
      <4> QED BY <1>1, <2>1, <2>2, <4>2 DEF FilledSoFar
    <3> QED BY <1>2, <2>1, <3>1, <3>2 DEF FilledSoFar
  <2> QED BY <1>1, <1>2, <2>1, <2>2 DEF ShapeInvariant
<1>6. CASE ~ (row >= Greatest(Lines(v))) /\ (v[1].y = v[3].y \/ v[2].y = v[4].y)
  <2>1. stage' = "aborted"
    BY <1>6 DEF InsideRow
  <2> QED BY <1>1, <1>2, <2>1 DEF ShapeInvariant
<1>7. CASE ~ (row >= Greatest(Lines(v))) /\ ~ (v[1].y = v[3].y \/ v[2].y = v[4].y)
  <2> DEFINE from == Border(v[1], v[3])
             to == Border(v[2], v[4])
             s == Side(v[1], v[3], row)
             t == Side(v[2], v[4], row)
  <2>1. FillRow(from, to, "inside") /\ row' = row + 1
    BY <1>7 DEF InsideRow
  <2>2. stage' \in {"inside", "aborted"}
    BY <2>1 DEF FillRow
  <2>3. ASSUME Whole, stage' = "inside" PROVE FilledSoFar'
    <3>1. row \in Int /\ row > Least(Lines(v)) /\ InsideIn(filled)
      BY <1>1, <2>3 DEF FilledSoFar
    <3>2. row \in FillRows
      BY <1>4, <1>7, <2>3, <3>1
    <3>3. /\ Meets(row) = {s, t} /\ row \in Bytes
          /\ row \in Least({v[1].y, v[3].y}) .. Greatest({v[1].y, v[3].y})
      BY <1>1, <2>3, <3>2, FourMeets
    <3>4. from \in Bytes /\ s \in Int /\ Near(from, s)
      BY <1>3, <1>7, <2>3, <3>1, <3>3, BorderRow
    <3>5. to \in Bytes /\ t \in Int /\ Near(to, t)
      <4>1. row \in Least({v[2].y, v[4].y}) .. Greatest({v[2].y, v[4].y})
        BY <1>3, <2>3, <3>3
      <4> QED BY <1>3, <1>7, <2>3, <3>1, <4>1, BorderRow
    <3> HIDE DEF from, to, s, t
    <3>6. /\ InsideIn(filled')
          /\ \A y : CoveredIn(filled, y) => CoveredIn(filled', y)
          /\ CoveredIn(filled', row)
      <4>1. stage' # "aborted"
        BY <2>3
      <4>2. s \in Meets(row) /\ t \in Meets(row)
        BY <3>3
      <4> QED BY <2>1, <3>1, <3>2, <3>3, <3>4, <3>5, <4>1, <4>2, RowAdded
    <3>7. ASSUME NEW y \in FillRows, Complete(y)' PROVE CoveredIn(filled', y)
      <4>1. y \in Int /\ y < row + 1
        BY <1>4, <2>1, <2>3, <3>7 DEF Complete
      <4>2. CASE y = row
        BY <3>6, <4>2
      <4>3. CASE y # row
        <5>1. y < row
          BY <3>1, <4>1, <4>3
        <5>2. Complete(y)
          BY <1>1, <5>1 DEF Complete
        <5>3. CoveredIn(filled, y)
          BY <1>1, <2>3, <5>2 DEF FilledSoFar
        <5> QED BY <3>6, <5>3
      <4> QED BY <4>2, <4>3
    <3>8. row' \in Int /\ row' > Least(Lines(v'))
      BY <1>1, <1>4, <2>1, <2>3, <3>1
    <3> QED BY <1>2, <2>3, <3>6, <3>7, <3>8 DEF FilledSoFar
  <2> QED BY <1>1, <1>2, <2>2, <2>3 DEF ShapeInvariant
<1> QED BY <1>5, <1>6, <1>7

\* A shape that is drawn covers every pixel between its sides and none that is
\* more than one away from them (draw_triangle and draw_parallelogram).
THEOREM FillsInsideHolds == ShapeSpec => []FillsInside
<1>1. ShapeInit => ShapeInvariant
  BY ShapeStarts
<1>2. ShapeInvariant /\ [ShapeNext]_shapeVars => ShapeInvariant'
  <2> SUFFICES ASSUME ShapeInvariant, [ShapeNext]_shapeVars PROVE ShapeInvariant'
    OBVIOUS
  <2>1. CASE Sort
    BY <2>1, SortStep
  <2>2. CASE UpperRow
    BY <2>2, UpperRowStep
  <2>3. CASE LowerRow
    BY <2>3, LowerRowStep
  <2>4. CASE Outline
    BY <2>4, OutlineStep
  <2>5. CASE InsideRow
    BY <2>5, InsideRowStep
  <2>6. CASE UNCHANGED shapeVars
    <3>1. v' = v /\ row' = row /\ stage' = stage /\ filled' = filled
      BY <2>6 DEF shapeVars
    <3>2. /\ Whole' <=> Whole
          /\ Three' <=> Three
          /\ Four' <=> Four
          /\ FillRows' = FillRows
          /\ InsideIn(filled)' <=> InsideIn(filled')
          /\ \A y : CoveredIn(filled, y)' <=> CoveredIn(filled', y)
      BY <3>1, SameShape
    <3>3. FilledSoFar => FilledSoFar'
      BY <3>1, <3>2 DEF FilledSoFar, Complete
    <3> QED BY <3>1, <3>2, <3>3 DEF ShapeInvariant
  <2> QED BY <2>1, <2>2, <2>3, <2>4, <2>5, <2>6 DEF ShapeNext
<1>3. ShapeInvariant => FillsInside
  <2> SUFFICES ASSUME ShapeInvariant, stage = "drawn", Whole PROVE FillsInside
    BY DEF FillsInside
  <2>1. InsideIn(filled) /\ \A y \in FillRows : CoveredIn(filled, y)
    BY DEF ShapeInvariant, FilledSoFar, Complete
  <2> QED BY <2>1, Zenon DEF FillsInside, InsideIn, CoveredIn
<1> QED BY <1>1, <1>2, <1>3, PTL DEF ShapeSpec

=============================================================================
