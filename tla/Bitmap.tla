------------------------------- MODULE Bitmap -------------------------------
(***************************************************************************)
(* get_bitmap_data, which the driver and the widget Bitmap each have a     *)
(* copy of: the pixels of a BMP file as the grey bytes the display takes.  *)
(* A file stores its rows from the bottom up, or from the top down when    *)
(* its height is negative, and pads each to a multiple of four bytes.      *)
(*                                                                         *)
(* Files have one byte per pixel; for another depth the code would index   *)
(* its palette by bytes all the same.                                      *)
(***************************************************************************)
EXTENDS Integers, Sequences

CONSTANTS Widths, Heights  \* bound: sizes of pictures

ASSUME BitmapAssumption == Widths \subseteq Nat \ {0} /\ Heights \subseteq Nat \ {0}

VARIABLES
    bmp,     \* the file: its width, height, and the size of its raw data or 0
    buffer,  \* its raw data, as far as it was read
    pxIndex, \* the next byte of it
    line,    \* rows still to be copied, less one: heightUpSizeDown
    data,    \* the grey bytes, row by row from the top
    reading  \* "file", "rows", "done" or "thrown"

bitmapVars == <<bmp, buffer, pxIndex, line, data, reading>>

-----------------------------------------------------------------------------
Absolute(n) == IF n < 0 THEN -n ELSE n
Padded(w)   == IF w % 4 = 0 THEN w ELSE w + (4 - (w % 4))

\* The palette entry of a pixel; no two pixels of a picture share theirs.
Entry(x, y) == 4 * (bmp.width * y + x + 1)

\* The raw data as the format defines it: external.
RawData ==
    LET w == Padded(bmp.width)  h == Absolute(bmp.height)
    IN [k \in 1 .. w * h |->
          LET col == (k - 1) % w  r == (k - 1) \div w
          IN IF col >= bmp.width THEN 0
             ELSE Entry(col, IF bmp.height > 0 THEN h - 1 - r ELSE r)]

\* Byte j of a palette of greys, each three times its number and a 0: external.
PaletteByte(j) == IF j < 0 \/ j % 4 = 3 THEN 0 ELSE j \div 4

\* The palette is read from one byte before its place, so that red is the last
\* byte of the entry before.
Shade(i) == (2989 * PaletteByte(4 * i - 1) + 5870 * PaletteByte(4 * i)
             + 1140 * PaletteByte(4 * i + 1)) \div 10000

BitmapInit ==
    /\ \E w \in Widths, h \in Heights, told \in BOOLEAN :
         \E height \in {h, -h} :
            bmp = [width |-> w, height |-> height, size |-> IF told THEN Padded(w) * h ELSE 0]
    /\ buffer = << >> /\ pxIndex = 0 /\ line = 0 /\ data = << >>
    /\ reading = "file"

\* A file that is missing gives no data, one that is cut short an exception; a
\* raw size of 0 is made up for.
ReadBitmap ==
    /\ reading = "file"
    /\ LET rawSize == IF bmp.size = 0 THEN Absolute(Padded(bmp.width) * bmp.height)
                      ELSE bmp.size
       IN \/ /\ buffer' = SubSeq(RawData, 1, rawSize)
             /\ data' = [i \in 1 .. Absolute(bmp.width * bmp.height) |-> 0]
             /\ line' = Absolute(bmp.height) - 1
             /\ reading' = "rows"
          \/ reading' \in {"done", "thrown"} /\ UNCHANGED <<buffer, data, line>>
    /\ UNCHANGED <<bmp, pxIndex>>

\* The pixels of a scanline go to row generic of the data.
Copied(generic) ==
    [i \in DOMAIN data |->
        LET w == i - 1 - bmp.width * generic
        IN IF w \in 0 .. bmp.width - 1 THEN Shade(buffer[pxIndex + w + 1]) ELSE data[i]]

\* Mutant: the padding is not skipped.
CopyRowUnpadded ==
    /\ reading = "rows"
    /\ data' = Copied(IF bmp.height < 0 THEN Absolute(line + 1 + bmp.height) ELSE line)
    /\ pxIndex' = pxIndex + bmp.width
    /\ line' = line - 1
    /\ reading' = IF line = 0 THEN "done" ELSE "rows"
    /\ UNCHANGED <<bmp, buffer>>

CopyRow ==
    /\ reading = "rows"
    /\ data' = Copied(IF bmp.height < 0 THEN Absolute(line + 1 + bmp.height) ELSE line)
    /\ pxIndex' = pxIndex + Padded(bmp.width)
    /\ line' = line - 1
    /\ reading' = IF line = 0 THEN "done" ELSE "rows"
    /\ UNCHANGED <<bmp, buffer>>

BitmapNext == ReadBitmap \/ CopyRow

BitmapSpec == BitmapInit /\ [][BitmapNext]_bitmapVars

-----------------------------------------------------------------------------
\* Whatever the order of the rows and the padding, the data has every pixel of
\* the picture at its place, upright, and the raw data is used up to its last
\* byte and no further (cfa835.cpp:120-143).
PictureIsUpright ==
    reading = "done" /\ data # << >> =>
        /\ pxIndex = Len(buffer)
        /\ \A x \in 0 .. bmp.width - 1, y \in 0 .. Absolute(bmp.height) - 1 :
              data[bmp.width * y + x + 1] = Shade(Entry(x, y))

=============================================================================
