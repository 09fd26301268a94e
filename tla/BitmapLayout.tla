---------------------------- MODULE BitmapLayout ----------------------------
(***************************************************************************)
(* The arithmetic of worker/XCaptureScreen.cpp: what part of the screen is *)
(* captured, and where in a block of memory the parts of a BMP file lie.   *)
(* A rectangle is [l, t, r, b] with r and b outside, as a RECT is.         *)
(***************************************************************************)
EXTENDS Integers

\* sizeof BITMAPFILEHEADER, BITMAPINFOHEADER and RGBQUAD.
FileHeader == 14
InfoHeader == 40
Quad == 4

------------------------------------------------------------------------------
(* CaptureScreenToBitmap.                                                  *)

Rects == [l : Int, t : Int, r : Int, b : Int]
Screen(x, y) == [l |-> 0, t |-> 0, r |-> x, b |-> y]
IsEmpty(q) == q.l >= q.r \/ q.t >= q.b

\* What is captured of a screen of x by y pixels when q is asked for: all of it for
\* an empty rectangle, as for none.
Region(q, x, y) ==
  IF IsEmpty(q) THEN Screen(x, y)
  ELSE [l |-> IF q.l < 0 THEN 0 ELSE q.l, t |-> IF q.t < 0 THEN 0 ELSE q.t,
        r |-> IF q.r > x THEN x ELSE q.r, b |-> IF q.b > y THEN y ELSE q.b]

------------------------------------------------------------------------------
(* SaveBitmapToStream and SaveBitmapToFile.                                *)

\* The bits of a pixel in the file, for a screen of so many.
BitCount(iBits) ==
  CASE iBits <= 1                -> 1
    [] iBits > 1  /\ iBits <= 4  -> 4
    [] iBits > 4  /\ iBits <= 8  -> 8
    [] iBits > 8  /\ iBits <= 24 -> 24
    [] iBits > 24                -> 32

\* The colours of the palette: 1 << wBitCount of them.
Colours(bits) == CASE bits = 1 -> 2 [] bits = 4 -> 16 [] bits = 8 -> 256 [] OTHER -> 0
PaletteSize(bits) == Colours(bits) * Quad

\* A row of pixels, filled up to a multiple of four bytes.
RowBytes(w, bits) == ((w * bits + 31) \div 32) * 4
BitsSize(w, h, bits) == RowBytes(w, bits) * h

\* The block that SaveBitmapToStream allocates, and where it puts the pixels.
StreamBlock(w, h, bits) ==
  BitsSize(w, h, bits) + PaletteSize(bits) + InfoHeader + FileHeader
StreamBitsAt(bits) == InfoHeader + PaletteSize(bits) + FileHeader

\* The block that SaveBitmapToFile allocates, and where it puts the pixels: the file
\* header is not in it, but is written to the file before it.
FileBlock(w, h, bits) == BitsSize(w, h, bits) + PaletteSize(bits) + InfoHeader
FileBitsAt(bits) == InfoHeader + PaletteSize(bits)

\* bfOffBits and bfSize, which tell a reader of the file where the pixels are and
\* where they end.
OffBits(bits) == InfoHeader + FileHeader + PaletteSize(bits)
FileSize(w, h, bits) ==
  FileHeader + InfoHeader + PaletteSize(bits) + BitsSize(w, h, bits)

------------------------------------------------------------------------------
(* What the arithmetic is for.                                             *)

\* The pixels that are both asked for and on the screen, the reference definition of
\* Region.
Inside(px, py, q) == q.l <= px /\ px < q.r /\ q.t <= py /\ py < q.b
IsVisiblePart(q, x, y, Pixels) ==
  \A px, py \in Pixels :
    Inside(px, py, Region(q, x, y))
      <=> Inside(px, py, Screen(x, y)) /\ (IsEmpty(q) \/ Inside(px, py, q))

\* A row of a BMP file starts at a multiple of four bytes, holds its pixels, and has
\* less than four bytes more than these need.
IsRow(bytes, w, bits) ==
  /\ bytes % 4 = 0
  /\ 8 * bytes >= w * bits
  /\ 8 * bytes < w * bits + 32

\* A reader of the file finds the pixels where they were put, and the file ends
\* where its header says: in the stream, and in the file.
IsLaidOut(w, h, bits) ==
  /\ OffBits(bits) = StreamBitsAt(bits)
  /\ StreamBitsAt(bits) + BitsSize(w, h, bits) = StreamBlock(w, h, bits)
  /\ FileSize(w, h, bits) = StreamBlock(w, h, bits)
  /\ OffBits(bits) = FileHeader + FileBitsAt(bits)
  /\ FileSize(w, h, bits) = FileHeader + FileBlock(w, h, bits)
==============================================================================
