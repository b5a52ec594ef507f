------------------------------ MODULE FontTable ------------------------------
(***************************************************************************)
(* What the fixed-font converter promises, with the loops taken away:      *)
(* for a range of at least two characters, every character is drawn and    *)
(* converted in one step into its bitmap (rows of bytes, most significant  *)
(* bit first, zero padded, with an ASCII picture), and the glyph table     *)
(* records the glyphs in order, each at the offset where the bytes of the  *)
(* glyphs before it end.  FontBitmap, the converter step by step, is       *)
(* checked to implement this specification.                                *)
(***************************************************************************)
EXTENDS Integers, Sequences

CONSTANTS Sizes, Firsts, Lasts

VARIABLES
  size, first, last,
  phase,   \* "check", "convert", "done", "error"
  image,   \* the glyph drawn and not yet entered, <<>> if none
  out,     \* its bitmap once converted, <<>> before
  table    \* the glyphs entered: index, code, offset and size in bytes

avars == <<size, first, last, phase, image, out, table>>

W == size[1]
H == size[2]
RowBytes == (W + 7) \div 8
Images == [0 .. W * H - 1 -> {0, 255}]

(***************************************************************************)
(* The bitmap format: pixel x of a row is bit 7 - x % 8 of byte x \div 8,   *)
(* the bits past the width are 0, and the picture shows '#' for a set      *)
(* pixel and '.' for a clear or padding one.                               *)
(***************************************************************************)
Pixel(d, r, x) == x < W /\ d[r * W + x] # 0

RECURSIVE PackMSB(_)
PackMSB(bits) ==
  IF bits = <<>> THEN 0 ELSE Head(bits) * 2^(Len(bits) - 1) + PackMSB(Tail(bits))

RefByte(d, r, k) ==
  PackMSB([j \in 1 .. 8 |-> IF Pixel(d, r, 8 * k + j - 1) THEN 1 ELSE 0])

RefRow(d, r) ==
  [data |-> [k \in 1 .. RowBytes |-> RefByte(d, r, k - 1)],
   asc  |-> [x \in 1 .. 8 * RowBytes |-> IF Pixel(d, r, x - 1) THEN "#" ELSE "."]]

Bitmap(d) == [r \in 1 .. H |-> RefRow(d, r - 1)]

\* Where the next glyph starts: the bytes of the glyphs entered so far.
RECURSIVE BytesOf(_)
BytesOf(t) == IF t = <<>> THEN 0 ELSE Head(t).nbytes + BytesOf(Tail(t))

Count == last - first + 1

TableInit ==
  /\ size \in Sizes /\ first \in Firsts /\ last \in Lasts
  /\ phase = "check"
  /\ image = <<>> /\ out = <<>> /\ table = <<>>

\* A range of fewer than two characters is refused.
Reject ==
  /\ phase = "check" /\ Count < 2
  /\ phase' = "error"
  /\ UNCHANGED <<size, first, last, image, out, table>>

Accept ==
  /\ phase = "check" /\ Count >= 2
  /\ phase' = "convert"
  /\ UNCHANGED <<size, first, last, image, out, table>>

\* The next character is drawn: any image of the font's size.
Draw ==
  /\ phase = "convert" /\ image = <<>> /\ Len(table) < Count
  /\ image' \in Images
  /\ UNCHANGED <<size, first, last, phase, out, table>>

\* The drawn glyph becomes its bitmap, at once.
Convert ==
  /\ phase = "convert" /\ image # <<>> /\ out = <<>>
  /\ out' = Bitmap(image)
  /\ UNCHANGED <<size, first, last, phase, image, table>>

\* The glyph is entered in the table after the others.
Enter ==
  /\ phase = "convert" /\ out # <<>>
  /\ table' = Append(table, [index  |-> Len(table),
                             code   |-> first + Len(table),
                             offset |-> BytesOf(table),
                             nbytes |-> H * RowBytes])
  /\ image' = <<>> /\ out' = <<>>
  /\ UNCHANGED <<size, first, last, phase>>

Finish ==
  /\ phase = "convert" /\ image = <<>> /\ Len(table) = Count
  /\ phase' = "done"
  /\ UNCHANGED <<size, first, last, image, out, table>>

TableNext == Reject \/ Accept \/ Draw \/ Convert \/ Enter \/ Finish

TableSpec == TableInit /\ [][TableNext]_avars

====
