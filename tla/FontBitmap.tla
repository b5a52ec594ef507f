------------------------------ MODULE FontBitmap ------------------------------
(***************************************************************************)
(* The fixed-font converter, extras/fonts/tools/create_font.py: main()     *)
(* draws every character from --first to --last into a 1-bit image and     *)
(* gen_char() packs each pixel row into bytes, most significant bit first, *)
(* with an ASCII picture of the row beside it.  The loops of gen_char are  *)
(* kept step by step (one step per pixel), and the whole is checked to     *)
(* implement FontTable, where the bitmap format is stated directly.        *)
(*                                                                         *)
(* The PIL font, the drawing and the jinja2 rendering are left out: a      *)
(* drawn glyph is any 1-bit image of the font's size (im.convert('1')      *)
(* gives the pixel values 0 and 255).                                      *)
(***************************************************************************)
EXTENDS Integers, Sequences, Bitwise

CONSTANTS
  Sizes,    \* the possible fnt.getsize('A'): pairs <<width, height>>
  Firsts,   \* the values of --first that are tried
  Lasts     \* the values of --last that are tried

VARIABLES
  size,     \* <<w, h>> of the font
  first, last,
  pc,       \* "check", "draw", "row", "byte", "bit", "done", "error"
  idx,      \* main's loop index: the glyph being converted
  data,     \* tuple(im.getdata()) of the current glyph
  row, b, i, byte,   \* the three loops of gen_char and the byte in work
  rdata, rasc,       \* r['data'] and r['asc'] of the current row
  rows,     \* res['rows'] of the current glyph
  chars     \* main's chars: one record per converted glyph

vars == <<size, first, last, pc, idx, data, row, b, i, byte, rdata, rasc,
          rows, chars>>

W == size[1]
H == size[2]

\* bw = (im.size[0] + 7) // 8
Bw == (W + 7) \div 8

\* The images of the font's size, pixel k at data[k].
Images == [0 .. W * H - 1 -> {0, 255}]

\* 'offset': bw * im.size[1] * index
GlyphOffset(index) == Bw * H * index

FontTypeOK ==
  /\ size \in Sizes
  /\ pc \in {"check", "draw", "row", "byte", "bit", "done", "error"}
  /\ row \in 0 .. H /\ b \in 0 .. Bw /\ i \in 0 .. 8
  /\ rdata \in Seq(0 .. 255)
  /\ rasc \in Seq({"#", "."})
  /\ \A r \in 1 .. Len(rows) : rows[r].data \in Seq(0 .. 255)
  /\ \A k \in 1 .. Len(chars) : chars[k].nbytes \in Nat

FontInit ==
  /\ size \in Sizes /\ first \in Firsts /\ last \in Lasts
  /\ pc = "check"
  /\ idx = 0 /\ data = <<>>
  /\ row = 0 /\ b = 0 /\ i = 0 /\ byte = 0
  /\ rdata = <<>> /\ rasc = <<>> /\ rows = <<>> /\ chars = <<>>

\* if args.last - args.first < 1: raise ValueError(...)
CheckRange ==
  /\ pc = "check"
  /\ pc' = IF last - first < 1 THEN "error" ELSE "draw"
  /\ UNCHANGED <<size, first, last, idx, data, row, b, i, byte, rdata, rasc,
                 rows, chars>>

\* for idx in range(last - first + 1): the glyph chr(idx + first) is drawn
\* and gen_char starts on it.
DrawGlyph ==
  /\ pc = "draw"
  /\ idx < last - first + 1
  /\ data' \in Images
  /\ rows' = <<>> /\ row' = 0
  /\ pc' = "row"
  /\ UNCHANGED <<size, first, last, idx, b, i, byte, rdata, rasc, chars>>

\* The loop is over and the template is rendered.
Render ==
  /\ pc = "draw"
  /\ idx = last - first + 1
  /\ pc' = "done"
  /\ UNCHANGED <<size, first, last, idx, data, row, b, i, byte, rdata, rasc,
                 rows, chars>>

\* for row in range(im.size[1]): r = {'data': [], 'asc': []}
RowStart ==
  /\ pc = "row"
  /\ row < H
  /\ rdata' = <<>> /\ rasc' = <<>> /\ b' = 0
  /\ pc' = "byte"
  /\ UNCHANGED <<size, first, last, idx, data, row, i, byte, rows, chars>>

\* return res; chars.append(...): the glyph's size in bytes is kept.
GlyphDone ==
  /\ pc = "row"
  /\ row = H
  /\ chars' = Append(chars, [index |-> idx, code |-> idx + first,
                              offset |-> GlyphOffset(idx),
                              nbytes |-> Len(rows) * Bw])
  /\ idx' = idx + 1
  /\ pc' = "draw"
  /\ UNCHANGED <<size, first, last, data, row, b, i, byte, rdata, rasc, rows>>

\* for b in range(bw): byte = 0
ByteStart ==
  /\ pc = "byte"
  /\ b < Bw
  /\ byte' = 0 /\ i' = 0
  /\ pc' = "bit"
  /\ UNCHANGED <<size, first, last, idx, data, row, b, rdata, rasc, rows,
                 chars>>

\* r['asc'] = ''.join(r['asc']); res['rows'].append(r)
RowEnd ==
  /\ pc = "byte"
  /\ b = Bw
  /\ rows' = Append(rows, [data |-> rdata, asc |-> rasc])
  /\ row' = row + 1
  /\ pc' = "row"
  /\ UNCHANGED <<size, first, last, idx, data, b, i, byte, rdata, rasc, chars>>

\* Bug variant: the shift done before the bit is or-ed in.
BitStepShiftFirst ==
  /\ pc = "bit"
  /\ i < 8
  /\ LET x   == b * 8 + i
         bit == IF x < W THEN data[row * W + x] ELSE 0
     IN /\ byte' = IF bit # 0 THEN (2 * byte) | 1 ELSE 2 * byte
        /\ rasc' = Append(rasc, IF bit # 0 THEN "#" ELSE ".")
  /\ i' = i + 1
  /\ UNCHANGED <<size, first, last, pc, idx, data, row, b, rdata, rows, chars>>

\* One pixel: bit = data[row * w + idx] if idx < w else 0; if bit:
\* byte |= 1 and '#', else '.'; then byte <<= 1.
BitStep ==
  /\ pc = "bit"
  /\ i < 8
  /\ LET x   == b * 8 + i
         bit == IF x < W THEN data[row * W + x] ELSE 0
     IN /\ byte' = 2 * (IF bit # 0 THEN byte | 1 ELSE byte)
        /\ rasc' = Append(rasc, IF bit # 0 THEN "#" ELSE ".")
  /\ i' = i + 1
  /\ UNCHANGED <<size, first, last, pc, idx, data, row, b, rdata, rows, chars>>

\* Bug variant: the last shift not undone.
ByteEndNoShift ==
  /\ pc = "bit"
  /\ i = 8
  /\ rdata' = Append(rdata, byte)
  /\ b' = b + 1
  /\ pc' = "byte"
  /\ UNCHANGED <<size, first, last, idx, data, row, i, byte, rasc, rows, chars>>

\* r['data'].append(byte >> 1)
ByteEnd ==
  /\ pc = "bit"
  /\ i = 8
  /\ rdata' = Append(rdata, shiftR(byte, 1))
  /\ b' = b + 1
  /\ pc' = "byte"
  /\ UNCHANGED <<size, first, last, idx, data, row, i, byte, rasc, rows, chars>>

FontNext ==
  \/ CheckRange \/ DrawGlyph \/ Render \/ GlyphDone
  \/ RowStart \/ RowEnd \/ ByteStart \/ ByteEnd \/ BitStep

FontSpec == FontInit /\ [][FontNext]_vars

(***************************************************************************)
(* Refinement: the converter implements FontTable, where a glyph becomes   *)
(* its bitmap in one step.  The drawn image is the abstract one while      *)
(* gen_char works on it, its bitmap exists once the last row is appended,  *)
(* and chars is the glyph table.                                           *)
(***************************************************************************)
Table == INSTANCE FontTable WITH
  phase <- CASE pc = "check" -> "check"
             [] pc = "error" -> "error"
             [] pc = "done"  -> "done"
             [] OTHER        -> "convert",
  image <- IF pc \in {"row", "byte", "bit"} THEN data ELSE <<>>,
  out   <- IF pc = "row" /\ row = H THEN rows ELSE <<>>,
  table <- chars

(***************************************************************************)
(* Properties                                                              *)
(***************************************************************************)

\* The converter does what FontTable promises: each glyph's packed rows are
\* its bitmap (the shift-and-or loop sets the right bits, pads with zeros
\* and draws the same picture), the glyphs are entered in order of their
\* codes, and each 'offset' is where the bytes of the glyphs before it end,
\* whatever --first is.
FontTableRefined == Table!TableSpec

====
