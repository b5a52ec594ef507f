---------------------------- MODULE MCFontBitmap ----------------------------
(* Fonts of width 9 (two bytes a row, seven padding bits) and 3 by 2     *)
(* (two rows of one byte, five padding bits); ranges of one and two      *)
(* characters, the one-character range being rejected by main().        *)
EXTENDS FontBitmap

MCSizes == {<<9, 1>>, <<3, 2>>}

=============================================================================
