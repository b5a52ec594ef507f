---------------------------- MODULE MCFilterOutput ----------------------------
(* Device lines for the filter: an exception address as the SDK prints it, *)
(* the same with an upper-case prefix, a bare address, a word of letters   *)
(* that are no hex digits, two addresses back to back, and a line with no  *)
(* address.                                                                *)
EXTENDS FilterOutput

LineHex   == <<"e", "p", "c", "0", "x", "4", "0", "2", "a", "0", "0", "1", "2">>
LineUpper == <<"0", "X", "4", "0", "2", "A", "0", "0", "1", "2">>
LineBare  == <<"4", "0", "1", "0", "0", "0", "f", "f">>
LineWord  == <<"4", "0", "g", "x", "z", "0", "0", "0">>
LineTwo   == <<"4", "0", "2", "0", "0", "0", "0", "0",
               "4", "0", "2", "0", "0", "0", "0", "1">>
LineNone  == <<"4", "0", "1", "2", " ", "0", "x">>

MCLines == {LineHex, LineUpper, LineBare, LineWord, LineTwo, LineNone}

=============================================================================
