\* Every glyph image of two font sizes; --first 1 or 2, --last 2.
\* The program ends (pc "done" or "error"): a state without successor is its exit.
CONSTANTS
  Sizes <- MCSizes
  Firsts = {1, 2}
  Lasts = {2}

SPECIFICATION FontSpec

INVARIANTS
  FontTypeOK

PROPERTY
  FontTableRefined


CHECK_DEADLOCK FALSE
