-------------------------------- MODULE Embed --------------------------------
(***************************************************************************)
(* wifi_config/tools/embed.py: gen_embedded() turns an HTML template into  *)
(* C source, one `const char *name = "..." "...";` per `<!-- part name -->` *)
(* header.  The template tags are dropped ({% ... %}) or become %s         *)
(* ({{ ... }}), each non-blank line of a part becomes a C string literal   *)
(* with its double quotes escaped, and main() prints what gen_embedded     *)
(* returns.                                                                *)
(*                                                                         *)
(* The file is a sequence of tokens: a character ("a", "n", "q" for the    *)
(* double quote, "bs" for the backslash, "sp" for a space, "nl" for the    *)
(* end of a line, "%" and "s"), a template tag on one line ("var" for      *)
(* {{ ... }}, "stmt" for {% ... %}) or a part header (its name).           *)
(***************************************************************************)
EXTENDS Integers, Sequences, SequencesExt

CONSTANTS
  Names,       \* the part names that occur in headers
  LowerName,   \* LowerName[n]: n.lower()
  MaxLen,      \* bound on the length of the file, in tokens
  None

Chars  == {"a", "n", "q", "bs", "sp", "nl"}
Tokens == Chars \cup {"var", "stmt"} \cup Names

VARIABLES
  pc,        \* "sub", "loop", "noparts", "print", "exited"
  content,   \* gen_embedded's content
  headers,   \* part_headers: the positions of the headers in content
  k,         \* the pair (part_headers[k], part_headers[k+1]) of the loop
  result,    \* the declarations built so far
  stdout,    \* what main() printed
  exitCode

vars == <<pc, content, headers, k, result, stdout, exitCode>>

\* re.sub(r'{{.*?}}', '%s', re.sub(r'{%.*?%}', '', content))
Substitute(s) ==
  FlattenSeq([j \in 1 .. Len(s) |->
                IF s[j] = "stmt" THEN <<>>
                ELSE IF s[j] = "var" THEN <<"%", "s">> ELSE <<s[j]>>])

\* re.finditer(r'<!-- part (\S+) -->', content), as positions
HeaderPositions(s) == SetToSortSeq({j \in 1 .. Len(s) : s[j] \in Names}, <)

\* part.split("\n")
RECURSIVE SplitLines(_)
SplitLines(s) ==
  LET nl == SelectInSeq(s, LAMBDA t : t = "nl")
  IN IF nl = 0 THEN <<s>>
     ELSE <<SubSeq(s, 1, nl - 1)>> \o SplitLines(SubSeq(s, nl + 1, Len(s)))

\* line.strip() is empty
Blank(line) == \A j \in 1 .. Len(line) : line[j] = "sp"

\* "\"" + line.replace('"', '\\"') + "\""
Literal(line) ==
  <<"q">> \o FlattenSeq([j \in 1 .. Len(line) |->
                           IF line[j] = "q" THEN <<"bs", "q">> ELSE <<line[j]>>])
          \o <<"q">>

NonBlankLines(part) == SelectSeq(SplitLines(part), LAMBDA l : ~Blank(l))

\* process_part: the literals of the non-blank lines
ProcessPart(part) ==
  LET ls == NonBlankLines(part) IN [j \in 1 .. Len(ls) |-> Literal(ls[j])]

\* Bug variant: the name kept as written in the header.
DeclNoLower(name, part) == [name |-> name, lits |-> ProcessPart(part)]

\* "const char *%s = \n%s;" % (p.group(1).lower(), process_part(...))
Decl(name, part) == [name |-> LowerName[name], lits |-> ProcessPart(part)]

EmbedTypeOK ==
  /\ pc \in {"sub", "loop", "noparts", "print", "exited"}
  /\ content \in Seq(Tokens \cup {"%", "s"})
  /\ \A j \in 1 .. Len(result) :
       /\ result[j].name \in {LowerName[n] : n \in Names}
       /\ result[j].lits \in Seq(Seq(Chars \cup {"%", "s"}))
  /\ exitCode \in {None, 0}

EmbedInit ==
  /\ pc = "sub"
  /\ content \in BoundedSeq(Tokens, MaxLen)
  /\ headers = <<>> /\ k = 1 /\ result = <<>>
  /\ stdout = <<>> /\ exitCode = None

\* The substitutions and the search for headers; without any header,
\* gen_embedded prints an error and returns None.
FindParts ==
  /\ pc = "sub"
  /\ content' = Substitute(content)
  /\ headers' = HeaderPositions(content')
  /\ pc' = IF headers' = <<>> THEN "noparts" ELSE "loop"
  /\ UNCHANGED <<k, result, stdout, exitCode>>

\* print 'Error: no parts found'; return -- and main() prints None.
NoParts ==
  /\ pc = "noparts"
  /\ stdout' = <<"Error: no parts found", None>>
  /\ exitCode' = 0
  /\ pc' = "exited"
  /\ UNCHANGED <<content, headers, k, result>>

\* Bug variant: the part cut at the end of the next header.
PairStepThroughNext ==
  /\ pc = "loop"
  /\ k < Len(headers)
  /\ result' = Append(result, Decl(content[headers[k]],
                          SubSeq(content, headers[k] + 1, headers[k + 1])))
  /\ k' = k + 1
  /\ UNCHANGED <<pc, content, headers, stdout, exitCode>>

\* for p1, p2 in zip(part_headers, part_headers[1:]):
\*   result += ... content[p1.end():p2.start()]
PairStep ==
  /\ pc = "loop"
  /\ k < Len(headers)
  /\ result' = Append(result, Decl(content[headers[k]],
                          SubSeq(content, headers[k] + 1, headers[k + 1] - 1)))
  /\ k' = k + 1
  /\ UNCHANGED <<pc, content, headers, stdout, exitCode>>

\* result += ... content[part_headers[-1].end():]; return result
LastPart ==
  /\ pc = "loop"
  /\ k = Len(headers)
  /\ result' = Append(result, Decl(content[headers[k]],
                          SubSeq(content, headers[k] + 1, Len(content))))
  /\ pc' = "print"
  /\ UNCHANGED <<content, headers, k, stdout, exitCode>>

\* print gen_embedded(f.read())
PrintResult ==
  /\ pc = "print"
  /\ stdout' = result
  /\ exitCode' = 0
  /\ pc' = "exited"
  /\ UNCHANGED <<content, headers, k, result>>

EmbedNext == FindParts \/ NoParts \/ PairStep \/ LastPart \/ PrintResult

EmbedSpec == EmbedInit /\ [][EmbedNext]_vars

(***************************************************************************)
(* The parts of a file, stated directly: every header opens a part that    *)
(* runs to the next header or to the end, and what comes before the first *)
(* header belongs to no part.                                              *)
(***************************************************************************)
RECURSIVE Chop(_, _, _)
Chop(s, name, body) ==
  LET this == IF name = None THEN <<>> ELSE <<[name |-> name, body |-> body]>>
  IN IF s = <<>> THEN this
     ELSE IF Head(s) \in Names THEN this \o Chop(Tail(s), Head(s), <<>>)
     ELSE Chop(Tail(s), name,
               IF name = None THEN body ELSE Append(body, Head(s)))

Sections(s) == Chop(s, None, <<>>)

(***************************************************************************)
(* How a C compiler reads a string literal: a backslash escapes the next   *)
(* character (\n is a new line), and the literal ends at the first         *)
(* unescaped double quote, which must be its last character.               *)
(***************************************************************************)
Unescape(c) == IF c = "n" THEN "nl" ELSE c

Bad == [ok |-> FALSE, val |-> <<>>]

RECURSIVE ReadLiteral(_)
ReadLiteral(s) ==
  IF s = <<>> THEN Bad
  ELSE IF Head(s) = "q" THEN IF Len(s) = 1 THEN [ok |-> TRUE, val |-> <<>>]
                                         ELSE Bad
  ELSE LET c    == IF Head(s) = "bs" /\ Len(s) > 1 THEN Unescape(s[2]) ELSE Head(s)
           rest == ReadLiteral(IF Head(s) = "bs" /\ Len(s) > 1
                               THEN Tail(Tail(s)) ELSE Tail(s))
       IN IF rest.ok THEN [ok |-> TRUE, val |-> <<c>> \o rest.val] ELSE Bad

CString(lit) == IF lit # <<>> /\ Head(lit) = "q" THEN ReadLiteral(Tail(lit)) ELSE Bad

(***************************************************************************)
(* Properties                                                              *)
(***************************************************************************)

\* The declarations printed are the parts of the file in order, each under
\* its lower-cased header name and made of that part's non-blank lines:
\* the zip of each header with the next one neither loses, repeats nor
\* shifts a part, and the last part runs to the end of the file.
PartsPartition ==
  pc = "exited" /\ headers # <<>> =>
    LET secs == Sections(content)
    IN /\ Len(result) = Len(secs)
       /\ \A i \in 1 .. Len(secs) :
            result[i] = Decl(secs[i].name, secs[i].body)

\* Each C literal, read by the compiler, is the line of the template it was
\* made from: the escaping of process_part keeps every line intact in the
\* firmware's copy of the page.
EscapeRoundTrip ==
  pc = "exited" /\ headers # <<>> =>
    \A i \in 1 .. Len(result) :
      LET lines == NonBlankLines(Sections(content)[i].body)
      IN \A j \in 1 .. Len(lines) :
           CString(result[i].lits[j]) = [ok |-> TRUE, val |-> lines[j]]

====
