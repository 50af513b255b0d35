------------------------------- MODULE Parser -------------------------------
(***************************************************************************)
(* Parser (src/src/parser.cpp): how the mapped file is cut into lines and  *)
(* a line into fields.  A file is a sequence of characters, a pointer an   *)
(* index into it, 0 the null pointer.  A field is its digits: what number  *)
(* they are is the C library's business, and that the code keeps only one  *)
(* character of two of the fields is left out.  A line of the program's    *)
(* files has six fields; Fields is how many it has here.                   *)
(***************************************************************************)
EXTENDS Naturals, SequencesExt, FiniteSetsExt

CONSTANTS
  Fields,
  Chars,    (* what can be in a line                                       *)
  Files     (* what the file was written from: its lines, each a sequence  *)
            (* of fields, and whether a newline ends the last              *)

Digits == {"0", "1", "2", "3", "4", "5", "6", "7", "8", "9"}

Comma == ","

Newline == "\n"

\* Anything can be in the header; behind it, all fields are there, and none is empty,
\* for strtol would go past the end of the line to find a number.
ASSUME ParserAssumption ==
  /\ Fields \in Nat \ {0}
  /\ Digits \cup {Comma} \subseteq Chars
  /\ Newline \notin Chars
  /\ \A f \in Files :
       /\ f.lines \in Seq(Seq(Seq(Chars))) \ {<<>>}
       /\ f.newline \in BOOLEAN
       /\ \A i \in 3 .. Len(f.lines) : f.lines[i] \in [1 .. Fields -> Seq(Digits) \ {<<>>}]

VARIABLES
  lines,            (* the lines of the file, for the properties           *)
  file,
  current,
  header_lines,     (* how many times the first loop has turned            *)
  message_stream_

parser == <<lines, file, current, header_lines, message_stream_>>

Line(fields) ==
  FlattenSeq([k \in DOMAIN fields |-> (IF k = 1 THEN <<>> ELSE <<Comma>>) \o fields[k]])

Text(f) ==
  LET text == FlattenSeq([i \in DOMAIN f.lines |-> Line(f.lines[i]) \o <<Newline>>])
  IN IF f.newline THEN text ELSE Front(text)

ParserInit ==
  /\ \E f \in Files : lines = f.lines /\ file = Text(f)
  /\ current = 1
  /\ header_lines = 0
  /\ message_stream_ = <<>>

\* mapped_file_ + file_size_
End == Len(file) + 1

\* memchr, and strchr, which knows no end of a line; 0 if there is none.
Find(c, from) ==
  LET found == {i \in from .. Len(file) : file[i] = c}
  IN IF found = {} THEN 0 ELSE Min(found)

\* strtoull, strtol: the digits from start on.
Number(start) ==
  LET ends == {i \in start .. Len(file) : file[i] \notin Digits}
  IN SubSeq(file, start, IF ends = {} THEN Len(file) ELSE Min(ends) - 1)

\* Where each field starts, wherever the line ends.
ParseLine(start) ==
  LET token_start[k \in 1 .. Fields] ==
        IF k = 1 THEN start ELSE Find(Comma, token_start[k - 1]) + 1
  IN [k \in 1 .. Fields |-> Number(token_start[k])]

\* Mutant: one header line.
InHeaderOnce == header_lines < 1 /\ current < End

InHeader == header_lines < 2 /\ current < End

\* The first loop.
SkipHeaderLine ==
  /\ InHeader
  /\ \/ /\ Find(Newline, current) # 0
        /\ current' = Find(Newline, current) + 1
        /\ header_lines' = header_lines + 1
     \/ /\ Find(Newline, current) = 0
        /\ current' = 0
        /\ header_lines' = 2
  /\ UNCHANGED <<lines, file, message_stream_>>

\* The second loop.  A null pointer, which a file that ends in its header leaves, is
\* below end, too, and is read from: that is the end of the program.
ParseNextLine ==
  /\ ~InHeader
  /\ current \in 1 .. Len(file)
  /\ message_stream_' = Append(message_stream_, ParseLine(current))
  /\ current' = (IF Find(Newline, current) = 0 THEN End ELSE Find(Newline, current)) + 1
  /\ UNCHANGED <<lines, file, header_lines>>

ParseMappedData == SkipHeaderLine \/ ParseNextLine

Parsed == ~InHeader /\ current >= End

-----------------------------------------------------------------------------
(* Properties. *)

\* Whatever the header lines are, and whether or not a newline ends the file, every line
\* behind the header gives one message, in order, with the fields it was written with.
ParsesEveryLine ==
  /\ IsPrefix(message_stream_, SubSeq(lines, 3, Len(lines)))
  /\ Parsed => message_stream_ = SubSeq(lines, 3, Len(lines))
=============================================================================
