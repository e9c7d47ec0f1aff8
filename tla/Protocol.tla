------------------------------- MODULE Protocol -------------------------------
(***************************************************************************)
(* The wire format (pkg/protocol): commands as the writer sends them and   *)
(* the incremental parser of the event loops, which is given whatever      *)
(* bytes have arrived and says which command they begin with.              *)
(*                                                                         *)
(* A stream is a sequence of units: the text of an array header "*n" or a  *)
(* length "$n", a word, and the line end.  A word is one unit long, so the *)
(* lengths of payloads are counted in units, and no payload holds a line   *)
(* end.  A cut between two units stands for every cut up to the next one.  *)
(* Inline commands are not longer than maxInlineBytes.                     *)
(***************************************************************************)
EXTENDS Integers, SequencesExt

Star(n) == [t |-> "*", n |-> n]
Garbled == [t |-> "*?"]     \* an array header without a number
Dollar(n) == [t |-> "$", n |-> n]
GarbledLength == [t |-> "$?"]
Word(w) == [t |-> "word", w |-> w]
CRLF == [t |-> "CRLF"]

maxArgs == 1024
maxBulkLength == 512 * 1024

\* A command as an array of bulk strings.
WriteCommand(args) ==
  <<Star(Len(args)), CRLF>> \o
  FlattenSeq([i \in DOMAIN args |-> <<Dollar(1), CRLF, Word(args[i]), CRLF>>])

\* The first line end of b from position p on, 0 if there is none.
indexCRLF(b, p) ==
  LET ends == {i \in p..Len(b) : b[i] = CRLF}
  IN  IF ends = {} THEN 0 ELSE Min(ends)

(* The outcome of a parse: an error, a panic, or a command and the number  *)
(* of units it took.  The command <<>> stands for nil: either the bytes    *)
(* are not complete (nothing consumed) or the line was empty.              *)
Parsed(cmd, n) == [err |-> FALSE, panics |-> FALSE, cmd |-> cmd, consumed |-> n]
Incomplete == Parsed(<<>>, 0)
ParseError == [Incomplete EXCEPT !.err = TRUE]
Panic == [Incomplete EXCEPT !.panics = TRUE]

parseInline(b) ==
  LET idx == indexCRLF(b, 1)
  IN  IF idx = 0 THEN Incomplete
      ELSE Parsed([i \in 1..idx - 1 |-> b[i].w], idx)

\* Where argument i of an array begins and the arguments before it, or why
\* the array cannot be read as far as that.  A length below -1 is taken for
\* the bounds of a slice, and a negative count for a capacity.
parseArg(b, r) ==
  LET end == indexCRLF(b, r.pos)
      len == b[r.pos].n
      stop(why) == [r EXCEPT !.stop = why]
  IN  IF r.stop # "no" THEN r
      ELSE IF r.pos > Len(b) THEN stop("incomplete")
      ELSE IF b[r.pos].t \notin {"$", "$?"} \/ end = 0 THEN stop("incomplete")
      ELSE IF b[r.pos] = GarbledLength \/ len > maxBulkLength THEN stop("error")
      ELSE IF len = -1 THEN [r EXCEPT !.pos = end + 1, !.args = Append(@, "")]
      ELSE IF len < -1 THEN stop("panic")
      ELSE IF end + len + 1 > Len(b) THEN stop("incomplete")
      ELSE [r EXCEPT !.pos = end + len + 2, !.args = Append(@, b[end + 1].w)]

parseRESPArray(b) ==
  LET idx == indexCRLF(b, 1)
      start == [pos |-> idx + 1, args |-> <<>>, stop |-> "no"]
      read[i \in 0..b[1].n] == IF i = 0 THEN start ELSE parseArg(b, read[i - 1])
      last == read[b[1].n]
  IN  IF idx = 0 THEN Incomplete
      ELSE IF b[1] = Garbled THEN ParseError
      ELSE IF b[1].n > maxArgs THEN ParseError
      ELSE IF b[1].n < 0 \/ last.stop = "panic" THEN Panic
      ELSE IF last.stop = "error" THEN ParseError
      ELSE IF last.stop = "incomplete" THEN Incomplete
      ELSE Parsed(last.args, last.pos - 1)

\* An empty buffer is not parsed.
ParseCommandFromBytes(b) ==
  IF b = <<>> THEN Incomplete
  ELSE IF b[1].t \in {"*", "*?"} THEN parseRESPArray(b) ELSE parseInline(b)
=============================================================================
