------------------------------- MODULE TextPath -------------------------------
(***************************************************************************)
(* The way of a remembered text into the index: sanitized line by line,    *)
(* composed, with the text as it came for a summary and the sanitized one  *)
(* for a detail, and cut into overlapping windows of words.  What comes    *)
(* out of the sanitizer goes through it again later (a memory is sanitized *)
(* when it is remembered, when a digest is prepared and when it is         *)
(* committed), so a second scanner reads what the first one writes.        *)
(*                                                                         *)
(* A line is a sequence of tokens; a token is its class, what the scanner  *)
(* tells apart.  Blanks at the two ends of a text are left out, and so is  *)
(* the gate that turns short and noisy texts away.                         *)
(***************************************************************************)
EXTENDS Integers, FiniteSets, SequencesExt

CONSTANTS
  Lines,          \* the lines a text can have
  MaxFenceLines,  \* MAX_FENCE_LINES
  MaxDetail,      \* the words that fit the detail
  Configs,        \* the chunking configurations, [size, overlap]
  MaxWords        \* bound: a text is not read further

Tokens == {
  "word",       \* plain, shorter than a credential
  "name",       \* plain, as long as a credential
  "secret",     \* shaped like a credential
  "sep",        \* = or : on its own
  "bearer",
  "key", "longkey",    \* a sensitive key; as long as a credential
  "open", "longopen",  \* key= or key: and nothing behind
  "assign",     \* key=value
  "padded",     \* key=value=
  "redacted",   \* [redacted]
  "kept",       \* key=[redacted]
  "begin", "end",      \* the first and the last line of a PEM block
  "fence",      \* the opening or closing line of a code block; nothing that
                \* looks like a credential is attached to it
  "cut" }       \* [code truncated]

ASSUME TextAssumption ==
  /\ Lines \subseteq Seq(Tokens)
  /\ {MaxFenceLines, MaxDetail, MaxWords} \subseteq Nat
  /\ Configs \subseteq [size : Nat, overlap : Nat]

VARIABLES
  pc,       \* "scan", "chunk" or "done"
  scanner,  \* the local variables of sanitize_detail
  second,   \* those of the second pass
  read,     \* history: the last line read
  out,      \* the lines written for it: none or one
  again,    \* what the second pass writes for them
  marked,   \* history: a truncation marker was written in the open fence
  given,    \* the words read so far
  words,    \* the words written for them; then those of the composed text
  config,   \* the chunking of the collection it goes to
  start,    \* where the next window begins
  windows   \* the windows, <<first word, word after the last>>

textVars == <<pc, scanner, second, read, out, again, marked, given, words, config, start, windows>>

-----------------------------------------------------------------------------
(* redact_line *)

\* looks_credential_value
Looks(t) == t \in {"name", "secret", "longkey", "longopen", "assign", "padded", "redacted", "kept"}

Arms(t) == t \in {"bearer", "key", "longkey", "open", "longopen", "padded"}

\* What a token becomes if no key is before it.
Alone(t) ==
  CASE t \in {"assign", "padded", "kept"} -> "kept"
    [] t = "secret" -> "redacted"
    [] OTHER -> t

\* Variant: a separator on its own ends the redaction.
RedactTokenAtOnce(acc, t) ==
  IF acc.armed /\ Looks(t)
  THEN [out |-> Append(acc.out, "redacted"), armed |-> FALSE]
  ELSE [out |-> Append(acc.out, Alone(t)), armed |-> Arms(t)]

RedactToken(acc, t) ==
  IF acc.armed /\ t = "sep"
  THEN [acc EXCEPT !.out = Append(@, t)]
  ELSE IF acc.armed /\ Looks(t)
  THEN [out |-> Append(acc.out, "redacted"), armed |-> FALSE]
  ELSE [out |-> Append(acc.out, Alone(t)), armed |-> Arms(t)]

RedactLine(line) == FoldLeft(RedactToken, [out |-> <<>>, armed |-> FALSE], line).out

-----------------------------------------------------------------------------
(* sanitize_detail: what it writes for a line, and its next state.  kept    *)
(* and blanks are counted no further than their values are told apart.      *)

Scanners == [pem : BOOLEAN, fence : BOOLEAN, kept : 0..(MaxFenceLines + 1),
             cutting : BOOLEAN, blanks : 0..2]

NoConfig == [size |-> 0, overlap |-> 0]

Start == [pem |-> FALSE, fence |-> FALSE, kept |-> 0, cutting |-> FALSE, blanks |-> 0]

Is(line, token) == line # <<>> /\ line[1] = token

\* Variant: the marker of one fence stands for all that follow.
FenceLineOnce(s) ==
  IF s.fence THEN [s EXCEPT !.fence = FALSE]
             ELSE [s EXCEPT !.fence = TRUE, !.kept = 0]

FenceLine(s) ==
  IF s.fence THEN [s EXCEPT !.fence = FALSE, !.cutting = FALSE]
             ELSE [s EXCEPT !.fence = TRUE, !.kept = 0]

BlankLine(s) ==
  [next |-> [s EXCEPT !.blanks = IF @ = 2 THEN 2 ELSE @ + 1],
   out  |-> IF s.blanks = 0 THEN << <<>> >> ELSE <<>>]

OtherLine(s, line) ==
  [next |-> [s EXCEPT !.blanks = 0], out |-> << RedactLine(line) >>]

\* A line past the ones a fence may keep: the first leaves a marker.
CutLine(s) ==
  [next |-> [s EXCEPT !.kept = MaxFenceLines + 1, !.cutting = TRUE],
   out  |-> IF s.cutting THEN <<>> ELSE << <<"cut">> >>]

\* A line that is none of a key block, nor a fence.
Content(s, line) ==
  IF s.fence /\ s.kept >= MaxFenceLines THEN CutLine(s)
  ELSE LET t == IF s.fence THEN [s EXCEPT !.kept = @ + 1] ELSE s
       IN  IF line = <<>> THEN BlankLine(t) ELSE OtherLine(t, line)

\* Variant: the closing line of a fence that is being cut is cut, too.
ScanCutsClosing(s, line) ==
  CASE ~s.pem /\ Is(line, "begin") ->
         [next |-> [s EXCEPT !.pem = TRUE], out |-> << <<"redacted", "word", "word">> >>]
    [] s.pem -> [next |-> [s EXCEPT !.pem = ~Is(line, "end")], out |-> <<>>]
    [] ~s.pem /\ Is(line, "fence") ->
         [next |-> FenceLine(s), out |-> IF s.cutting THEN <<>> ELSE << RedactLine(line) >>]
    [] OTHER -> Content(s, line)

Scan(s, line) ==
  CASE ~s.pem /\ Is(line, "begin") ->
         [next |-> [s EXCEPT !.pem = TRUE], out |-> << <<"redacted", "word", "word">> >>]
    [] s.pem -> [next |-> [s EXCEPT !.pem = ~Is(line, "end")], out |-> <<>>]
    [] ~s.pem /\ Is(line, "fence") -> [next |-> FenceLine(s), out |-> << RedactLine(line) >>]
    [] OTHER -> Content(s, line)

-----------------------------------------------------------------------------
TextInit ==
  /\ pc = "scan"
  /\ scanner = Start
  /\ second = Start
  /\ read = <<>>
  /\ out = <<>>
  /\ again = <<>>
  /\ marked = FALSE
  /\ given = 0
  /\ words = 0
  /\ config = NoConfig
  /\ start = 0
  /\ windows = <<>>

ReadLine(line) ==
  LET one == Scan(scanner, line)
      two == IF one.out = <<>> THEN [next |-> second, out |-> <<>>] ELSE Scan(second, one.out[1])
  IN  /\ pc = "scan"
      /\ given + Len(line) <= MaxWords
      /\ scanner' = one.next
      /\ second' = two.next
      /\ read' = line
      /\ out' = one.out
      /\ again' = two.out
      /\ marked' = IF Is(line, "fence") /\ ~scanner.pem THEN FALSE
                   ELSE marked \/ one.out = << <<"cut">> >>
      /\ given' = given + Len(line)
      /\ words' = words + IF one.out = <<>> THEN 0 ELSE Len(one.out[1])
      /\ UNCHANGED <<pc, config, start, windows>>

\* compose_rich_text: the labels are two more words; without a detail the text
\* is the summary.  remember passes the text it was given for the summary and
\* only the detail is sanitized, first, and cut, after.
Composed(summary, detail) ==
  IF detail = 0 THEN summary
  ELSE summary + 2 + (IF detail < MaxDetail THEN detail ELSE MaxDetail)

EndOfText ==
  /\ pc = "scan"
  /\ pc' = IF Composed(given, words) = 0 THEN "done" ELSE "chunk"
  /\ words' = Composed(given, words)
  /\ given' = 0
  /\ scanner' = Start
  /\ second' = Start
  /\ read' = <<>>
  /\ out' = <<>>
  /\ again' = <<>>
  /\ marked' = FALSE
  /\ config' \in Configs
  /\ UNCHANGED <<start, windows>>

-----------------------------------------------------------------------------
(* chunk_text *)

Size == IF config.size = 0 THEN 1 ELSE config.size

Overlap == IF config.overlap < Size THEN config.overlap ELSE Size - 1

Stride == Size - Overlap

\* Variant: windows go on after the one that reaches the end.
IsLastTooLate(last) == start + Stride >= words

IsLast(last) == last = words

Window ==
  LET last == IF start + Size < words THEN start + Size ELSE words
  IN  /\ pc = "chunk"
      /\ windows' = Append(windows, <<start, last>>)
      /\ IF IsLast(last)
         THEN pc' = "done" /\ start' = 0
         ELSE pc' = pc /\ start' = start + Stride
      /\ UNCHANGED <<scanner, second, read, out, again, marked, given, words, config>>

\* The text is indexed; the next one comes.
Done ==
  /\ pc = "done"
  /\ pc' = "scan"
  /\ words' = 0
  /\ windows' = <<>>
  /\ config' = NoConfig
  /\ UNCHANGED <<scanner, second, read, out, again, marked, given, start>>

TextNext ==
  \/ \E line \in Lines : ReadLine(line)
  \/ EndOfText
  \/ Window
  \/ Done

TextSpec == TextInit /\ [][TextNext]_textVars

-----------------------------------------------------------------------------
(* Properties *)

\* Sanitizing again what was sanitized (prepare and commit do) rewrites no line
\* and never takes text for code or code for text.  All it can do is cut a fence
\* again (the line a key block leaves in it was not counted the first time) and
\* drop a blank line after such a fence.
SanitizedTwice ==
  /\ second.fence = scanner.fence
  /\ \/ again = out
     \/ scanner.fence /\ again \in {<<>>, << <<"cut">> >>}
     \/ out = << <<>> >> /\ again = <<>>

\* A token of the line read that looks like a credential, redacted ones apart.
Value(j) == Looks(read[j]) /\ read[j] \notin {"redacted", "kept"}

\* It comes behind a key, with or without separators on their own in between.
Behind(j, k) == Arms(read[k]) /\ \A l \in (k + 1)..(j - 1) : read[l] = "sep"

\* It is written as it was read.
Survives(j) == out # <<>> /\ j \in DOMAIN out[1] /\ out[1][j] = read[j]

\* A key that looks like a credential was redacted as the value of one before it.
Taken(k) == ~Survives(k) /\ \E i \in 1..(k - 1) : Behind(k, i)

\* Of a line read, nothing shaped like a credential is written as it was, nor
\* anything that looks like one behind a key, unless that key was itself taken
\* for the value of another.
NothingLeaks ==
  \A j \in {i \in DOMAIN read : Value(i) /\ Survives(i)} :
    /\ read[j] \notin {"secret", "assign", "padded"}
    /\ \A k \in 1..(j - 1) : Behind(j, k) => Taken(k)

\* Whenever a code block lost lines, it has the marker that says so.
TruncationIsMarked == scanner.fence /\ scanner.kept > MaxFenceLines => marked

\* The windows of a text begin at its first word and end at its last, in order;
\* each overlaps the one before by the configured number of words (less than a
\* window), none has more words than a chunk, and none lies within another.
WindowsCover ==
  LET n == Len(windows)
  IN  pc = "done" /\ words > 0 =>
        /\ windows[1][1] = 0 /\ windows[n][2] = words
        /\ \A i \in 1..n : windows[i][1] < windows[i][2] /\ windows[i][2] - windows[i][1] <= Size
        /\ \A i \in 1..(n - 1) :
             /\ windows[i][2] - windows[i + 1][1] = Overlap
             /\ windows[i][1] < windows[i + 1][1] /\ windows[i][2] < windows[i + 1][2]
=============================================================================
