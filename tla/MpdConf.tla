------------------------------ MODULE MpdConf ------------------------------
(***************************************************************************)
(* The line of mpd.conf that names the audio device: how audio_devices.c   *)
(* finds the first audio_output block without parsing the file, and how it *)
(* replaces the line by way of a temporary file.                           *)
(*                                                                         *)
(* A line is a sequence of tokens: words (braces are words), quoted        *)
(* strings, and what stands in a comment.  Blanks and indentation are left *)
(* out.  The files are those mpd accepts: a block opens at the end of a    *)
(* line and is closed on a line of its own.  A string holds no backslash,  *)
(* a word no # and no brace beside other text, and both fit in the buffers *)
(* of struct conf_block.                                                   *)
(***************************************************************************)
EXTENDS Integers, Sequences, FiniteSets, SequencesExt

CONSTANTS
  Texts,     \* what a word, a string or a comment may say
  Devices,   \* the values of device that may be set
  Files,     \* what mpd.conf may be at first
  MaxCalls,  \* bound: calls of audio_conf_set_device
  MaxShort   \* bound: those that read a part of the file only

ASSUME ConfAssumption ==
  /\ "device" \in Texts /\ Devices \subseteq Texts /\ "" \notin Devices
  /\ MaxCalls \in Nat /\ MaxShort \in Nat

VARIABLES
  conf,    \* mpd.conf
  tmp,     \* mpd.conf.tmp, <<>> when there is none
  at,      \* where audio_conf_set_device stands: "idle", "write", "replace"
  asked,   \* its argument
  result,  \* of the last call: "none" (so far, or it died), "ok", "failed"
  calls, short,
  read,    \* what the call has of mpd.conf: a short read passes for the file
  before,  \* history: mpd.conf as the call found it
  origin,  \* history: mpd.conf as it was at first
  whole    \* history: no part of mpd.conf has taken its place

vars == <<conf, tmp, at, asked, result, calls, short, read, before, origin, whole>>

Args == Devices \cup {""}

Word(t) == [kind |-> "word", text |-> t]
Str(t)  == [kind |-> "str", text |-> t]
Note(t) == [kind |-> "note", text |-> t]

LBrace == "{"
RBrace == "}"

Token == [kind : {"word", "str", "note"}, text : Texts]

-----------------------------------------------------------------------------
(***************************************************************************)
(* The scanner.                                                            *)
(***************************************************************************)

\* Mutants: quoted text is kept; a comment is read like the rest.
BareOfWithQuotes(line)  == {k \in DOMAIN line : line[k].kind # "note"}
BareOfWithComment(line) == {k \in DOMAIN line : line[k].kind # "str"}

\* The places of what is neither comment nor quoted text.
BareOf(line) == {k \in DOMAIN line : line[k].kind = "word"}

Count(line, text) == Cardinality({k \in BareOf(line) : line[k].text = text})
Delta(line) == Count(line, LBrace) - Count(line, RBrace)

KeyAt(line, key) ==
  \E k \in BareOf(line) : line[k].text = key /\ \A j \in BareOf(line) : k <= j

\* The token behind the key, quoted or not.
ExtractValue(line) ==
  IF Len(line) < 2 \/ line[2].kind = "note" THEN "" ELSE line[2].text

\* struct conf_block.  Places are counted in lines; close is the number of lines
\* before the one with the closing brace.
NoBlock == [block |-> FALSE, depth |-> 0, done |-> FALSE, type |-> 0, device |-> 0,
            close |-> 0]

\* Line i in the loop.
ScanLine(line, b, i) ==
  LET depth == b.depth + Delta(line)
      First(key, old) == IF b.block /\ old = 0 /\ KeyAt(line, key) THEN i ELSE old
  IN IF b.done \/ (~b.block /\ ~KeyAt(line, "audio_output")) THEN b
     ELSE [block |-> TRUE, depth |-> depth, done |-> depth <= 0,
           close |-> IF depth <= 0 THEN i - 1 ELSE 0,
           type |-> First("type", b.type), device |-> First("device", b.device)]

\* The result after each number of lines.
Scanned(file) ==
  LET scan[n \in 0..Len(file)] ==
        IF n = 0 THEN NoBlock ELSE ScanLine(file[n], scan[n - 1], n)
  IN scan

ScanConf(file) == Scanned(file)[Len(file)]

\* audio_conf_type, audio_conf_current.
ValueAt(file, i) == IF i = 0 THEN "" ELSE ExtractValue(file[i])
ConfType(file)    == ValueAt(file, ScanConf(file).type)
ConfCurrent(file) == ValueAt(file, ScanConf(file).device)

-----------------------------------------------------------------------------
(***************************************************************************)
(* audio_conf_set_device.                                                  *)
(***************************************************************************)

DeviceLines(arg) == IF arg = "" THEN <<>> ELSE <<<<Word("device"), Str(arg)>>>>

\* Mutant: an existing line is not taken out.
EditedTwice(file, arg) ==
  LET b == ScanConf(file)
  IN SubSeq(file, 1, b.close) \o DeviceLines(arg)
       \o SubSeq(file, b.close + 1, Len(file))

\* The device line is replaced or dropped, or a new one goes before the brace.
Edited(file, arg) ==
  LET b    == ScanConf(file)
      head == IF b.device # 0 THEN b.device - 1 ELSE b.close
      tail == IF b.device # 0 THEN b.device + 1 ELSE b.close + 1
  IN SubSeq(file, 1, head) \o DeviceLines(arg) \o SubSeq(file, tail, Len(file))

\* What fread may hand over: the file, or the part before an error, down to a cut
\* line (a token that is cut is left out).
Parts(file) ==
  {SubSeq(file, 1, n) : n \in 0..Len(file)} \cup
  UNION {{Append(SubSeq(file, 1, n - 1), SubSeq(file[n], 1, k)) : k \in 1..Len(file[n])} :
           n \in DOMAIN file}

\* The file is read and what was read is scanned: read_file does not compare it with
\* the size.  A file that cannot be opened, or is too large, fails like one without an
\* audio_output block.
SetDevice(arg) ==
  /\ at = "idle" /\ calls > 0 /\ calls' = calls - 1
  /\ asked' = arg /\ before' = conf
  /\ \/ read' = conf /\ UNCHANGED short
     \/ short > 0 /\ short' = short - 1 /\ read' \in Parts(conf) \ {conf}
  /\ \/ ScanConf(read').block /\ at' = "write" /\ result' = "none"
     \/ read' = conf /\ UNCHANGED at /\ result' = "failed"
     \/ ~ScanConf(read').block /\ UNCHANGED at /\ result' = "failed"
  /\ UNCHANGED <<conf, tmp, origin, whole>>

\* Mutant: the file is written in place.
WriteInPlace ==
  /\ at = "write"
  /\ \/ /\ conf' = Edited(read, asked) /\ at' = "idle" /\ result' = "ok"
     \/ /\ \E n \in 0..Len(read) : conf' = SubSeq(Edited(read, asked), 1, n)
        /\ at' = "idle" /\ result' = "failed"
  /\ UNCHANGED <<tmp, asked, calls, short, read, before, origin, whole>>

\* Mutant: the result of the write is not looked at.
WriteTmpUnchecked ==
  /\ at = "write" /\ at' = "replace"
  /\ tmp' \in {Edited(read, asked), <<>>}
  /\ UNCHANGED <<conf, asked, result, calls, short, read, before, origin, whole>>

\* replace_file: the temporary file first, anew.  What could not be written or
\* flushed whole is removed; if it cannot be opened an older one stays.
WriteTmp ==
  /\ at = "write"
  /\ \/ tmp' = Edited(read, asked) /\ at' = "replace" /\ UNCHANGED result
     \/ tmp' \in {<<>>, tmp} /\ at' = "idle" /\ result' = "failed"
  /\ UNCHANGED <<conf, asked, calls, short, read, before, origin, whole>>

\* Mutant: the result of the rename is not looked at.
ReplaceUnchecked ==
  /\ at = "replace" /\ result' = "ok"
  /\ conf' \in {tmp, conf}
  /\ tmp' = <<>> /\ at' = "idle" /\ whole' = (whole /\ read = conf)
  /\ UNCHANGED <<asked, calls, short, read, before, origin>>

\* Then it takes the name over, or is removed.
Replace ==
  /\ at = "replace"
  /\ \/ conf' = tmp /\ result' = "ok" /\ whole' = (whole /\ read = conf)
     \/ UNCHANGED <<conf, whole>> /\ result' = "failed"
  /\ tmp' = <<>> /\ at' = "idle"
  /\ UNCHANGED <<asked, calls, short, read, before, origin>>

\* The process ends: a temporary file is left behind, half written maybe (one
\* line stands for any part).
Dies ==
  /\ at # "idle" /\ at' = "idle"
  /\ \/ UNCHANGED tmp
     \/ at = "write" /\ tmp' = SubSeq(Edited(read, asked), 1, 1)
  /\ UNCHANGED <<conf, asked, result, calls, short, read, before, origin, whole>>

-----------------------------------------------------------------------------
(***************************************************************************)
(* What mpd makes of the file, and which files it accepts.                 *)
(***************************************************************************)

\* The places of mpd's tokens.
Tokens(line) == {k \in DOMAIN line : line[k].kind # "note"}

Named(line, name) == line # <<>> /\ line[1] = Word(name)
Opens(line)  == Tokens(line) = {1, 2} /\ line[1].kind = "word" /\ line[2] = Word(LBrace)
Closes(line) == Tokens(line) = {1} /\ line[1] = Word(RBrace)
IsHead(line) == Named(line, "audio_output") /\ Opens(line)

\* A key and its value; the reader takes no brace for either.
Setting(line) ==
  /\ Tokens(line) = {1, 2} /\ line[1].kind = "word"
  /\ \A k \in {1, 2} : line[k] \notin {Word(LBrace), Word(RBrace)}

\* The opening line of the first audio_output block; 0 without one.
MpdBlock(file) ==
  IF \E i \in DOMAIN file : IsHead(file[i])
  THEN CHOOSE h \in DOMAIN file : IsHead(file[h]) /\ \A i \in 1..h - 1 : ~IsHead(file[i])
  ELSE 0

\* Line i is in that block, behind its opening line.
InBlock(file, i) ==
  LET h == MpdBlock(file)
  IN h # 0 /\ h < i /\ \A k \in h + 1..i : ~Closes(file[k])

\* The lines of the first audio_output block that set key.
MpdLines(file, key) == {i \in DOMAIN file : Named(file[i], key) /\ InBlock(file, i)}

MpdLine(file, key) == CHOOSE i \in MpdLines(file, key) : TRUE

MpdValue(file, key) ==
  IF MpdLines(file, key) = {} THEN "" ELSE file[MpdLine(file, key)][2].text

\* A comment ends a line, and a line does not start with a quoted string.
WellFormed(line) ==
  /\ \A j, k \in DOMAIN line : j < k /\ line[j].kind = "note" => line[k].kind = "note"
  /\ line # <<>> => line[1].kind # "str"

\* Lines h to c are the first audio_output block: settings, each key once, blank
\* lines and comments, then the brace on a line of its own.
FirstBlock(file, h, c) ==
  /\ 1 <= h /\ h < c /\ c <= Len(file)
  /\ IsHead(file[h]) /\ Closes(file[c])
  /\ \A i \in 1..h - 1 : ~Named(file[i], "audio_output")
  /\ \A i \in h + 1..c - 1 : Tokens(file[i]) = {} \/ Setting(file[i])
  /\ \A i, j \in h + 1..c - 1 :
       Setting(file[i]) /\ Setting(file[j]) /\ file[i][1] = file[j][1] => i = j

\* The files mpd accepts, as far as the first audio_output block goes: it has one,
\* or no line is named so.
Accepted(file) ==
  /\ file \in Seq(Seq(Token))
  /\ \A i \in DOMAIN file : WellFormed(file[i])
  /\ \/ \E h, c \in DOMAIN file : FirstBlock(file, h, c)
     \/ \A i \in DOMAIN file : ~Named(file[i], "audio_output")

ASSUME FilesAssumption == \A f \in Files : Accepted(f)

-----------------------------------------------------------------------------
Init ==
  /\ conf \in Files /\ origin = conf /\ before = conf /\ read = conf /\ whole = TRUE
  /\ tmp = <<>> /\ at = "idle" /\ asked = "" /\ result = "none"
  /\ calls = MaxCalls /\ short = MaxShort

Next == (\E arg \in Args : SetDevice(arg)) \/ WriteTmp \/ Replace \/ Dies

Spec == Init /\ [][Next]_vars

-----------------------------------------------------------------------------
(***************************************************************************)
(* Properties.                                                             *)
(***************************************************************************)

TypeOK ==
  /\ conf \in Seq(Seq(Token)) /\ tmp \in Seq(Seq(Token)) /\ read \in Seq(Seq(Token))
  /\ whole \in BOOLEAN /\ at \in {"idle", "write", "replace"}
  /\ asked \in Args /\ result \in {"none", "ok", "failed"}
  /\ calls \in 0..MaxCalls /\ short \in 0..MaxShort
  /\ at = "replace" => tmp # <<>>

\* After a successful call mpd finds the device asked for, once, in its first
\* audio_output block; without an argument it finds none, unless a call took a part
\* of the file for the file (audio_devices.h:63-68).
DeviceSet ==
  whole /\ result = "ok" => /\ MpdValue(conf, "device") = asked
                            /\ Cardinality(MpdLines(conf, "device")) <= 1

\* The file less the device line of its first block.
Rest(file) ==
  IF MpdLines(file, "device") = {} THEN file
  ELSE RemoveAt(file, MpdLine(file, "device"))

\* Whatever is set and unset in turn, with calls that fail or die in between,
\* everything else in the file stays as the user wrote it; the one way to lose some
\* of it is a call that succeeds after a short read (audio_devices.h:54).
RestKept == whole => Rest(conf) = Rest(origin)

\* What the scanner reads back, without knowing mpd's grammar, is what mpd reads:
\* braces in quotes, comments and other blocks do not mislead it, as long as no part
\* of the file has taken its place (audio_devices.c:83-85, 210).
ScannerAgrees ==
  whole /\ MpdBlock(conf) # 0 =>
    /\ ConfCurrent(conf) = MpdValue(conf, "device")
    /\ ConfType(conf) = MpdValue(conf, "type")

\* Seen from outside, the value mpd reads and all the rest of the file: one call
\* sets the one, at once and whole, and does not touch the other, until one succeeds
\* after a short read (audio_devices.h:54, 63-68).
Setter == INSTANCE DeviceSetting WITH
            Values <- Texts \cup {""}, Contents <- Seq(Seq(Token)),
            device <- MpdValue(conf, "device"), rest <- Rest(conf),
            busy <- at # "idle"

SetterSpec == Setter!Spec

\* A call that fails or dies leaves the file it found; no reader ever sees a part
\* of what was to be written (audio_devices.c:155-156).
OldOrNew ==
  /\ conf \in {before, Edited(read, asked)}
  /\ result = "failed" => conf = before
=============================================================================
