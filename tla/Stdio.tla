------------------------------- MODULE Stdio -------------------------------
(* A stream of the C library (lib/stdio: fopen, fputc, fgetc, ungetc, fflush, *)
(* fseek, fclose) and the file below it.  The program uses the stream as C    *)
(* allows: between a read and a write, and back, it seeks or flushes, or has  *)
(* read to the end of the file.  sdText, sdAt and sdWant say what the program *)
(* should find; they are no state of the library.                             *)
EXTENDS Integers, Sequences

CONSTANTS SdBytes,     \* bytes; "nl" ends a line
          SdOld,       \* contents of the file before it is opened
          SdBufsiz,    \* BUFSIZ
          SdMax        \* length of the file where programs stop writing

\* What fgetc answers at the end of a file is no byte.
SdEof    == "EOF"
SdContents == SdBytes \cup UNION {{s[i] : i \in DOMAIN s} : s \in SdOld}

ASSUME StdioAssumption ==
  /\ SdBufsiz \in Nat \ {0} /\ SdMax \in Nat
  /\ SdOld \subseteq Seq(SdContents) /\ SdEof \notin SdContents

VARIABLES
  sdFile, sdOff,   \* the file and the offset of its descriptor
  sdMode,          \* f->mode; {} while the stream is closed
  sdBm,            \* f->buf_mode
  sdBuf,           \* f->buf
  sdPos, sdIn,     \* f->buf_pos, f->buf_insize
  sdWr,            \* f->buf_write
  sdUn,            \* f->ungotc
  sdText, sdAt,    \* what the file should hold and where the program is
  sdGot, sdWant,   \* the last answer of fgetc, and what it should be
  sdLast,          \* the last operation: "read", "write", or "none"
  sdCut,           \* a write was short or failed
  sdSpoilt         \* bytes that were read went out again, or a byte that was
                   \* pushed back has outlived a seek

sdStream == <<sdMode, sdBm, sdBuf, sdPos, sdIn, sdWr, sdUn>>
sdGhost  == <<sdText, sdAt, sdGot, sdWant, sdLast, sdCut, sdSpoilt>>
sdVars   == <<sdFile, sdOff, sdStream, sdGhost>>

SdModes == {{"r"}, {"w"}, {"w", "a"}, {"r", "w"}, {"r", "w", "a"}}
NoBuf   == [i \in 0 .. SdBufsiz - 1 |-> SdEof]
SdOpen    == sdMode # {}
ByteAt(s, i) == IF i < Len(s) THEN s[i + 1] ELSE SdEof

\* write(2) of the bytes b: with O_APPEND at the end, otherwise at the offset;
\* behind the end the file is filled up.
Overlay(s, at, b) ==
  [i \in 1 .. (IF at + Len(b) > Len(s) THEN at + Len(b) ELSE Len(s)) |->
     IF i > at /\ i <= at + Len(b) THEN b[i - at] ELSE IF i <= Len(s) THEN s[i] ELSE "zero"]
WriteAt == IF "a" \in sdMode THEN Len(sdFile) ELSE sdOff
SdWrite(b) ==
  /\ sdFile' = IF b = <<>> THEN sdFile ELSE Overlay(sdFile, WriteAt, b)
  /\ sdOff' = IF b = <<>> THEN sdOff ELSE WriteAt + Len(b)
\* All of the bytes b are written, or only some because the disk is full (once).
Wrote(b) == \/ SdWrite(b) /\ UNCHANGED sdCut
            \/ \E n \in 0 .. Len(b) - 1 : ~sdCut /\ SdWrite(SubSeq(b, 1, n)) /\ sdCut' = TRUE

-----------------------------------------------------------------------------
\* fopen, fdopen and getfile; "w" and "w+" empty the file, "a" goes to its end.
Fopen(m, trunc) ==
  /\ ~SdOpen
  /\ trunc => "w" \in m /\ "a" \notin m
  /\ m = {"w"} => trunc
  /\ sdFile' = IF trunc THEN <<>> ELSE sdFile
  /\ sdText' = sdFile' /\ sdMode' = m /\ sdBm' = "full"
  /\ sdOff' = IF "a" \in m THEN Len(sdFile) ELSE 0
  /\ sdAt' = sdOff'
  /\ sdBuf' = NoBuf /\ sdPos' = 0 /\ sdIn' = 0 /\ sdWr' = FALSE /\ sdUn' = SdEof
  /\ sdGot' = SdEof /\ sdWant' = SdEof /\ sdLast' = "none"
  /\ sdCut' = FALSE /\ sdSpoilt' = FALSE

\* What fflush writes: with buf_write, all that is in the buffer.  That may be
\* what fgetc has read since, as nothing resets buf_write.
SdPending == IF sdWr THEN [i \in 1 .. sdPos |-> sdBuf[i - 1]] ELSE <<>>
Backwards == SdPending # <<>> /\ sdIn > 0
MutAfterFlush == sdPos
AfterFlush    == IF sdWr THEN 0 ELSE sdPos

\* setvbuf, in place of which stdout and stderr are set up so from the start:
\* what is buffered is written and the buffer given up.
Setvbuf(bm) ==
  /\ SdOpen /\ sdLast = "none" /\ sdBm # bm
  /\ Wrote(SdPending) /\ sdBm' = bm /\ sdBuf' = NoBuf /\ sdPos' = 0 /\ sdIn' = 0
  /\ sdSpoilt' = (sdSpoilt \/ Backwards)
  /\ UNCHANGED <<sdMode, sdWr, sdUn, sdText, sdAt, sdGot, sdWant, sdLast>>

\* The answer of the last fgetc is no longer of interest.
Answered == sdGot' = SdEof /\ sdWant' = SdEof

\* The program's view of a byte it writes.
SdWritten(c) ==
  LET at == IF "a" \in sdMode THEN Len(sdText) ELSE sdAt
  IN  sdText' = Overlay(sdText, at, <<c>>) /\ sdAt' = at + 1

\* fputc: unbuffered, or into the buffer, which is flushed when it is full and,
\* if it is line buffered, behind a newline.
EndsLine(c) == sdBm = "line" /\ c = "nl"
Fputc(c) ==
  /\ "w" \in sdMode /\ Len(sdText) < SdMax /\ sdAt < SdMax
  /\ sdLast # "unget" /\ (sdLast = "read" => sdGot = SdEof)
  /\ SdWritten(c) /\ sdLast' = "write"
  /\ \/ /\ sdBm = "none" /\ Wrote(<<c>>)
        /\ UNCHANGED <<sdBuf, sdPos, sdIn, sdWr>>
     \/ /\ sdBm # "none" /\ sdWr' = TRUE /\ sdIn' = 0
        /\ LET full == sdPos = SdBufsiz
               pos  == IF full THEN 0 ELSE sdPos
               buf  == [sdBuf EXCEPT ![pos] = c]
               out  == IF full THEN [i \in 1 .. SdBufsiz |-> sdBuf[i - 1]] ELSE <<>>
               line == IF EndsLine(c) THEN [i \in 1 .. pos + 1 |-> buf[i - 1]] ELSE <<>>
           IN  /\ sdBuf' = buf /\ Wrote(out \o line)
               /\ sdPos' = IF line # <<>> \/ sdCut' # sdCut THEN 0 ELSE pos + 1
  /\ Answered /\ UNCHANGED <<sdMode, sdBm, sdUn, sdSpoilt>>

-----------------------------------------------------------------------------
\* fgetc: the byte that was pushed back, or the next one of the buffer, which is
\* filled when it has been used up.
Answer(c) ==
  /\ sdGot' = c /\ sdWant' = ByteAt(sdText, sdAt)
  /\ sdAt' = IF sdAt < Len(sdText) THEN sdAt + 1 ELSE sdAt
  /\ sdLast' = "read"
UsedUp == sdPos = sdIn
Fgetc ==
  /\ "r" \in sdMode /\ sdLast # "write"
  /\ \/ /\ sdUn # SdEof /\ Answer(sdUn) /\ sdUn' = SdEof
        /\ UNCHANGED <<sdOff, sdBuf, sdPos, sdIn>>
     \/ /\ sdUn = SdEof /\ sdBm = "none"
        /\ Answer(ByteAt(sdFile, sdOff))
        /\ sdOff' = IF sdOff < Len(sdFile) THEN sdOff + 1 ELSE sdOff
        /\ UNCHANGED <<sdBuf, sdPos, sdIn, sdUn>>
     \/ /\ sdUn = SdEof /\ sdBm # "none" /\ ~UsedUp
        /\ Answer(sdBuf[sdPos]) /\ sdPos' = sdPos + 1
        /\ UNCHANGED <<sdOff, sdBuf, sdIn, sdUn>>
     \/ /\ sdUn = SdEof /\ sdBm # "none" /\ UsedUp
        /\ LET left == IF sdOff < Len(sdFile) THEN Len(sdFile) - sdOff ELSE 0
               n    == IF left < SdBufsiz THEN left ELSE SdBufsiz
               buf  == [i \in 0 .. SdBufsiz - 1 |-> IF i < n THEN ByteAt(sdFile, sdOff + i) ELSE sdBuf[i]]
           IN  /\ sdIn' = n /\ sdBuf' = buf /\ sdOff' = sdOff + n
               /\ sdPos' = IF n = 0 THEN 0 ELSE 1
               /\ Answer(IF n = 0 THEN SdEof ELSE buf[0])
        /\ UNCHANGED sdUn
  /\ UNCHANGED <<sdFile, sdMode, sdBm, sdWr, sdText, sdCut, sdSpoilt>>

\* ungetc of the byte that was read last
Ungetc ==
  /\ sdLast = "read" /\ sdGot # SdEof /\ sdUn = SdEof
  /\ sdUn' = sdGot /\ sdAt' = sdAt - 1 /\ sdGot' = SdEof /\ sdWant' = SdEof
  /\ sdLast' = "unget"
  /\ UNCHANGED <<sdFile, sdOff, sdMode, sdBm, sdBuf, sdPos, sdIn, sdWr, sdText, sdCut, sdSpoilt>>

-----------------------------------------------------------------------------
Fflush ==
  /\ "w" \in sdMode /\ sdLast = "write"
  /\ Wrote(SdPending) /\ sdPos' = AfterFlush /\ sdLast' = "none"
  /\ sdSpoilt' = (sdSpoilt \/ Backwards)
  /\ UNCHANGED <<sdMode, sdBm, sdBuf, sdIn, sdWr, sdUn, sdText, sdAt>>
  /\ Answered

\* fseek: fflush, ftell, and lseek.  It leaves the byte of ungetc alone.
Ftell(off) == off + (IF sdWr THEN 0 ELSE sdPos - sdIn) - (IF sdUn # SdEof THEN 1 ELSE 0)
SdFlushed == IF SdPending = <<>> THEN sdFile ELSE Overlay(sdFile, WriteAt, SdPending)
SdMoved   == IF SdPending = <<>> THEN sdOff ELSE WriteAt + Len(SdPending)
SeekTo(whence, n) ==
  n + (CASE whence = "set" -> 0 [] whence = "cur" -> Ftell(SdMoved) [] OTHER -> Len(SdFlushed))
Meant(whence, n) ==
  n + (CASE whence = "set" -> 0 [] whence = "cur" -> sdAt [] OTHER -> Len(sdText))
Fseek(whence, n) ==
  /\ SdOpen /\ {SeekTo(whence, n), Meant(whence, n)} \subseteq 0 .. SdMax
  /\ sdFile' = SdFlushed /\ sdOff' = SeekTo(whence, n) /\ sdAt' = Meant(whence, n)
  /\ sdPos' = 0 /\ sdIn' = 0 /\ Answered /\ sdLast' = "none"
  /\ sdSpoilt' = (sdSpoilt \/ Backwards \/ sdUn # SdEof)
  /\ UNCHANGED <<sdMode, sdBm, sdBuf, sdWr, sdUn, sdText, sdCut>>

\* fclose, and exit with __libc_stdio_cleanup: nobody hears of an error.
Fclose ==
  /\ SdOpen /\ Wrote(SdPending)
  /\ sdMode' = {} /\ sdPos' = 0 /\ sdIn' = 0 /\ sdWr' = FALSE /\ sdUn' = SdEof
  /\ sdBuf' = NoBuf /\ sdLast' = "none" /\ sdSpoilt' = (sdSpoilt \/ Backwards)
  /\ Answered /\ UNCHANGED <<sdBm, sdText, sdAt>>

SdInit ==
  /\ sdFile \in SdOld /\ sdText = sdFile /\ sdOff = 0 /\ sdAt = 0
  /\ sdMode = {} /\ sdBm = "full" /\ sdBuf = NoBuf /\ sdPos = 0 /\ sdIn = 0
  /\ sdWr = FALSE /\ sdUn = SdEof /\ sdGot = SdEof /\ sdWant = SdEof /\ sdLast = "none"
  /\ sdCut = FALSE /\ sdSpoilt = FALSE

SdNext ==
  \/ \E m \in SdModes, trunc \in BOOLEAN : Fopen(m, trunc)
  \/ \E bm \in {"none", "line"} : Setvbuf(bm)
  \/ \E c \in SdBytes : Fputc(c)
  \/ Fgetc \/ Ungetc \/ Fflush \/ Fclose
  \/ \E whence \in {"set", "cur", "end"}, n \in -1 .. 1 : Fseek(whence, n)

-----------------------------------------------------------------------------
(* Properties.                                                               *)

\* fgetc answers with the byte at the program's place, whatever was buffered,
\* pushed back or sought before, and a stream that is closed, or has nothing
\* buffered to write, leaves the file with exactly what the program wrote.  The
\* exceptions are a write that failed, a byte of ungetc kept over a seek, and
\* an update stream whose read buffer was flushed after a write.
StdioExact ==
  (~sdCut /\ ~sdSpoilt) =>
    /\ sdGot = sdWant
    /\ (~SdOpen \/ SdPending = <<>>) => sdFile = sdText
=============================================================================
