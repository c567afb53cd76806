------------------------------- MODULE Editor -------------------------------
(* cmd/vi/main.c: the text is a string in filebuf, with the bytes of earlier  *)
(* texts behind its NUL; lineptr, topptr, x, y and t are its cursor and its   *)
(* window.  Insertion works on a copy of the line, which is stored at the end *)
(* of it.  What is drawn is left out.                                         *)
(* A definition Mut... is a wrong form of the definition below it.            *)
EXTENDS Integers, FiniteSets, Sequences

CONSTANTS
  EdMax,       \* filebuf's last byte, which stays NUL
  EdCols,      \* cols
  EdRows,      \* rows
  EdFiles,     \* files there are to read
  EdChars      \* characters that are typed

EdByte == EdChars \cup {"nul", "nl", "sp", "tab"}
\* Files are text, and fit into filebuf: of a longer one the end is not read.
ASSUME EdAssumption ==
  /\ EdMax \in Nat /\ EdCols \in Nat \ {0} /\ EdRows \in Nat \ {0} /\ "nul" \notin EdChars
  /\ \A f \in EdFiles : f \in Seq(EdByte \ {"nul"}) /\ Len(f) <= EdMax

VARIABLES
  edBuf,       \* filebuf
  edLp, edTop, \* lineptr and topptr
  edX, edY, edT,
  edDirty,
  edMode,      \* "loop", "insert", or "out" after exit
  edLine, edEnd, \* in insert: linebuf and p, the end of the line in filebuf
  edDisk,      \* the file
  edQuiet,     \* the text was changed by what does not set dirty
  edStale      \* cmd_goto has set lineptr from the window before

edPlace == <<edLp, edTop, edX, edY, edT>>
edVars  == <<edBuf, edPlace, edDirty, edMode, edLine, edEnd, edDisk, edQuiet, edStale>>

EdBytes == 0 .. EdMax
\* p + strlen(p), and the end of the line at p: a newline or the NUL
Nul(b, p) == CHOOSE q \in p .. EdMax : b[q] = "nul" /\ \A r \in p .. q - 1 : b[r] # "nul"
Eol(b, p) == CHOOSE q \in p .. EdMax :
               b[q] \in {"nl", "nul"} /\ \A r \in p .. q - 1 : b[r] \notin {"nl", "nul"}
Newlines(b, p) == {q \in p .. Nul(b, p) - 1 : b[q] = "nl"}
Text(b) == [i \in 1 .. Nul(b, 0) |-> b[i - 1]]
\* The start of the line n lines behind p, or the end of the text.
LineFrom(b, p, n) ==
  IF n = 0 THEN p
  ELSE IF Cardinality(Newlines(b, p)) < n THEN Nul(b, p)
  ELSE 1 + CHOOSE q \in Newlines(b, p) : Cardinality({r \in Newlines(b, p) : r <= q}) = n

\* memmove and memcpy; no text grows beyond filebuf, which nothing checks.
Memmove(b, dst, src, n) ==
  [i \in EdBytes |-> IF i \in dst .. dst + n - 1 THEN b[src + i - dst] ELSE b[i]]
Memcpy(b, dst, s, n) == [i \in EdBytes |-> IF i \in dst .. dst + n - 1 THEN s[i - dst] ELSE b[i]]
\* The string at p moves up by one, and c takes its place.
Opens(b, p) == Nul(b, p) + 1 < EdMax
Inserted(b, p, c) == [Memmove(b, p + 1, p, Nul(b, p) - p + 1) EXCEPT ![p] = c]
\* The string behind p moves down to p.
Removed(b, p, src) == Memmove(b, p, src, Nul(b, p) - src + 1)

-----------------------------------------------------------------------------
Utop(b, t)            == LineFrom(b, 0, t)
MutUline(b, top, y, t) == LineFrom(b, 0, y - t)
Uline(b, top, y, t)    == LineFrom(b, top, y - t)
EdLoop  == edMode = "loop"
Len1    == Eol(edBuf, edLp) - edLp      \* linelen()
HasNext == edBuf[Eol(edBuf, edLp)] = "nl"
AtLine(b, y, t) == edY' = y /\ edT' = t /\ edTop' = Utop(b, t) /\ edLp' = Uline(b, Utop(b, t), y, t)
Still   == UNCHANGED <<edMode, edLine, edEnd, edDisk>>

\* ^, $, h and l
MoveX ==
  /\ EdLoop /\ Still
  /\ \/ edX' = 0 \/ edX' = Len1
     \/ edX > 0 /\ edX' = edX - 1
     \/ edX < Len1 /\ edX' = edX + 1
  /\ UNCHANGED <<edBuf, edLp, edTop, edY, edT, edDirty, edQuiet, edStale>>

\* k and j: the window follows.  x stays, and may lie behind the end of the line.
Up == /\ EdLoop /\ edY > 0 /\ Still
      /\ AtLine(edBuf, edY - 1, IF edY - 1 < edT THEN edY - 1 ELSE edT)
      /\ UNCHANGED <<edBuf, edX, edDirty, edQuiet, edStale>>
Down == /\ EdLoop /\ HasNext /\ Still
        /\ AtLine(edBuf, edY + 1, IF edY + 1 >= edT + EdRows - 1 THEN edT + 1 ELSE edT)
        /\ UNCHANGED <<edBuf, edX, edDirty, edQuiet, edStale>>

\* cmd_goto: uline goes before utop.
Goto(l) ==
  LET m == Cardinality(Newlines(edBuf, 0))
      y == IF l < m THEN l ELSE m
      t == IF y < EdRows \div 2 THEN 0 ELSE y - EdRows \div 2
  IN  /\ EdLoop /\ Still
      /\ edY' = y /\ edT' = t
      /\ edLp' = Uline(edBuf, edTop, y, t) /\ edTop' = Utop(edBuf, t)
      /\ edStale' = (edStale \/ edTop' # edTop)
      /\ UNCHANGED <<edBuf, edX, edDirty, edQuiet>>

\* d: the line goes.  x: the byte under the cursor, wherever that is.
DeleteLine ==
  /\ EdLoop /\ HasNext /\ Still
  /\ edBuf' = Removed(edBuf, edLp, Eol(edBuf, edLp) + 1)
  /\ edDirty' = TRUE /\ UNCHANGED <<edPlace, edQuiet, edStale>>
DeleteChar ==
  /\ EdLoop /\ edLp + edX < EdMax /\ Still
  /\ edBuf' = IF edBuf[edLp + edX] = "nul" THEN edBuf
              ELSE Removed(edBuf, edLp + edX, edLp + edX + 1)
  /\ edDirty' = TRUE /\ UNCHANGED <<edPlace, edQuiet, edStale>>

\* J and r do not set dirty; r does nothing on a line without a newline.
Join ==
  /\ EdLoop /\ HasNext /\ Still
  /\ edBuf' = Removed(edBuf, Eol(edBuf, edLp), Eol(edBuf, edLp) + 1)
  /\ edQuiet' = TRUE /\ UNCHANGED <<edPlace, edDirty, edStale>>
Replace(c) ==
  /\ EdLoop /\ HasNext /\ edX < Len1 /\ Still
  /\ edBuf' = [edBuf EXCEPT ![edLp + edX] = c]
  /\ edQuiet' = TRUE /\ UNCHANGED <<edPlace, edDirty, edStale>>

-----------------------------------------------------------------------------
\* insert, entered at byte x of the line at lp: linebuf is the line and spaces.
\* A line must be shorter than the screen is wide, which nothing checks.
Enters(b, lp, x) ==
  /\ edMode' = "insert" /\ edEnd' = Eol(b, lp) /\ edX' = x
  /\ Eol(b, lp) - lp < EdCols
  /\ edLine' = [i \in 0 .. EdCols - 1 |-> IF i < Eol(b, lp) - lp THEN b[lp + i] ELSE "sp"]
\* i, a, A and I
Insert ==
  /\ EdLoop
  /\ \E x \in {IF edX > Len1 THEN Len1 ELSE edX, IF edX + 1 > Len1 THEN Len1 ELSE edX + 1, Len1, 0} :
       Enters(edBuf, edLp, x)
  /\ UNCHANGED <<edBuf, edLp, edTop, edY, edT, edDirty, edDisk, edQuiet, edStale>>
\* O opens a line above this one, o one below; both without dirty.
OpenAbove ==
  /\ EdLoop /\ Opens(edBuf, edLp)
  /\ edBuf' = Inserted(edBuf, edLp, "nl") /\ Enters(edBuf', edLp, 0) /\ edQuiet' = TRUE
  /\ UNCHANGED <<edLp, edTop, edY, edT, edDirty, edDisk, edStale>>
OpenBelow ==
  LET e == Eol(edBuf, edLp)
  IN  /\ EdLoop /\ Opens(edBuf, e)
      /\ edBuf' = Inserted(edBuf, e, "nl") /\ Enters(edBuf', e + 1, 0) /\ edQuiet' = TRUE
      /\ edY' = edY + 1 /\ edLp' = e + 1
      /\ edT' = IF edY + 1 >= edT + EdRows THEN edT + 1 ELSE edT
      /\ edTop' = IF edT' # edT THEN Utop(edBuf', edT') ELSE edTop
      /\ UNCHANGED <<edDirty, edDisk, edStale>>

\* A line may get two bytes too long; what is behind the last column, where the
\* second goes behind linebuf, is never stored.
Type(c) ==
  /\ edMode = "insert" /\ edX <= EdCols
  /\ edLine' = [i \in 0 .. EdCols - 1 |->
                  IF i < edX THEN edLine[i] ELSE IF i = edX THEN c ELSE edLine[i - 1]]
  /\ edX' = edX + 1 /\ edDirty' = TRUE
  /\ UNCHANGED <<edBuf, edLp, edTop, edY, edT, edMode, edEnd, edDisk, edQuiet, edStale>>
\* The space for the last column goes to filebuf, by way of lineptr, in place
\* of linebuf, which keeps its last character.
Backspace ==
  /\ edMode = "insert" /\ edX \in 1 .. EdCols /\ edLp + EdCols - 1 < EdMax
  /\ edLine' = [i \in 0 .. EdCols - 1 |->
                  IF i < edX - 1 \/ i = EdCols - 1 THEN edLine[i] ELSE edLine[i + 1]]
  /\ edBuf' = [edBuf EXCEPT ![edLp + EdCols - 1] = "sp"]
  /\ edX' = edX - 1 /\ edDirty' = TRUE
  /\ UNCHANGED <<edLp, edTop, edY, edT, edMode, edEnd, edDisk, edQuiet, edStale>>

\* From behind those two bytes it is a memmove of size -1, and vi dies.
BackspaceDies ==
  /\ edMode = "insert" /\ edX > EdCols /\ edMode' = "out"
  /\ UNCHANGED <<edBuf, edPlace, edDirty, edLine, edEnd, edDisk, edQuiet, edStale>>

\* store: the line without the spaces behind it, but with one byte at least,
\* and a newline.  That newline takes the place of the line's own one, or of
\* the NUL, so that what lies behind it becomes text again.
Kept == LET used == {i \in 1 .. EdCols - 1 : edLine[i] # "sp"}
        IN  1 + (IF used = {} THEN 0 ELSE CHOOSE i \in used : \A j \in used : j <= i)
Stored1 == [Memcpy(Memmove(edBuf, edLp + Kept, edEnd, Nul(edBuf, edEnd) - edEnd + 1),
                   edLp, edLine, Kept) EXCEPT ![edLp + Kept] = "nl"]
Fits1   == edLp + Kept + Nul(edBuf, edEnd) - edEnd < EdMax
Store ==
  /\ edMode = "insert" /\ Fits1
  /\ edBuf' = Stored1 /\ edMode' = "loop" /\ edLine' = <<>> /\ edEnd' = 0
  /\ edQuiet' = (edQuiet \/ ~edDirty)
  /\ UNCHANGED <<edPlace, edDirty, edDisk, edStale>>
\* Return stores the line and splits it at x, and the insertion goes on.
EdReturn ==
  LET b == Inserted(Stored1, edLp + edX, "nl")
      t == IF edY + 1 >= edT + EdRows THEN edT + 1 ELSE edT
  IN  /\ edMode = "insert" /\ Fits1 /\ edLp + edX < EdMax /\ Opens(Stored1, edLp + edX)
      /\ edBuf' = b
      /\ edT' = t /\ edY' = edY + 1
      /\ edTop' = IF t # edT THEN Utop(b, t) ELSE edTop
      /\ edLp' = Uline(b, edTop', edY + 1, t) /\ Enters(b, edLp', 0)
      /\ edQuiet' = (edQuiet \/ ~edDirty)
      /\ UNCHANGED <<edDirty, edDisk, edStale>>

-----------------------------------------------------------------------------
\* cmd_read: what is read goes over the start of the text, without a NUL
\* behind it, and tabs become spaces.
Detab(c) == IF c = "tab" THEN "sp" ELSE c
Reading1(b, f) == [i \in EdBytes |-> IF i < Len(f) THEN f[i + 1] ELSE b[i]]
ReadIn(b, f) == [i \in EdBytes |->
                   IF i < Nul(Reading1(b, f), 0) THEN Detab(Reading1(b, f)[i]) ELSE Reading1(b, f)[i]]
Differs(b, f) == b[Len(f)] # "nul" \/ \E i \in DOMAIN f : f[i] = "tab"
CmdRead(f) ==
  /\ EdLoop /\ ~edDirty /\ Still
  /\ edDisk' = f
  /\ edBuf' = ReadIn(edBuf, f)
  /\ edLp' = 0 /\ edTop' = 0 /\ edX' = 0 /\ edY' = 0 /\ edT' = 0
  /\ edQuiet' = Differs(edBuf, f) /\ edStale' = FALSE
  /\ UNCHANGED edDirty

\* cmd_write: O_TRUNC empties the file before it is known that all fits.
CmdWrite(q) ==
  /\ EdLoop
  /\ \/ /\ edDisk' = Text(edBuf) /\ edDirty' = FALSE /\ edQuiet' = FALSE
        /\ edMode' = IF q THEN "out" ELSE "loop"
     \/ /\ edDisk' = <<>> /\ edQuiet' = (edQuiet \/ ~edDirty)
        /\ UNCHANGED <<edDirty, edMode>>
  /\ UNCHANGED <<edBuf, edPlace, edLine, edEnd, edStale>>
CmdQuit ==
  /\ EdLoop /\ ~edDirty /\ edMode' = "out"
  /\ UNCHANGED <<edBuf, edPlace, edDirty, edLine, edEnd, edDisk, edQuiet, edStale>>

\* main: filebuf is empty, and the file is read.
EdInit ==
  /\ edDisk \in EdFiles /\ edBuf = ReadIn([i \in EdBytes |-> "nul"], edDisk)
  /\ edLp = 0 /\ edTop = 0 /\ edX = 0 /\ edY = 0 /\ edT = 0
  /\ edDirty = FALSE /\ edMode = "loop" /\ edLine = <<>> /\ edEnd = 0
  /\ edQuiet = Differs([i \in EdBytes |-> "nul"], edDisk) /\ edStale = FALSE

EdNext ==
  \/ MoveX \/ Up \/ Down \/ DeleteLine \/ DeleteChar \/ Join \/ Insert \/ OpenAbove
  \/ OpenBelow \/ Backspace \/ BackspaceDies \/ Store \/ EdReturn \/ CmdQuit
  \/ \E c \in EdChars : Type(c) \/ Replace(c)
  \/ \E l \in 0 .. EdMax : Goto(l)
  \/ \E f \in EdFiles : CmdRead(f)
  \/ \E q \in BOOLEAN : CmdWrite(q)

-----------------------------------------------------------------------------
(* Properties.                                                               *)

\* However the text is cut, joined and stored, lineptr is at the start of line
\* y and topptr at that of line t, until a goto sets lineptr from the window
\* it leaves; y stays on the screen.  And without dirty the file holds the text,
\* so that :q loses nothing, but for what J, r, o, O, an insertion without a
\* key, a read over bytes of an earlier text or with tabs, and a failed write
\* change without setting it.
EditorExact ==
  /\ ~edStale => /\ edTop = LineFrom(edBuf, 0, edT) /\ edLp = LineFrom(edBuf, 0, edY)
                 /\ edY - edT \in 0 .. EdRows - 1
  /\ (~edDirty /\ ~edQuiet) => edDisk = Text(edBuf)
=============================================================================
