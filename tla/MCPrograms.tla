---------------------------- MODULE MCPrograms -----------------------------
(* Model-checking instances of the terminal (Tty, Keyboard, Screen), of the *)
(* programs used at it: Shell (sh), Expressions (glob, if, expr), FileCopies *)
(* (tar, cp, mv) and Editor (vi), and of Heap, Stdio and Calendar of the C   *)
(* library.  They share no state: one of them moves in a behaviour.         *)
EXTENDS Tty, Keyboard, Screen, Shell, Expressions, Calendar, FileCopies,
        Editor, Heap

VARIABLE part    \* the module that moves

\* A program waits for lines or for characters; every call is for one byte.
MCModes    == {{}, {"echo", "icanon", "isig"}}
MCRequests == {<<1, FALSE>>}
\* Names a, ab, aba and a. of files, and patterns of up to three parts.
MCNames == {<<"a">>, <<"a", "b">>, <<"a", "b", "a">>, <<"a", ".">>}
MCComps == {<<"a">>} \cup {<<x, y>> : x \in {"a", "*", "?"}, y \in {"?", "*"}}
             \cup {<<x, y, z>> : x \in {"*", "?"}, y \in {"*", "b"}, z \in {"a", "*"}}
\* The paths a and l are links to one file, and so are b and x; x is too long
\* for a header.
MCInode == [f \in TarFiles |-> IF f \in {"b", "x"} THEN 2 ELSE 1]

\* Expressions of two and of three operators, with and without parentheses, and
\* words that are no expression.
MCNumbers == {"0", "1", "2"}
MCExprs == {<<a, o, b, p, c>> : a \in MCNumbers \cup {"s"}, b, c \in MCNumbers, o, p \in Ops}
             \cup {<<"2", o, "(", "1", p, c, ")">> : c \in MCNumbers, o, p \in Ops}
             \cup {<<"(", "1", o, "2", ")", p, "2">> : o, p \in Ops}
             \cup {<<"2", o, "1", p, "2", q, "1">> : o, p, q \in Ops}
             \cup {<<"(", "1">>, <<"1", "+">>, <<"1", ")">>, <<"", "|", "2">>, <<>>}
\* Texts of two lines, and one line with a tab and without an end.
MCTexts == {<<"a", "nl", "a", "nl">>, <<"a", "tab">>}
\* Midnights and times between them of the years around 1970, around 2000 and
\* before 2038, where a time_t ends.
MCTimes == (0 .. 3001) \cup (20400 .. 25001) \cup (48000 .. 49709)
\* A file that is new, and one that a buffer does not hold.
MCOld == {<<>>, <<"a", "b", "a">>}

MCInit ==
  /\ part \in {"tty", "kbd", "screen", "sh", "env", "glob", "if", "expr", "time", "tar",
              "cp", "vi", "heap", "stdio"}
  /\ TtyInit /\ KbInit /\ ScrInit /\ ShInit /\ EnvInit /\ GlInit /\ IfInit /\ TarInit
  /\ HeapInit /\ SdInit /\ EdInit
  /\ part # "tty" => carrier
  /\ part # "stdio" => sdFile = <<>>
  /\ part # "tar" => ~tarDev
  /\ part # "vi" => edDisk = <<"a", "tab">>
  /\ CpInit /\ (part # "cp" => cpOrig = <<>> /\ cpName["dst"] = 0 /\ ~cpMv)
  /\ calTm = NoDate /\ calBack = -1 /\ IF part = "time" THEN calT \in CalTimes ELSE calT = 0
  /\ exOut = <<>> /\ IF part = "expr" THEN exArg \in ExWords ELSE exArg = <<>>
line    == <<kbVars, scrVars, shVars>>
words   == <<glVars, ifVars, exVars, calVars>>
store   == <<tarVars, cpVars, sdVars>>
memory  == <<envVars, heapVars>>
\* A stream that has lost what it buffered, an editor whose lineptr is wrong, and
\* an archive of which nothing is said any more are not followed further.
MCNext ==
  /\ UNCHANGED part
  /\ \/ part = "tty"    /\ TtyNext /\ UNCHANGED <<line, words, store, memory, edVars>>
     \/ part = "kbd"    /\ KbNext  /\ UNCHANGED <<ttyVars, scrVars, shVars, words, store, memory, edVars>>
     \/ part = "screen" /\ ScrNext /\ UNCHANGED <<ttyVars, kbVars, shVars, words, store, memory, edVars>>
     \/ part = "sh"     /\ ShNext  /\ UNCHANGED <<ttyVars, kbVars, scrVars, words, store, memory, edVars>>
     \/ part = "glob"   /\ GlNext  /\ UNCHANGED <<ttyVars, line, ifVars, exVars, calVars, store, memory, edVars>>
     \/ part = "if"     /\ IfNext  /\ UNCHANGED <<ttyVars, line, glVars, exVars, calVars, store, memory, edVars>>
     \/ part = "expr"   /\ ExMain  /\ UNCHANGED <<ttyVars, line, glVars, ifVars, calVars, store, memory, edVars>>
     \/ part = "time"   /\ CalNext /\ UNCHANGED <<ttyVars, line, glVars, ifVars, exVars, store, memory, edVars>>
     \/ part = "tar" /\ tarSure # "lost" /\ TarNext
        /\ UNCHANGED <<ttyVars, line, words, cpVars, sdVars, memory, edVars>>
     \/ part = "cp"     /\ CpNext  /\ UNCHANGED <<ttyVars, line, words, tarVars, sdVars, memory, edVars>>
     \/ /\ part = "stdio" /\ ~sdCut /\ ~sdSpoilt /\ SdNext
        /\ UNCHANGED <<ttyVars, line, words, tarVars, cpVars, memory, edVars>>
     \/ part = "env"    /\ EnvNext /\ UNCHANGED <<ttyVars, line, words, store, heapVars, edVars>>
     \/ part = "heap"   /\ HeapNext /\ UNCHANGED <<ttyVars, line, words, store, envVars, edVars>>
     \/ part = "vi" /\ ~edStale /\ EdNext /\ UNCHANGED <<ttyVars, line, words, store, memory>>
\* What the line buffer holds outside of the inplen bytes is overwritten before
\* it is read, as LineWhole shows: states that differ only in that are the same.
Begin == IF unread = NULL THEN 0 ELSE unread
Typed  == [i \in 0 .. MAX_CANON - 1 |->
             IF i \in Begin .. Begin + inplen - 1 THEN buf[i] ELSE none]
\* Indices of a ring are taken modulo BUF_SIZE: a ring that is turned is the same.
Turned(q) == <<q.cnt, (q.tail - q.head) % BUF_SIZE,
               [i \in 0 .. BUF_SIZE - 1 |-> q.buf[(q.head + i) % BUF_SIZE]]>>
\* The file below the editor is read again only after it was written, unless
\* the text is said to be the same.
Same   == IF edDirty \/ edQuiet THEN <<>> ELSE edDisk
\* What a run of tar knows ends with it, and a header with its file.
Run    == CASE tarPc = "idle"  -> <<>>
            [] tarPc = "store" -> <<tarPos, tarNodes>>
            [] OTHER           -> <<tarPos, tarNodes, tarHdr>>
\* The other parts are as they were: only the one that moves tells states apart.
View   == <<part,
            CASE part = "tty"    -> <<Turned(inq), Turned(outq), thr, thri, lflag, carrier, Typed,
                                      inplen, unread, call, tsig, fed, pend, edited>>
              [] part = "vi"     -> <<edBuf, edPlace, edDirty, edMode, edLine, edEnd, Same,
                                      edQuiet, edStale>>
              [] part = "tar"    -> <<tarSize, tarDev, tarArch, tarPc, tarList, tarSure, Run>>
              [] part = "kbd"    -> kbVars
              [] part = "screen" -> scrVars
              [] part = "sh"     -> shVars
              [] OTHER           -> <<words, store, memory>> >>

MCSpec == MCInit /\ [][MCNext]_<<part, ttyVars, line, words, store, memory, edVars>>

=============================================================================
