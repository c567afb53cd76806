------------------------------- MODULE Screen -------------------------------
(* The console's screen: cursor, scrolling and kernel log of                 *)
(* kern/console.c, and the escape sequences of con_cwrite in                 *)
(* kern/dv/condev.c.  A program may send the cursor anywhere, off the screen *)
(* too.  Colours are left out but for the three flags that select them, and  *)
(* "x" stands for every character that shows.  With Keyboard, this is all of *)
(* the console.                                                              *)
(* A definition Mut... is a wrong form of the definition below it.           *)
EXTENDS Keyboard, Integers, Sequences

CONSTANTS
  PCCON_NCOL, PCCON_NLIN,   \* 80 and 25 in the code
  TabStop,                  \* 8 in the code
  Coords,                   \* bytes that follow ESC p and ESC P
  Styles,                   \* of the flags "inv", "und", "bold"
  DmesgSize,                \* bytes of the log, 4096 in the code
  MaxLog                    \* bound on the messages logged, for TLC

ASSUME ScreenAssumption ==
  /\ {PCCON_NCOL, PCCON_NLIN, TabStop} \subseteq Nat \ {0} /\ DmesgSize \in Nat \ {0, 1}
  /\ PCCON_NCOL % TabStop = 0 /\ Coords \subseteq Nat

VARIABLES
  scr,       \* con_x, con_y and the frame buffer con_fbuf
  ctrl,      \* how far con_cwrite is in an escape sequence
  style,     \* cd_inv, cd_und, cd_bold
  dmesg, dmesgi,
  logged,    \* history: every character logged
  dmesgOut,  \* what the last call of sys__dmesg copied out
  landed     \* history: where the character just printed went, or <<>>

scrVars == <<scr, ctrl, style, dmesg, dmesgi, logged, dmesgOut, landed>>

Cells == 0 .. PCCON_NCOL * PCCON_NLIN - 1
Blank == [i \in Cells |-> " "]

----------------------------------------------------------------------------
(* con_putca                                                                *)

con_clear == [x |-> 0, y |-> 0, fb |-> Blank]

con_chrxy(s, ch) ==
  LET i == s.x + s.y * PCCON_NCOL
  IN IF i \in Cells THEN [s EXCEPT !.fb[i] = ch] ELSE s

\* con_cscroll: the lines move up until the cursor is on the last one.
MutConCscroll(s) ==
  LET n == IF s.y > PCCON_NLIN THEN s.y - PCCON_NLIN ELSE 0
      from(i) == i + n * PCCON_NCOL
  IN [s EXCEPT !.y = @ - n,
               !.fb = [i \in Cells |-> IF from(i) \in Cells THEN s.fb[from(i)] ELSE " "]]
ConCscroll(s) ==
  LET n == IF s.y >= PCCON_NLIN THEN s.y - PCCON_NLIN + 1 ELSE 0
      from(i) == i + n * PCCON_NCOL
  IN [s EXCEPT !.y = @ - n,
               !.fb = [i \in Cells |-> IF from(i) \in Cells THEN s.fb[from(i)] ELSE " "]]

\* A character that shows: the line wraps before it, not after.
Graphic(s, ch) ==
  LET w == ConCscroll(IF s.x >= PCCON_NCOL THEN [s EXCEPT !.x = 0, !.y = @ + 1] ELSE s)
  IN [con_chrxy(w, ch) EXCEPT !.x = @ + 1]

\* A tab is one space, and more up to the next stop, which is on the same line.
Tabbed(s) ==
  LET t    == Graphic(s, " ")
      stop == ((t.x + TabStop - 1) \div TabStop) * TabStop
      at   == t.y * PCCON_NCOL
  IN [t EXCEPT !.x = stop,
               !.fb = [i \in Cells |-> IF i \in at + t.x .. at + stop - 1 THEN " " ELSE t.fb[i]]]

con_putca(s, ch) ==
  CASE ch = "ff"  -> con_clear
    [] ch = "cr"  -> [s EXCEPT !.x = 0]
    [] ch = "nl"  -> ConCscroll([s EXCEPT !.x = 0, !.y = @ + 1])
    [] ch = "bs"  -> IF s.x > 0 THEN [s EXCEPT !.x = @ - 1] ELSE s
    [] ch = "tab" -> Tabbed(s)
    [] ch = "bel" -> s
    [] OTHER      -> Graphic(s, ch)

Shows(ch) == ch \notin {"ff", "cr", "nl", "bs", "tab", "bel"}
Printed(s, ch) == /\ scr' = con_putca(s, ch)
                  /\ landed' = IF Shows(ch) THEN <<scr'.x, scr'.y, ch>> ELSE <<>>

----------------------------------------------------------------------------
(* con_cwrite: one character of a write or an echo.                          *)

Plain == {"x", "cr", "nl", "bs", "tab", "ff", "bel"}
quiet == UNCHANGED <<style, dmesg, dmesgi, logged, dmesgOut>>

ScrChar(ch) ==
  /\ ctrl = 0 /\ Printed(scr, ch)
  /\ UNCHANGED ctrl /\ quiet

Escape ==
  /\ ctrl = 0 /\ ctrl' = 1 /\ landed' = <<>>
  /\ UNCHANGED scr /\ quiet

\* con_clreol writes to the end of the cursor's line; below the screen it
\* writes behind the frame buffer, which is not part of the model.
ClrEol(s) ==
  [s EXCEPT !.fb = [i \in Cells |->
     IF i \in s.y * PCCON_NCOL + s.x .. s.y * PCCON_NCOL + PCCON_NCOL - 1
       THEN " " ELSE s.fb[i]]]

\* The second character of a sequence.  'u' and 'd' move the lines and leave
\* the last or the first one doubled.
EscCommand(ch) ==
  /\ ctrl = 1 /\ landed' = <<>>
  /\ ctrl' = CASE ch = "p" -> 2 [] ch = "P" -> 4 [] OTHER -> 0
  /\ scr' = CASE ch = "u" -> [scr EXCEPT !.fb = [i \in Cells |->
                     IF i + PCCON_NCOL \in Cells THEN @[i + PCCON_NCOL] ELSE @[i]]]
              [] ch = "d" -> [scr EXCEPT !.fb = [i \in Cells |->
                     IF i >= PCCON_NCOL THEN @[i - PCCON_NCOL] ELSE @[i]]]
              [] ch = "h" -> [scr EXCEPT !.x = 0, !.y = 0]
              [] ch = "U" -> IF scr.y > 0 THEN [scr EXCEPT !.y = @ - 1] ELSE scr
              [] ch = "C" -> ClrEol(scr)
              [] OTHER    -> scr
  /\ UNCHANGED <<style, dmesg, dmesgi, logged, dmesgOut>>

\* ESC i I n N b B set and clear a flag.
EscStyle(f, on) ==
  /\ ctrl = 1 /\ ctrl' = 0 /\ landed' = <<>>
  /\ style' = IF on THEN style \cup {f} ELSE style \ {f}
  /\ UNCHANGED <<scr, dmesg, dmesgi, logged, dmesgOut>>

\* Any other character after an escape: both are printed.
EscUnknown(ch) ==
  /\ ctrl = 1 /\ ctrl' = 0
  /\ Printed(con_putca(scr, "x"), ch)
  /\ quiet

\* ESC p x y and ESC P y x: the coordinates are any bytes.
EscCoord(v) ==
  /\ ctrl \in 2 .. 5 /\ landed' = <<>>
  /\ ctrl' = IF ctrl \in {2, 4} THEN ctrl + 1 ELSE 0
  /\ scr' = IF ctrl \in {2, 5} THEN [scr EXCEPT !.x = v] ELSE [scr EXCEPT !.y = v]
  /\ quiet

----------------------------------------------------------------------------
(* The kernel's messages.                                                    *)

\* con_putk, called by printf, takes no notice of ctrl.
ConPutk(ch) ==
  /\ Len(logged) < MaxLog
  /\ dmesg' = [dmesg EXCEPT ![dmesgi] = ch]
  /\ dmesgi' = (dmesgi + 1) % DmesgSize
  /\ logged' = Append(logged, ch)
  /\ Printed(scr, ch)
  /\ UNCHANGED <<ctrl, style, dmesgOut>>

\* sys__dmesg begins one slot after the oldest and skips what is empty.
MutDmesgFrom == dmesgi
DmesgFrom    == (dmesgi + 1) % DmesgSize
SysDmesg ==
  LET n     == (dmesgi + DmesgSize - DmesgFrom) % DmesgSize
      turns == IF n = 0 THEN DmesgSize ELSE n
      out[i \in 0 .. turns] ==
        IF i = 0 THEN <<>>
        ELSE LET ch == dmesg[(DmesgFrom + i - 1) % DmesgSize]
             IN  IF ch = "" THEN out[i - 1] ELSE Append(out[i - 1], ch)
  IN /\ dmesgOut' = <<out[turns], Len(logged)>>
     /\ landed' = <<>>
     /\ UNCHANGED <<scr, ctrl, style, dmesg, dmesgi, logged>>

ScrInit ==
  /\ scr = con_clear /\ ctrl = 0 /\ style = {}
  /\ dmesg = [i \in 0 .. DmesgSize - 1 |-> ""] /\ dmesgi = 0
  /\ logged = <<>> /\ dmesgOut = <<<<>>, 0>> /\ landed = <<>>

ScrNext ==
  \/ \E ch \in Plain : ScrChar(ch) \/ EscUnknown(ch)
  \/ Escape
  \/ \E ch \in {"u", "d", "p", "P", "h", "U", "C"} : EscCommand(ch)
  \/ \E f \in Styles, on \in BOOLEAN : EscStyle(f, on)
  \/ \E v \in Coords : EscCoord(v)
  \/ \E ch \in {"x", "nl"} : ConPutk(ch)
  \/ SysDmesg

----------------------------------------------------------------------------
(* Properties.                                                              *)

\* Wherever a program has sent the cursor, a character that is printed is on
\* the screen, right before the cursor.
PrintLands ==
  landed # <<>> =>
    /\ landed[1] \in 1 .. PCCON_NCOL /\ landed[2] \in 0 .. PCCON_NLIN - 1
    /\ scr.fb[landed[1] - 1 + landed[2] * PCCON_NCOL] = landed[3]

\* sys__dmesg returns the last messages, in order: all that were logged, up to
\* the size of the log less one.
DmesgTail ==
  LET upto == SubSeq(logged, 1, dmesgOut[2])
      n == Len(upto)
  IN dmesgOut[1] = SubSeq(upto, IF n < DmesgSize THEN 1 ELSE n - DmesgSize + 2, n)

\* What is printed is on the screen, and the end of it in the log.
ScreenExact == PrintLands /\ DmesgTail

\* What is typed arrives, and what is printed is on the screen: the keyboard's
\* queue keeps the keys in order (pckbd.c, pckbd_put), and the console shows
\* each character where it was printed (condev.c).
ConsoleExact == KeysExact /\ ScreenExact
=============================================================================
