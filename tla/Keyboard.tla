------------------------------ MODULE Keyboard ------------------------------
(* The keyboard of the console: the interrupt handler pckbd_intr of          *)
(* kern/pckbd.c, which follows the shift keys and queues characters, and the *)
(* console's read routine con_cread of kern/dv/condev.c, which takes them.   *)
(* The queue is full when both indices are equal, which is also how it looks *)
(* when it is empty: one character too many forgets all that are waiting.    *)
(* A definition Mut... is a wrong form of the definition below it.           *)
EXTENDS Naturals, Sequences, SequencesExt

CONSTANTS
  PCKBD_BUFSIZE,   \* slots of the queue
  KeyCodes,        \* scan codes of the keyboard: see KeyChar
  MaxTyped         \* bound on the characters waiting, for TLC

ASSUME KeyboardAssumption ==
  /\ PCKBD_BUFSIZE \in Nat \ {0, 1}
  /\ KeyCodes \subseteq {"ctrl", "caps", "lshift", "rshift", "alt",
                         "c", "d", "space", "f1", "del"}

VARIABLES
  kbHeld,              \* the keys that are down (the world outside)
  pckbd_shift,         \* the shift state the driver believes in
  pckbd_buf, pckbd_inp, pckbd_outp,
  kbReader,            \* con_cread: idle, waiting, or past con_kbhit
  kbTyped,             \* history: queued and not yet read, oldest first
  kbLost               \* history: the queue overflowed since the key was seen

kbVars == <<kbHeld, pckbd_shift, pckbd_buf, pckbd_inp, pckbd_outp, kbReader,
            kbTyped, kbLost>>

----------------------------------------------------------------------------
(* pckbd_intr                                                               *)

\* The bit of pckbd_shift a scan code sets and clears, if any.
ShiftBit(k) == CASE k \in {"ctrl", "caps"}     -> {"CTRL"}
                 [] k \in {"lshift", "rshift"} -> {"SHIFT"}
                 [] k = "alt"                  -> {"ALT"}
                 [] OTHER                      -> {}

\* The three maps and the mask; <<>> is 0, "no character".  The maps have a
\* character for the same codes, and which one is left out; with CTRL only five
\* bits stay, so that a space becomes 0.
KeyChar(k, sh) ==
  IF \/ k = "f1" \/ ShiftBit(k) # {}
     \/ k = "space" /\ "CTRL" \in sh
    THEN <<>>
    ELSE <<k, "CTRL" \in sh>>

\* ttyld_intr: ^C is a signal, with ISIG as ttyld_init leaves it.
KeySignal(c) == c[1] = "c" /\ c[2]

KeySlot(i) == (i + 1) % PCKBD_BUFSIZE

\* pckbd_put stores first and looks at the indices after.
MutPckbdPut(c) ==
  /\ pckbd_buf' = [pckbd_buf EXCEPT ![pckbd_inp] = c]
  /\ pckbd_inp' = pckbd_inp + 1
  /\ kbTyped' = Append(kbTyped, c) /\ kbLost' = kbLost
PckbdPut(c) ==
  /\ pckbd_buf' = [pckbd_buf EXCEPT ![pckbd_inp] = c]
  /\ pckbd_inp' = KeySlot(pckbd_inp)
  /\ kbTyped' = IF pckbd_inp' = pckbd_outp THEN <<>> ELSE Append(kbTyped, c)
  /\ kbLost' = (kbLost \/ pckbd_inp' = pckbd_outp)

NoKey == UNCHANGED <<pckbd_buf, pckbd_inp, kbTyped, kbLost>>

\* CTRL, ALT and DEL: pckbd_reset, and the machine starts again.
KbReset ==
  /\ "del" \in KeyCodes \ kbHeld /\ {"CTRL", "ALT"} \subseteq pckbd_shift
  /\ kbHeld' = kbHeld \cup {"del"}
  /\ pckbd_shift' = {} /\ pckbd_buf' = [i \in DOMAIN pckbd_buf |-> <<>>]
  /\ pckbd_inp' = 0 /\ pckbd_outp' = 0 /\ kbReader' = "user"
  /\ kbTyped' = <<>> /\ kbLost' = FALSE

KeyDown(k) ==
  /\ k = "del" => ~({"CTRL", "ALT"} \subseteq pckbd_shift)
  /\ k \notin kbHeld /\ Len(kbTyped) < MaxTyped
  /\ kbHeld' = kbHeld \cup {k}
  /\ pckbd_shift' = pckbd_shift \cup ShiftBit(k)
  /\ LET c == KeyChar(k, pckbd_shift')
         debug == k = "d" /\ pckbd_shift' = {"ALT"}
     IN IF debug \/ c = <<>> \/ KeySignal(c) THEN NoKey ELSE PckbdPut(c)
  /\ UNCHANGED <<pckbd_outp, kbReader>>

\* A release: the bit goes although the other key of the pair may be down.
MutReleased(k) == pckbd_shift
Released(k)    == pckbd_shift \ ShiftBit(k)

KeyUp(k) ==
  /\ k \in kbHeld
  /\ kbHeld' = kbHeld \ {k}
  /\ pckbd_shift' = Released(k)
  /\ UNCHANGED <<pckbd_buf, pckbd_inp, pckbd_outp, kbReader, kbTyped, kbLost>>

----------------------------------------------------------------------------
(* con_cread, of one process; interrupts come between its steps.            *)

con_kbhit == pckbd_inp # pckbd_outp

KbCall ==
  /\ kbReader = "user"
  /\ kbReader' = "wait"
  /\ UNCHANGED <<kbHeld, pckbd_shift, pckbd_buf, pckbd_inp, pckbd_outp,
                 kbTyped, kbLost>>

\* O_NDELAY and signals end a call that found nothing.
KbGivesUp ==
  /\ kbReader = "wait" /\ ~con_kbhit
  /\ kbReader' = "user"
  /\ UNCHANGED <<kbHeld, pckbd_shift, pckbd_buf, pckbd_inp, pckbd_outp,
                 kbTyped, kbLost>>

KbSeen ==
  /\ kbReader = "wait" /\ con_kbhit
  /\ kbReader' = "getch" /\ kbLost' = FALSE
  /\ UNCHANGED <<kbHeld, pckbd_shift, pckbd_buf, pckbd_inp, pckbd_outp,
                 kbTyped>>

\* con_getch looks again, and spins in the kernel until it sees a character.
\* (The code leaves the character in its slot, where nothing reads it.)
KbGetch ==
  /\ kbReader = "getch" /\ con_kbhit
  /\ pckbd_outp' = KeySlot(pckbd_outp)
  /\ pckbd_buf' = [pckbd_buf EXCEPT ![pckbd_outp] = <<>>]
  /\ kbReader' = "user"
  /\ kbTyped' = Tail(kbTyped)
  /\ UNCHANGED <<kbHeld, pckbd_shift, pckbd_inp, kbLost>>

KbInit ==
  /\ kbHeld = {} /\ pckbd_shift = {}
  /\ pckbd_buf = [i \in 0 .. PCKBD_BUFSIZE - 1 |-> <<>>]
  /\ pckbd_inp = 0 /\ pckbd_outp = 0
  /\ kbReader = "user"
  /\ kbTyped = <<>> /\ kbLost = FALSE

KbNext == \/ \E k \in KeyCodes : KeyDown(k) \/ KeyUp(k)
          \/ KbReset \/ KbCall \/ KbGivesUp \/ KbSeen \/ KbGetch

----------------------------------------------------------------------------
(* Properties.                                                              *)

\* The queue holds the characters typed since it was last empty or overflowed,
\* in order, and never a zero, for which con_getch would wait for ever.
KeysQueued ==
  LET n == (pckbd_inp + PCKBD_BUFSIZE - pckbd_outp) % PCKBD_BUFSIZE
  IN /\ kbTyped = [i \in 1 .. n |-> pckbd_buf[(pckbd_outp + i - 1) % PCKBD_BUFSIZE]]
     /\ <<>> \notin Range(kbTyped)

\* A reader that has seen a character finds it when it comes back for it: only
\* an overflow between the two looks leaves it spinning in the kernel.
GetchFinds == kbReader = "getch" /\ ~kbLost => con_kbhit

\* No shift key is stuck: a bit that is set has its key held down.
NoStuckShift == \A b \in pckbd_shift : \E k \in kbHeld : b \in ShiftBit(k)

\* What is typed reaches the reader of the console, as it was typed.
KeysExact == KeysQueued /\ GetchFinds /\ NoStuckShift
=============================================================================
