-------------------------------- MODULE Mail --------------------------------
(* cmd/bin/mail.c on one mailbox of the spool directory: messages are         *)
(* appended under a lock file, read without it and deleted by a rewrite of    *)
(* the mailbox under it.  A message is two pieces, as it is written with more *)
(* than one write: its From line with what follows, and its end.              *)
(* A definition Mut... is a wrong form of the definition below it.            *)
EXTENDS Integers, FiniteSets, Sequences

CONSTANTS
  MlSenders,   \* runs of mail that send one message each
  MlReaders,   \* runs of mail that read the mailbox
  MAXMSG

ASSUME MailAssumption == MAXMSG \in Nat \ {0} /\ "free" \notin MlSenders \cup MlReaders

VARIABLES
  mlBox,       \* the pieces in the mailbox
  mlTmp,       \* those in the .tmp file of an update
  mlLock,      \* who made the .lck file, or free
  mlPc,        \* where every run is
  mlOff,       \* msgoff of the readers: first pieces, and the end
  mlDel,       \* msgdel of the readers
  mlOld,       \* history: the mailbox was rewritten since the reader's load
  mlSent,      \* history: messages delivered to their end
  mlGone,      \* history: messages some reader deleted
  mlHurt       \* history: an update failed, used an old load or too short a table

mlVars == <<mlBox, mlTmp, mlLock, mlPc, mlOff, mlDel, mlOld, mlSent, mlGone, mlHurt>>

free == "free"
Piece(m, k)   == <<m, k>>
Msgs(box)     == {box[i][1] : i \in DOMAIN box}
\* A message that is there from its beginning to its end.
IsWhole(box, m) == \E i \in 1 .. Len(box) - 1 : box[i] = Piece(m, 1) /\ box[i + 1] = Piece(m, 2)
Move(p, l)    == mlPc' = [mlPc EXCEPT ![p] = l]

-----------------------------------------------------------------------------
\* lock: made with O_EXCL, tried again every second for as long as it is there.
MutLockable == TRUE
Lockable    == mlLock = free

\* send1: the recipient's mailbox is locked and appended to.
SendLock(m) ==
  /\ mlPc[m] = "start" /\ Lockable
  /\ mlLock' = m /\ Move(m, "first")
  /\ UNCHANGED <<mlBox, mlTmp, mlOff, mlDel, mlOld, mlSent, mlGone, mlHurt>>

SendPiece(m) ==
  /\ \/ /\ mlPc[m] = "first"
        /\ mlBox' = Append(mlBox, Piece(m, 1)) /\ Move(m, "second") /\ UNCHANGED mlSent
     \/ /\ mlPc[m] = "second"
        /\ mlBox' = Append(mlBox, Piece(m, 2)) /\ Move(m, "unlock") /\ mlSent' = mlSent \cup {m}
     \/ /\ mlPc[m] \in {"first", "second"}                            \* xwrite fails
        /\ Move(m, "unlock") /\ UNCHANGED <<mlBox, mlSent>>
  /\ UNCHANGED <<mlTmp, mlLock, mlOff, mlDel, mlOld, mlGone, mlHurt>>

Unlocked == mlLock' = free

SendUnlock(m) ==
  /\ mlPc[m] = "unlock" /\ Unlocked /\ Move(m, "done")
  /\ UNCHANGED <<mlBox, mlTmp, mlOff, mlDel, mlOld, mlSent, mlGone, mlHurt>>

-----------------------------------------------------------------------------
\* load: a line that begins with "From " begins a message; such a line begins
\* behind whole lines only.  It stops after the line that is one too many.
\* The mailbox's beginning begins one whatever stands there.
Begins(box) == {i \in DOMAIN box : i = 1 \/ (box[i][2] = 1 /\ box[i - 1][2] = 2)}
Nth(S, n)   == CHOOSE i \in S : Cardinality({j \in S : j <= i}) = n
Load(r) ==
  /\ mlPc[r] = "start"
  /\ LET B == Begins(mlBox)
         n == Cardinality(B)
     IN mlOff' = [mlOff EXCEPT ![r] =
          IF mlBox = <<>> THEN <<>>
          ELSE IF n <= MAXMSG + 1
               THEN Append([i \in 1 .. n |-> Nth(B, i)], Len(mlBox) + 1)
               ELSE Append([i \in 1 .. MAXMSG + 1 |-> Nth(B, i)], Nth(B, MAXMSG + 2) + 1)]
  /\ Move(r, IF mlBox = <<>> THEN "done" ELSE "rmail")
  /\ mlOld' = [mlOld EXCEPT ![r] = FALSE]
  /\ UNCHANGED <<mlBox, mlTmp, mlLock, mlDel, mlSent, mlGone, mlHurt>>

\* rmail: d, or s once the message is in another file; q and the end of the
\* messages or of the input update, x does not.
Shown(r) == 1 .. Len(mlOff[r]) - 1
Rmail(r) ==
  /\ mlPc[r] = "rmail"
  /\ \/ \E i \in Shown(r) \ mlDel[r] : mlDel' = [mlDel EXCEPT ![r] = @ \cup {i}] /\ UNCHANGED mlPc
     \/ mlDel[r] # {} /\ Move(r, "update") /\ UNCHANGED mlDel
     \/ Move(r, "done") /\ UNCHANGED mlDel
  /\ UNCHANGED <<mlBox, mlTmp, mlLock, mlOff, mlOld, mlSent, mlGone, mlHurt>>

\* update: with the lock, what is kept and what has come since the load goes to
\* the .tmp file; a mailbox that is shorter than the offsets ends it.
\* msgoff has MAXMSG + 1 entries and msgdel MAXMSG: from MAXMSG + 1 messages on,
\* load writes the end behind msgoff, over another variable, and what is behind
\* msgdel is taken for the last message's mark.
Over(r)     == Len(mlOff[r]) > MAXMSG + 1
Cut(a, b)   == SubSeq(mlBox, a, IF b > Len(mlBox) THEN Len(mlBox) ELSE b)
Span(r, i)  == Cut(mlOff[r][i], mlOff[r][i + 1] - 1)
Keep(r, del) ==
  LET kept[i \in 0 .. Len(mlOff[r]) - 1] ==
        IF i = 0 THEN <<>> ELSE kept[i - 1] \o (IF i \in del THEN <<>> ELSE Span(r, i))
  IN  kept[Len(mlOff[r]) - 1]
EndOff(r)   == mlOff[r][Len(mlOff[r])]
MutRest(r, end) == <<>>
Rest(r, end) == SubSeq(mlBox, end, Len(mlBox))

UpdLock(r) ==
  /\ mlPc[r] = "update" /\ Lockable
  /\ mlLock' = r /\ Move(r, "copy")
  /\ UNCHANGED <<mlBox, mlTmp, mlOff, mlDel, mlOld, mlSent, mlGone, mlHurt>>

Short(r) == \E i \in Shown(r) \ mlDel[r] : mlOff[r][i + 1] - 1 > Len(mlBox)
\* With a table that was too short the marks and the end are whatever is there:
\* any messages count as deleted, the end may be the mark 1, an offset within
\* the first piece, and the file that is rewritten may be another.
UpdCopy(r) ==
  /\ mlPc[r] = "copy"
  /\ \/ /\ Short(r) \/ Over(r)
        /\ Move(r, "unlock") /\ mlTmp' = <<>> /\ UNCHANGED <<mlGone, mlHurt>>
     \/ /\ ~Short(r)
        /\ \E del \in IF Over(r) THEN SUBSET Shown(r) ELSE {mlDel[r]},
              end \in IF Over(r) THEN {EndOff(r), 2} ELSE {EndOff(r)} :
             mlTmp' = Keep(r, del) \o Rest(r, end)
        /\ mlGone' = mlGone \cup {m \in Msgs(mlBox) :
                         \E i \in mlDel[r] : \E j \in DOMAIN Span(r, i) : Span(r, i)[j] = Piece(m, 1)}
        /\ mlHurt' = (mlHurt \/ mlOld[r] \/ Over(r))
        /\ Move(r, "truncate")
  /\ UNCHANGED <<mlBox, mlLock, mlOff, mlDel, mlOld, mlSent>>

\* The mailbox is emptied and filled from the .tmp file.
UpdTruncate(r) ==
  /\ mlPc[r] = "truncate"
  /\ mlBox' = <<>> /\ Move(r, "fill")
  /\ mlOld' = [s \in MlReaders |-> s # r]
  /\ UNCHANGED <<mlTmp, mlLock, mlOff, mlDel, mlSent, mlGone, mlHurt>>

UpdFill(r) ==
  /\ mlPc[r] = "fill"
  /\ \/ mlBox' = mlTmp /\ mlTmp' = <<>> /\ UNCHANGED mlHurt
     \/ \E n \in 0 .. Len(mlTmp) : mlBox' = SubSeq(mlTmp, 1, n) /\ mlHurt' = TRUE /\ UNCHANGED mlTmp
  /\ Move(r, "unlock")
  /\ UNCHANGED <<mlLock, mlOff, mlDel, mlOld, mlSent, mlGone>>

UpdUnlock(r) ==
  /\ mlPc[r] = "unlock" /\ Unlocked /\ Move(r, "done")
  /\ UNCHANGED <<mlBox, mlTmp, mlOff, mlDel, mlOld, mlSent, mlGone, mlHurt>>

\* A run is killed, or the system goes down: its lock file stays.
MlKilled(p) ==
  /\ mlPc[p] # "done" /\ Move(p, "done")
  /\ UNCHANGED <<mlBox, mlTmp, mlLock, mlOff, mlDel, mlOld, mlSent, mlGone, mlHurt>>

-----------------------------------------------------------------------------
MlRuns == MlSenders \cup MlReaders
\* The mailbox is empty, or one of the messages came before.
MlInit ==
  /\ \/ mlBox = <<>> /\ mlSent = {}
     \/ \E m \in MlSenders : mlBox = <<Piece(m, 1), Piece(m, 2)>> /\ mlSent = {m}
  /\ mlTmp = <<>> /\ mlLock = free
  /\ mlPc = [p \in MlRuns |-> IF p \in mlSent THEN "done" ELSE "start"]
  /\ mlOff = [r \in MlReaders |-> <<>>] /\ mlDel = [r \in MlReaders |-> {}]
  /\ mlOld = [r \in MlReaders |-> FALSE]
  /\ mlGone = {} /\ mlHurt = FALSE

MlNext ==
  \/ \E m \in MlSenders : SendLock(m) \/ SendPiece(m) \/ SendUnlock(m)
  \/ \E r \in MlReaders : \/ Load(r) \/ Rmail(r) \/ UpdLock(r) \/ UpdCopy(r)
                          \/ UpdTruncate(r) \/ UpdFill(r) \/ UpdUnlock(r)
  \/ \E p \in MlRuns : MlKilled(p)

-----------------------------------------------------------------------------
\* A message that was delivered as a whole is in the mailbox, or in the .tmp file
\* of the update that rewrites it, until a reader deletes it: mail that comes in
\* while the mailbox is read is not lost, nor is it when a run is killed.  The
\* exceptions are an update that could not write, one whose reader loaded the
\* mailbox before somebody else rewrote it, and one whose reader found more than
\* MAXMSG messages, which its tables do not hold.
MailKept ==
  ~mlHurt => \A m \in mlSent : m \in mlGone \/ IsWhole(mlBox, m) \/ IsWhole(mlTmp, m)
=============================================================================
