----------------------------- MODULE FileStore -----------------------------
(* What the kernel promises of plain files: a file is a sequence of words   *)
(* of its own, where nobody has written it reads as zero, and neither what  *)
(* is written to another file nor what a deleted file held shows in it.     *)
EXTENDS Integers

CONSTANTS
  Files,
  Words,   \* what a word of a file may hold, 0 among them
  Limit    \* words of the longest file

VARIABLES
  exists, size,
  text   \* the words of each file, 0 past its end

svars == <<exists, size, text>>

Empty == [p \in 0 .. Limit - 1 |-> 0]

\* A file is made or emptied.
Clear(f) ==
  /\ exists' = [exists EXCEPT ![f] = TRUE]
  /\ size' = [size EXCEPT ![f] = 0]
  /\ text' = [text EXCEPT ![f] = Empty]

Remove(f) ==
  /\ exists' = [exists EXCEPT ![f] = FALSE]
  /\ size' = [size EXCEPT ![f] = 0]
  /\ text' = [text EXCEPT ![f] = Empty]

\* A write first moves the end of the file.
Extend(f) ==
  /\ exists[f]
  /\ \E n \in size[f] .. Limit : size' = [size EXCEPT ![f] = n]
  /\ UNCHANGED <<exists, text>>

\* Words before the end get a new value, the others keep theirs.
Write(f) ==
  /\ exists[f]
  /\ \E w \in Words : \A p \in 0 .. Limit - 1 :
       text'[f][p] = text[f][p] \/ (p < size[f] /\ text'[f][p] = w)
  /\ \A g \in Files \ {f} : text'[g] = text[g]
  /\ UNCHANGED <<exists, size>>

SInit == /\ exists = [f \in Files |-> FALSE]
         /\ size = [f \in Files |-> 0]
         /\ text = [f \in Files |-> Empty]
SNext == \E f \in Files : Clear(f) \/ Remove(f) \/ Extend(f) \/ Write(f)
SSpec == SInit /\ [][SNext]_svars
=============================================================================
