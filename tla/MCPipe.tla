------------------------------ MODULE MCPipe ------------------------------
(* Model-checking instances of Pipe and of OpenFiles, the calls that open,  *)
(* share and close files of other kinds; they share no state, and one of    *)
(* them moves in a behaviour.  The processes of Pipe are interchangeable,   *)
(* and so are the slots of file[] in OpenFiles.                             *)
EXTENDS Pipe, OpenFiles, TLC

VARIABLE part    \* the module that moves

Symmetry == Permutations(Procs) \cup Permutations(OfFiles)

MCInit == part \in {"pipe", "files"} /\ Init /\ OfInit
MCNext ==
  /\ UNCHANGED part
  /\ \/ part = "pipe" /\ Next /\ UNCHANGED ofVars
     \/ part = "files" /\ OfNext /\ UNCHANGED vars
MCSpec == MCInit /\ [][MCNext]_<<part, vars, ofVars>>

\* What is in the ring outside of the pipe_datlen bytes from pipe_rdp on is
\* overwritten before it is read, as RingExact shows: states that differ only
\* in that are the same.
\* Nothing is claimed of files, or followed, once ofWild is TRUE.
View == <<part, IF part = "files" THEN IF ofWild THEN <<ofWild>> ELSE ofVars
                ELSE <<Content, pipe_rdp, pipe_wrp, pipe_datlen, pipe_readers,
                       pipe_writers, irefs, leaked, named, filev, fds, call, sig>> >>
=============================================================================
