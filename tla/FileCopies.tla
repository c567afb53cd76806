----------------------------- MODULE FileCopies -----------------------------
(* cmd/bin/tar.c: archives made, added to and read back.  An archive is a     *)
(* sequence of blocks: headers, data and zeroes.  Sizes count half blocks, so *)
(* that the last block of a file is often filled up.  It is a regular file or *)
(* a device, which has a fixed length and is never emptied; both are written  *)
(* by whole blocks.                                                           *)
(* With Stdio, this is all that the programs put into files.                  *)
(* A definition Mut... is a wrong form of the definition below it.            *)
EXTENDS Stdio, FiniteSets

CONSTANTS
  TarFiles,    \* paths of regular files
  TarInode,    \* the inode of each path
  TarLong,     \* the paths that a header has no room for
  TarSizes,    \* sizes of files, in half blocks
  TarMax       \* blocks of a device; bound on those of a file, for TLC

ASSUME TarAssumption ==
  /\ TarSizes \subseteq Nat /\ TarMax \in Nat
  /\ TarFiles \cap {"", "idle", "store"} = {}

VARIABLES
  tarSize,     \* the sizes of the files, by inode
  tarDev,      \* the archive is a device
  tarArch,     \* the archive
  tarPos,      \* the block the next write goes to
  tarPc,       \* "idle", "store", or the file whose header is made
  tarHdr,      \* the header made from stat
  tarNodes,    \* namenodes: inodes stored by this run, with a path
  tarList,     \* history: what was stored: path and size
  tarSure      \* history: what the archive is said to hold, see below

tarVars == <<tarSize, tarDev, tarArch, tarPos, tarPc, tarHdr, tarNodes, tarList, tarSure>>

\* tarSure is "exact" while the members of tarList are all there is, "prefix"
\* once there may be more behind them: a part of a member, one whose header does
\* not fit its data, old blocks of a device; and "lost" when such an archive was
\* added to, as append finds its place behind whatever it takes for headers.
Loosened == IF tarSure = "exact" THEN "prefix" ELSE tarSure
\* The run stops where no member is cut.
Stopped  == IF tarDev THEN Loosened ELSE tarSure

Zero         == [kind |-> "zero", path |-> "", size |-> 0]
DataOf(f)    == [kind |-> "data", path |-> f, size |-> 0]
SizeOf(f)    == tarSize[TarInode[f]]
\* init_head gives up on a path that is too long and leaves the header empty.
Header(f, n) == [kind |-> "head", path |-> f, size |-> n]
InitHead(f)  == IF f \in TarLong THEN Zero ELSE Header(f, SizeOf(f))

\* (size + 511) & ~511, in blocks
Blocks(n) == (n + 1) \div 2

\* write() of the blocks s at the block p of the archive; a gap reads as zeroes.
TarWritten(p, s) ==
  [i \in 1 .. (IF p - 1 + Len(s) > Len(tarArch) THEN p - 1 + Len(s) ELSE Len(tarArch)) |->
     IF i >= p /\ i < p + Len(s) THEN s[i - p + 1]
     ELSE IF i <= Len(tarArch) THEN tarArch[i] ELSE Zero]
\* The first n blocks of s are written, as many as are left on a device.
PutBlocks(s, n) ==
  /\ n \in 0 .. Len(s) /\ (tarDev => n = 0 \/ tarPos + n <= Len(tarArch) + 1)
  /\ tarArch' = IF n = 0 THEN tarArch ELSE TarWritten(tarPos, SubSeq(s, 1, n))
  /\ tarPos' = tarPos + n

\* append: over the headers to the first block without a path, or to the end.
TarEnds(p) == p > Len(tarArch) \/ tarArch[p].path = ""
Past(p) == p + 1 + Blocks(tarArch[p].size)
EndOf   == LET end[p \in Nat \ {0}] == IF TarEnds(p) THEN p ELSE end[Past(p)] IN end[1]

-----------------------------------------------------------------------------
\* O_TRUNC does nothing to a device.
Create ==
  /\ tarPc = "idle"
  /\ tarArch' = IF tarDev THEN tarArch ELSE <<>>
  /\ tarPos' = 1 /\ tarList' = <<>> /\ tarNodes' = {}
  /\ tarPc' = "store" /\ tarSure' = "exact"
  /\ UNCHANGED <<tarSize, tarDev, tarHdr>>

MutAppendAt == Len(tarArch) + 1
AppendAt    == EndOf
TarAppend ==
  /\ tarPc = "idle"
  /\ tarPos' = AppendAt /\ tarNodes' = {}
  /\ tarPc' = "store" /\ tarSure' = IF tarSure = "exact" THEN "exact" ELSE "lost"
  /\ UNCHANGED <<tarSize, tarDev, tarArch, tarHdr, tarList>>

\* store1: stat and init_head.  A second name of a file this run has stored
\* gets a header that is never written.
Store1(f) ==
  /\ tarPc = "store" /\ (tarPos < TarMax \/ tarDev)
  /\ IF TarInode[f] \in tarNodes
     THEN UNCHANGED <<tarPc, tarHdr, tarNodes>>
     ELSE /\ tarHdr' = InitHead(f) /\ tarPc' = f
          /\ tarNodes' = IF \E g \in TarFiles \ {f} : TarInode[g] = TarInode[f]
                         THEN tarNodes \cup {TarInode[f]} ELSE tarNodes
  /\ UNCHANGED <<tarSize, tarDev, tarArch, tarPos, tarList, tarSure>>

\* sreg: the header, then all the file has by now.
Member(f) == <<tarHdr>> \o [i \in 1 .. Blocks(SizeOf(f)) |-> DataOf(f)]
SregWhole(f) ==
  /\ PutBlocks(Member(f), Len(Member(f))) /\ tarPc' = "store"
  /\ IF tarSure = "exact" /\ tarHdr = Header(f, SizeOf(f))
     THEN tarList' = Append(tarList, <<f, SizeOf(f)>>) /\ UNCHANGED tarSure
     ELSE tarSure' = Loosened /\ UNCHANGED tarList
\* A read fails, and the run goes on.
SregRead(f) ==
  /\ \E n \in 1 .. Len(Member(f)) - 1 : PutBlocks(Member(f), n)
  /\ tarPc' = "store" /\ tarSure' = Loosened /\ UNCHANGED tarList
\* A write fails or is short, or the run is killed.
SregWrite(f) ==
  /\ \E n \in 0 .. Len(Member(f)) - 1 :
       PutBlocks(Member(f), n) /\ tarSure' = IF n = 0 THEN Stopped ELSE Loosened
  /\ tarPc' = "idle" /\ UNCHANGED tarList
Sreg(f) ==
  /\ tarPc = f
  /\ \/ SregWhole(f) \/ SregRead(f) \/ SregWrite(f)
     \/ tarPc' = "store" /\ UNCHANGED <<tarArch, tarPos, tarList, tarSure>>    \* it cannot be opened
  /\ UNCHANGED <<tarSize, tarDev, tarHdr, tarNodes>>

\* store: the members are through, two blocks of zeroes end the archive; or the
\* run ends before it writes them.
StoreEnd ==
  /\ tarPc = "store"
  /\ \E n \in 0 .. 2 : /\ PutBlocks(<<Zero, Zero>>, n)
                       /\ tarSure' = IF n = 0 THEN Stopped ELSE tarSure
  /\ tarPc' = "idle"
  /\ UNCHANGED <<tarSize, tarDev, tarHdr, tarNodes, tarList>>

\* Somebody writes to a file.
Grows(f) ==
  /\ \E n \in TarSizes : tarSize' = [tarSize EXCEPT ![TarInode[f]] = n]
  /\ UNCHANGED <<tarDev, tarArch, tarPos, tarPc, tarHdr, tarNodes, tarList, tarSure>>

\* The device is blank.
TarInit ==
  /\ tarSize = [i \in {TarInode[f] : f \in TarFiles} |-> 0]
  /\ tarDev \in BOOLEAN
  /\ tarArch = IF tarDev THEN [i \in 1 .. TarMax |-> Zero] ELSE <<>>
  /\ tarPos = 1 /\ tarPc = "idle" /\ tarHdr = Zero
  /\ tarNodes = {} /\ tarList = <<>> /\ tarSure = "exact"

TarNext ==
  \/ Create \/ TarAppend \/ StoreEnd
  \/ \E f \in TarFiles : Store1(f) \/ Sreg(f) \/ Grows(f)

-----------------------------------------------------------------------------
\* extract1 and xreg: the data behind the header at p is what the file is made
\* of.  (That xreg takes no notice of a short write to the file is left out: this
\* is about what the archive gives.)
Extracted(p) ==
  LET h == tarArch[p]
      whole == \A i \in p + 1 .. p + Blocks(h.size) : i <= Len(tarArch) /\ tarArch[i] = DataOf(h.path)
  IN IF h.kind = "head" /\ whole THEN <<h.path, h.size>> ELSE <<"?", 0>>
\* rtar goes from header to header.
Rtar == LET read[p \in Nat \ {0}] == IF TarEnds(p) THEN <<>> ELSE <<Extracted(p)>> \o read[Past(p)]
        IN  read[1]

\* What was stored as a whole, by one run or by several, is what is read back,
\* in that order and with its data.  Where a run was cut off inside a member, or
\* on a device before the end was marked, where a file could not be read or
\* changed while it was stored, and behind a path that is too long, there may be
\* more: what was stored before is still read first.  Nothing is said of such an
\* archive once it was added to.
TarReadsBack ==
  tarPc = "idle" =>
    /\ tarSure = "exact" => Rtar = tarList
    /\ tarSure = "prefix" => Len(tarList) <= Len(Rtar) /\ SubSeq(Rtar, 1, Len(tarList)) = tarList

-----------------------------------------------------------------------------
(* cmd/bin/cp.c, do_cp, and the part of cmd/bin/mv.c, do_mv, for a target on  *)
(* another file system: the file is copied and unlinked.  One action is what  *)
(* is between two system calls that matter; other programs run in between.    *)
(* A file is a sequence of chunks of sizeof buf bytes, the last perhaps less. *)

CONSTANTS CpMax    \* chunks of a file

ASSUME CpAssumption == CpMax \in Nat

VARIABLES
  cpName,     \* the file a name leads to, 0 if none: "src" and "dst"
  cpData,     \* what a file holds
  cpPc,       \* where the program is
  cpMv,       \* it is mv
  cpFd,       \* srcfd and dstfd
  cpAt,       \* chunks read
  cpBuf,      \* buf, <<>> when it is empty
  cpOrig,     \* what the source held when the program began
  cpOther     \* another program has changed a name or a file since

cpVars == <<cpName, cpData, cpPc, cpMv, cpFd, cpAt, cpBuf, cpOrig, cpOther>>
CpInodes == 1 .. 4
\* What is in a file: a chunk of the source, a part of one, or something else.
CpChunk(k) == <<"chunk", k>>
Part     == <<"part", 0>>
Old      == <<"old", 0>>
New      == <<"new", 0>>
CpFree   == CHOOSE i \in CpInodes : \A n \in {"src", "dst"} : cpName[n] # i /\ i \notin {cpFd.src, cpFd.dst}
NoFds == [src |-> 0, dst |-> 0]

-----------------------------------------------------------------------------
CpOpenSrc ==
  /\ cpPc = "start"
  /\ IF cpName["src"] = 0 THEN cpPc' = "failed" /\ UNCHANGED cpFd
     ELSE cpPc' = "stat" /\ cpFd' = [cpFd EXCEPT !.src = cpName["src"]]
  /\ UNCHANGED <<cpName, cpData, cpMv, cpAt, cpBuf, cpOrig, cpOther>>

\* cp compares the inode of the target with that of the source; for mv they are
\* on different devices.
SameFile == cpName["dst"] = cpFd.src
CpStat ==
  /\ cpPc = "stat" /\ cpPc' = IF ~cpMv /\ SameFile THEN "failed" ELSE "trunc"
  /\ UNCHANGED <<cpName, cpData, cpMv, cpFd, cpAt, cpBuf, cpOrig, cpOther>>

\* open with O_CREAT and O_TRUNC, of whatever the name leads to by now
CpOpenDst ==
  LET i == IF cpName["dst"] = 0 THEN CpFree ELSE cpName["dst"]
  IN  /\ cpPc = "trunc" /\ cpPc' = "read"
      /\ cpName' = [cpName EXCEPT !["dst"] = i] /\ cpData' = [cpData EXCEPT ![i] = <<>>]
      /\ cpFd' = [cpFd EXCEPT !.dst = i]
      /\ UNCHANGED <<cpMv, cpAt, cpBuf, cpOrig, cpOther>>

\* A read: a chunk, the end of the file, or an error.
CpRead ==
  LET s == cpData[cpFd.src]
  IN  /\ cpPc = "read"
      /\ \/ /\ cpAt < Len(s) /\ cpBuf' = <<s[cpAt + 1]>> /\ cpAt' = cpAt + 1 /\ cpPc' = "write"
         \/ /\ cpAt >= Len(s) /\ cpPc' = (IF cpMv THEN "unlink" ELSE "ok")
            /\ UNCHANGED <<cpBuf, cpAt>>
         \/ cpPc' = "failed" /\ UNCHANGED <<cpBuf, cpAt>>
      /\ UNCHANGED <<cpName, cpData, cpMv, cpFd, cpOrig, cpOther>>

\* A write that is short or fails ends the program, with the target cut off.
MutAfterShort == "read"
AfterShort    == "failed"
CpWrite ==
  /\ cpPc = "write" /\ cpBuf' = <<>>
  /\ \/ /\ cpData' = [cpData EXCEPT ![cpFd.dst] = @ \o cpBuf] /\ cpPc' = "read"
     \/ /\ \E part \in {<<>>, <<Part>>} : cpData' = [cpData EXCEPT ![cpFd.dst] = @ \o part]
        /\ cpPc' = AfterShort
  /\ UNCHANGED <<cpName, cpMv, cpFd, cpAt, cpOrig, cpOther>>

\* mv takes the name away, whatever it leads to by now.
MvUnlink ==
  /\ cpPc = "unlink" /\ cpPc' = "ok" /\ cpName' = [cpName EXCEPT !["src"] = 0]
  /\ UNCHANGED <<cpData, cpMv, cpFd, cpAt, cpBuf, cpOrig, cpOther>>

\* Another program writes to the source, puts a new file in its place, or makes
\* the target a link to it.
CpOthers ==
  /\ cpPc \notin {"ok", "failed"} /\ ~cpOther /\ cpOther' = TRUE
  /\ \/ /\ cpName["src"] # 0 /\ Len(cpData[cpName["src"]]) < CpMax
        /\ cpData' = [cpData EXCEPT ![cpName["src"]] = Append(@, New)] /\ UNCHANGED cpName
     \/ /\ cpName' = [cpName EXCEPT !["src"] = CpFree]
        /\ cpData' = [cpData EXCEPT ![CpFree] = <<New>>]
     \/ ~cpMv /\ cpName' = [cpName EXCEPT !["dst"] = cpName["src"]] /\ UNCHANGED cpData
  /\ UNCHANGED <<cpPc, cpMv, cpFd, cpAt, cpBuf, cpOrig>>

CpInit ==
  \E n \in 0 .. CpMax, old \in {0, 1, 2} :
    /\ cpOrig = [k \in 1 .. n |-> CpChunk(k)]
    /\ cpData = [i \in CpInodes |-> IF i = 1 THEN cpOrig ELSE <<Old>>]
    /\ cpName = [src |-> 1, dst |-> old]
    /\ cpMv \in BOOLEAN /\ (cpMv => old # 1)
    /\ cpPc = "start" /\ cpFd = NoFds /\ cpAt = 0 /\ cpBuf = <<>> /\ cpOther = FALSE
CpNext == CpOpenSrc \/ CpStat \/ CpOpenDst \/ CpRead \/ CpWrite \/ MvUnlink \/ CpOthers

-----------------------------------------------------------------------------
(* Properties.                                                               *)

\* A copy that ends well is the whole file, and at every moment, through failed
\* reads and short writes, one of the two names leads to all of what the source
\* held, unless another program changed a name or a file at the same time.
CopyKept ==
  LET Holds(n) == cpName[n] # 0 /\ cpData[cpName[n]] = cpOrig
  IN  ~cpOther => /\ cpPc = "ok" => Holds("dst") /\ (cpMv <=> cpName["src"] = 0)
                  /\ Holds("src") \/ Holds("dst")

\* What a program writes is what is there later: in an archive of tar (tar.c,
\* append and extract), behind a stream of the C library (putget.c), and in the
\* target of cp and mv, or still in the source (cp.c, mv.c).
ReadsBack == TarReadsBack /\ StdioExact /\ CopyKept
=============================================================================
