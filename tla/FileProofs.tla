------------------------------ MODULE FileProofs ------------------------------
(* The file table: every reference to a file and to an inode is counted, for  *)
(* any number of processes, of slots and of descriptors.  The inode table:    *)
(* one copy of an inode, mounts in pairs, and no change lost, for any number  *)
(* of devices, mounts and entries.                                            *)
EXTENDS OpenFiles, Mount, FiniteSetTheorems, TLAPS

----------------------------------------------------------------------------
(* Counting.                                                                *)

OfOne(c) == IF c THEN 1 ELSE 0

\* A finite set whose elements change at most at x.
LEMMA OfDiffer ==
  ASSUME NEW S, IsFiniteSet(S), NEW A \in SUBSET S, NEW B \in SUBSET S, NEW x,
         A \ {x} = B \ {x}
  PROVE  /\ Cardinality(A) \in Nat /\ Cardinality(B) \in Nat
         /\ Cardinality(B) = Cardinality(A) - OfOne(x \in A) + OfOne(x \in B)
         /\ x \in A => Cardinality(A) > 0
<1>1. IsFiniteSet(A) /\ IsFiniteSet(B)
  BY FS_Subset
<1>2. Cardinality(A) \in Nat /\ Cardinality(B) \in Nat
  BY <1>1, FS_CardinalityType
<1>3. ASSUME NEW T \in {A, B}
      PROVE  Cardinality(T \ {x}) = Cardinality(T) - OfOne(x \in T)
  <2>1. IsFiniteSet(T) /\ Cardinality(T) \in Nat
    BY <1>1, <1>2
  <2>2. Cardinality(T \ {x}) = IF x \in T THEN Cardinality(T) - 1 ELSE Cardinality(T)
    BY <2>1, FS_RemoveElement, Zenon
  <2> QED
    BY <2>1, <2>2 DEF OfOne
<1>4. x \in A => Cardinality(A) # 0
  BY <1>1, FS_EmptySet
<1>5. Cardinality(A \ {x}) = Cardinality(B \ {x})
  OBVIOUS
<1>6. Cardinality(A) - OfOne(x \in A) = Cardinality(B) - OfOne(x \in B)
  BY <1>3, <1>5
<1>7. OfOne(x \in A) \in Nat /\ OfOne(x \in B) \in Nat
  BY DEF OfOne
<1> QED
  BY <1>2, <1>4, <1>6, <1>7

\* A finite set that loses the elements of a part of it.
LEMMA OfLoses ==
  ASSUME NEW A, IsFiniteSet(A), NEW X \in SUBSET A
  PROVE  /\ Cardinality(A) \in Nat /\ Cardinality(X) \in Nat /\ Cardinality(A \ X) \in Nat
         /\ Cardinality(A \ X) = Cardinality(A) - Cardinality(X)
         /\ Cardinality(X) <= Cardinality(A)
<1>1. IsFiniteSet(X) /\ IsFiniteSet(A \ X) /\ Cardinality(X) <= Cardinality(A)
  BY FS_Subset, FS_Difference
<1>2. A \cap X = X
  OBVIOUS
<1>3. Cardinality(A \ X) = Cardinality(A) - Cardinality(A \cap X)
  BY FS_Difference
<1> QED
  BY <1>1, <1>2, <1>3, FS_CardinalityType

\* A row of a table of pairs has as many pairs as there are places in it.
LEMMA OfRow ==
  ASSUME NEW D, IsFiniteSet(D), NEW X \in SUBSET D, NEW p
  PROVE  IsFiniteSet({p} \X X) /\ Cardinality({p} \X X) = Cardinality(X)
<1>1. IsFiniteSet(X) /\ IsFiniteSet({p}) /\ Cardinality({p}) = 1
  BY FS_Subset, FS_Singleton
<1>2. Cardinality(X) \in Nat
  BY <1>1, FS_CardinalityType
<1>3. IsFiniteSet({p} \X X) /\ Cardinality({p} \X X) = Cardinality({p}) * Cardinality(X)
  BY <1>1, FS_Product, Zenon
<1> QED
  BY <1>1, <1>2, <1>3

\* Two tables of pairs that differ in one row.
LEMMA OfOneRow ==
  ASSUME NEW D, IsFiniteSet(D), NEW X \in SUBSET D, NEW Y \in SUBSET D,
         NEW A, IsFiniteSet(A), NEW B, IsFiniteSet(B), NEW p,
         ({p} \X X) \in SUBSET A, ({p} \X Y) \in SUBSET B,
         A \ ({p} \X X) = B \ ({p} \X Y)
  PROVE  /\ Cardinality(A) \in Nat /\ Cardinality(B) \in Nat
         /\ Cardinality(X) \in Nat /\ Cardinality(Y) \in Nat
         /\ Cardinality(B) = Cardinality(A) - Cardinality(X) + Cardinality(Y)
         /\ Cardinality(X) <= Cardinality(A)
<1>4. /\ Cardinality({p} \X X) = Cardinality(X) /\ Cardinality({p} \X Y) = Cardinality(Y)
  BY OfRow
<1>5. /\ Cardinality(A) \in Nat /\ Cardinality({p} \X X) \in Nat
      /\ Cardinality(A \ ({p} \X X)) = Cardinality(A) - Cardinality({p} \X X)
      /\ Cardinality({p} \X X) <= Cardinality(A)
  BY OfLoses
<1>6. /\ Cardinality(B) \in Nat /\ Cardinality({p} \X Y) \in Nat
      /\ Cardinality(B \ ({p} \X Y)) = Cardinality(B) - Cardinality({p} \X Y)
  BY OfLoses
<1>1. Cardinality(A \ ({p} \X X)) = Cardinality(B \ ({p} \X Y))
  BY Zenon
<1>2. Cardinality(A) - Cardinality(X) = Cardinality(B) - Cardinality(Y)
  BY <1>1, <1>4, <1>5, <1>6, Zenon
<1>3. /\ Cardinality(X) \in Nat /\ Cardinality(Y) \in Nat /\ Cardinality(X) <= Cardinality(A)
  BY <1>4, <1>5, <1>6, Zenon
<1> DEFINE a == Cardinality(A)
           b == Cardinality(B)
           x == Cardinality(X)
           y == Cardinality(Y)
<1>7. a \in Nat /\ b \in Nat /\ x \in Nat /\ y \in Nat /\ a - x = b - y /\ x <= a
  BY <1>2, <1>3, <1>5, <1>6
<1> HIDE DEF a, b, x, y
<1>8. b = a - x + y
  BY <1>7
<1> QED
  BY <1>7, <1>8 DEF a, b, x, y

\* Every set of numbers has a least one.
LEMMA LeastOf ==
  ASSUME NEW T, T \subseteq Nat, T # {}
  PROVE  \E n \in T : \A m \in T : n <= m
<1> DEFINE R == OpToRel(<, Nat)
<1>1. IsWellFoundedOn(R, Nat)
  BY NatLessThanWellFounded
<1> HIDE DEF R
<1>2. PICK n \in T : \A m \in T : ~ (<<m, n>> \in R)
  BY <1>1, WFMin
<1>3. \A m \in T : <<m, n>> \in R <=> m < n
  BY DEF R, OpToRel
<1>4. \A m \in T : ~(m < n)
  BY <1>2, <1>3, Zenon
<1> QED
  BY <1>4, SMT

\* All of the tables are finite.
LEMMA OfFinite == IsFiniteSet(OfProcs) /\ IsFiniteSet(OfFiles) /\ IsFiniteSet(OfFds)
BY OpenFilesAssumption DEF OpenFilesAssumption

----------------------------------------------------------------------------
(* The invariant.                                                           *)

OfPlaces == {"cwd", "root", "tty"}
OfDescs  == [file : OfFiles \cup {nobody}, cloexec : BOOLEAN]
OfSlots  == [ref : Nat, ino : OfInodes \cup {nobody}]
OfCalls  == [file : OfFiles \cup {nobody}, ino : OfInodes \cup {nobody}]
OfTypeOK ==
  /\ ofLive \subseteq OfProcs
  /\ ofFd \in [OfProcs -> [OfFds -> OfDescs]] /\ ofFile \in [OfFiles -> OfSlots]
  /\ ofUse \in [OfInodes -> Int] /\ ofLost \in [OfInodes -> Nat]
  /\ ofAt \in [OfProcs -> [OfPlaces -> OfInodes \cup {nobody}]]
  /\ ofWait \in [OfProcs -> OfCalls]
  /\ ofUnit \in [open : Int, dev : {"line", "modem"}, carrier : BOOLEAN]

\* Who refers to a file: descriptors and calls; and to an inode: files,
\* directories and terminals, and calls.
InUse(f)    == ofFile[f].ref > 0
Descs(f)    == Cardinality({x \in OfProcs \X OfFds : ofFd[x[1]][x[2]].file = f})
Calls(f)    == Cardinality({p \in OfProcs : ofWait[p].file = f})
Openers(i)  == Cardinality({f \in OfFiles : InUse(f) /\ ofFile[f].ino = i})
Seats(i)    == Cardinality({x \in OfProcs \X OfPlaces : ofAt[x[1]][x[2]] = i})
Arrivals(i) == Cardinality({p \in OfProcs : ofWait[p].ino = i})
LineFiles   == {f \in OfFiles : InUse(f) /\ IsLine(ofFile[f].ino)}
LineWaits   == {p \in OfProcs : ofWait[p].file # nobody}
FilesAdd    == \A f \in OfFiles : ofFile[f].ref = Descs(f) + Calls(f)
InodesAdd   == \A i \in OfInodes : ofUse[i] = ofLost[i] + Openers(i) + Seats(i) + Arrivals(i)
LineAdds    == ofUnit.open = Cardinality(LineFiles) + Cardinality(LineWaits)

\* A process that does not exist holds nothing.
DeadHold ==
  \A p \in OfProcs \ ofLive :
    /\ ofWait[p] = NoWait /\ \A d \in OfFds : ofFd[p][d].file = nobody
    /\ \A w \in OfPlaces : ofAt[p][w] = nobody

\* A call that waits has a slot of its own, and a descriptor will be free for
\* it; the line has the name it was opened by.
WaitsOwn ==
  /\ \A p \in OfProcs :
       IF p \in LineWaits
         THEN /\ ofWait[p].file \in OfFiles /\ IsLine(ofWait[p].ino)
              /\ ofWait[p].ino = ofUnit.dev /\ FreeFds(p, 0) # {}
              /\ ofFile[ofWait[p].file].ref = 1 /\ ofFile[ofWait[p].file].ino = nobody
         ELSE ofWait[p] = NoWait
  /\ \A f \in LineFiles : ofFile[f].ino = ofUnit.dev

OfInv == OfTypeOK /\ FilesAdd /\ InodesAdd /\ LineAdds /\ DeadHold /\ WaitsOwn

----------------------------------------------------------------------------
(* What a change of one process, or of some files, does to the sums.        *)

\* The descriptors of process p change.
LEMMA FdRow ==
  ASSUME NEW p \in OfProcs, \A q \in OfProcs \ {p} : ofFd'[q] = ofFd[q], NEW f
  PROVE  /\ Descs(f) \in Nat /\ Descs(f)' \in Nat /\ Shares(p, f) \in Nat /\ Shares(p, f)' \in Nat
         /\ Descs(f)' = Descs(f) - Shares(p, f) + Shares(p, f)'
         /\ Shares(p, f) <= Descs(f)
<1> DEFINE A == {x \in OfProcs \X OfFds : ofFd[x[1]][x[2]].file = f}
           B == {x \in OfProcs \X OfFds : ofFd'[x[1]][x[2]].file = f}
           X == {d \in OfFds : <<p, d>> \in A}
           Y == {d \in OfFds : <<p, d>> \in B}
<1>1. A \in SUBSET (OfProcs \X OfFds) /\ B \in SUBSET (OfProcs \X OfFds)
  OBVIOUS
<1>2. /\ X \in SUBSET OfFds /\ Y \in SUBSET OfFds
      /\ ({p} \X X) \in SUBSET A /\ ({p} \X Y) \in SUBSET B
      /\ A \ ({p} \X X) = B \ ({p} \X Y)
  OBVIOUS
<1>3. X = {d \in OfFds : ofFd[p][d].file = f} /\ Y = {d \in OfFds : ofFd'[p][d].file = f}
  OBVIOUS
<1>4. /\ Descs(f) = Cardinality(A) /\ Descs(f)' = Cardinality(B)
      /\ Shares(p, f) = Cardinality(X) /\ Shares(p, f)' = Cardinality(Y)
  BY <1>3 DEF Descs, Shares
<1> HIDE DEF A, B, Y, X
<1>e. IsFiniteSet(A) /\ IsFiniteSet(B)
  <2>1. IsFiniteSet(OfProcs \X OfFds)
    BY OfFinite, FS_Product
  <2> QED
    BY <1>1, <2>1, FS_Subset
<1>5. /\ Cardinality(A) \in Nat /\ Cardinality(B) \in Nat
      /\ Cardinality(X) \in Nat /\ Cardinality(Y) \in Nat
      /\ Cardinality(B) = Cardinality(A) - Cardinality(X) + Cardinality(Y)
      /\ Cardinality(X) <= Cardinality(A)
  BY <1>1, <1>2, <1>e, OfFinite, OfOneRow, ZenonT(60)
<1> QED
  BY <1>4, <1>5

\* Its directories and its terminal change.
LEMMA AtRow ==
  ASSUME NEW p \in OfProcs, \A q \in OfProcs \ {p} : ofAt'[q] = ofAt[q],
         DOMAIN ofAt[p] = OfPlaces, DOMAIN ofAt'[p] = OfPlaces, NEW i
  PROVE  /\ Seats(i) \in Nat /\ Seats(i)' \in Nat /\ UsedAt(p, i) \in Nat /\ UsedAt(p, i)' \in Nat
         /\ Seats(i)' = Seats(i) - UsedAt(p, i) + UsedAt(p, i)'
<1> DEFINE A == {x \in OfProcs \X OfPlaces : ofAt[x[1]][x[2]] = i}
           B == {x \in OfProcs \X OfPlaces : ofAt'[x[1]][x[2]] = i}
           X == {d \in OfPlaces : <<p, d>> \in A}
           Y == {d \in OfPlaces : <<p, d>> \in B}
<1>1. A \in SUBSET (OfProcs \X OfPlaces) /\ B \in SUBSET (OfProcs \X OfPlaces)
  OBVIOUS
<1>2. /\ X \in SUBSET OfPlaces /\ Y \in SUBSET OfPlaces
      /\ ({p} \X X) \in SUBSET A /\ ({p} \X Y) \in SUBSET B
      /\ A \ ({p} \X X) = B \ ({p} \X Y)
  OBVIOUS
<1>3. X = {d \in OfPlaces : ofAt[p][d] = i} /\ Y = {d \in OfPlaces : ofAt'[p][d] = i}
  OBVIOUS
<1>4. /\ Seats(i) = Cardinality(A) /\ Seats(i)' = Cardinality(B)
      /\ UsedAt(p, i) = Cardinality(X) /\ UsedAt(p, i)' = Cardinality(Y)
  BY <1>3 DEF Seats, UsedAt
<1>f. IsFiniteSet(OfPlaces)
  <2>1. OfPlaces = ({"cwd"} \cup {"root"}) \cup {"tty"}
    BY DEF OfPlaces
  <2>2. IsFiniteSet({"cwd"})
    BY FS_Singleton
  <2>3. IsFiniteSet({"cwd"} \cup {"root"})
    BY <2>2, FS_AddElement
  <2>4. IsFiniteSet(({"cwd"} \cup {"root"}) \cup {"tty"})
    BY <2>3, FS_AddElement
  <2> QED
    BY <2>1, <2>4
<1> HIDE DEF A, B, Y, X
<1>e. IsFiniteSet(A) /\ IsFiniteSet(B)
  <2>1. IsFiniteSet(OfProcs \X OfPlaces)
    BY <1>f, OfFinite, FS_Product
  <2> QED
    BY <1>1, <2>1, FS_Subset
<1>5. /\ Cardinality(A) \in Nat /\ Cardinality(B) \in Nat
      /\ Cardinality(X) \in Nat /\ Cardinality(Y) \in Nat
      /\ Cardinality(B) = Cardinality(A) - Cardinality(X) + Cardinality(Y)
      /\ Cardinality(X) <= Cardinality(A)
  BY <1>1, <1>2, <1>e, <1>f, OfFinite, OfOneRow
<1> QED
  BY <1>4, <1>5

\* The open it waits in changes.
LEMMA WaitRow ==
  ASSUME NEW p \in OfProcs, \A q \in OfProcs \ {p} : ofWait'[q] = ofWait[q], NEW f, NEW i
  PROVE  /\ Calls(f) \in Nat /\ Calls(f)' \in Nat /\ Arrivals(i) \in Nat /\ Arrivals(i)' \in Nat
         /\ Calls(f)' = Calls(f) - OfOne(ofWait[p].file = f) + OfOne(ofWait'[p].file = f)
         /\ ofWait[p].file = f => Calls(f) > 0
         /\ Arrivals(i)' = Arrivals(i) - OfOne(ofWait[p].ino = i) + OfOne(ofWait'[p].ino = i)
         /\ Cardinality(LineWaits) \in Nat /\ Cardinality(LineWaits') \in Nat
         /\ Cardinality(LineWaits') = Cardinality(LineWaits) - OfOne(ofWait[p].file # nobody)
                                      + OfOne(ofWait'[p].file # nobody)
<1> DEFINE A == {q \in OfProcs : ofWait[q].file = f}
           B == {q \in OfProcs : ofWait'[q].file = f}
           C == {q \in OfProcs : ofWait[q].ino = i}
           D == {q \in OfProcs : ofWait'[q].ino = i}
<1>1. /\ A \in SUBSET OfProcs /\ B \in SUBSET OfProcs /\ A \ {p} = B \ {p}
      /\ C \in SUBSET OfProcs /\ D \in SUBSET OfProcs /\ C \ {p} = D \ {p}
      /\ LineWaits \in SUBSET OfProcs /\ LineWaits' \in SUBSET OfProcs
      /\ LineWaits \ {p} = LineWaits' \ {p}
  BY DEF LineWaits
<1>2. /\ (p \in A) = (ofWait[p].file = f) /\ (p \in B) = (ofWait'[p].file = f)
      /\ (p \in C) = (ofWait[p].ino = i) /\ (p \in D) = (ofWait'[p].ino = i)
      /\ (p \in LineWaits) = (ofWait[p].file # nobody)
      /\ (p \in LineWaits') = (ofWait'[p].file # nobody)
  BY DEF LineWaits
<1>3. /\ Calls(f) = Cardinality(A) /\ Calls(f)' = Cardinality(B)
      /\ Arrivals(i) = Cardinality(C) /\ Arrivals(i)' = Cardinality(D)
  BY DEF Calls, Arrivals
<1> HIDE DEF A, B, C, D
<1>4. /\ Cardinality(A) \in Nat /\ Cardinality(B) \in Nat /\ (p \in A => Cardinality(A) > 0)
      /\ Cardinality(B) = Cardinality(A) - OfOne(p \in A) + OfOne(p \in B)
  BY <1>1, OfFinite, OfDiffer
<1>5. /\ Cardinality(C) \in Nat /\ Cardinality(D) \in Nat
      /\ Cardinality(D) = Cardinality(C) - OfOne(p \in C) + OfOne(p \in D)
  BY <1>1, OfFinite, OfDiffer
<1>6. /\ Cardinality(LineWaits) \in Nat /\ Cardinality(LineWaits') \in Nat
      /\ Cardinality(LineWaits') = Cardinality(LineWaits) - OfOne(p \in LineWaits)
                                   + OfOne(p \in LineWaits')
  BY <1>1, OfFinite, OfDiffer
<1> QED
  BY <1>2, <1>3, <1>4, <1>5, <1>6

\* File f changes, the others stay in use as they are, or free.
LEMMA OneFile ==
  ASSUME NEW f \in OfFiles, NEW i,
         \A g \in OfFiles \ {f} : InUse(g)' = InUse(g) /\ (InUse(g) => ofFile'[g].ino = ofFile[g].ino)
  PROVE  /\ Openers(i) \in Nat /\ Openers(i)' \in Nat
         /\ Openers(i)' = Openers(i) - OfOne(InUse(f) /\ ofFile[f].ino = i)
                          + OfOne(InUse(f)' /\ ofFile'[f].ino = i)
         /\ Cardinality(LineFiles) \in Nat /\ Cardinality(LineFiles') \in Nat
         /\ Cardinality(LineFiles') = Cardinality(LineFiles) - OfOne(f \in LineFiles)
                                      + OfOne(f \in LineFiles')
<1> DEFINE A == {g \in OfFiles : InUse(g) /\ ofFile[g].ino = i}
           B == {g \in OfFiles : InUse(g)' /\ ofFile'[g].ino = i}
<1>1. /\ A \in SUBSET OfFiles /\ B \in SUBSET OfFiles /\ A \ {f} = B \ {f}
      /\ LineFiles \in SUBSET OfFiles /\ LineFiles' \in SUBSET OfFiles
      /\ LineFiles \ {f} = LineFiles' \ {f}
  BY DEF LineFiles, IsLine
<1>2. /\ (f \in A) = (InUse(f) /\ ofFile[f].ino = i)
      /\ (f \in B) = (InUse(f)' /\ ofFile'[f].ino = i)
  OBVIOUS
<1>3. Openers(i) = Cardinality(A) /\ Openers(i)' = Cardinality(B)
  BY DEF Openers
<1> HIDE DEF A, B
<1>4. /\ Cardinality(A) \in Nat /\ Cardinality(B) \in Nat
      /\ Cardinality(B) = Cardinality(A) - OfOne(f \in A) + OfOne(f \in B)
  BY <1>1, OfFinite, OfDiffer
<1>5. /\ Cardinality(LineFiles) \in Nat /\ Cardinality(LineFiles') \in Nat
      /\ Cardinality(LineFiles') = Cardinality(LineFiles) - OfOne(f \in LineFiles)
                                   + OfOne(f \in LineFiles')
  BY <1>1, OfFinite, OfDiffer
<1> QED
  BY <1>2, <1>3, <1>4, <1>5

\* The files of fs are put for the last time.
LEMMA FilesGo ==
  ASSUME NEW fs \in SUBSET OfFiles, \A f \in fs : InUse(f), NEW i,
         \A f \in OfFiles : /\ InUse(f)' <=> InUse(f) /\ f \notin fs
                            /\ InUse(f)' => ofFile'[f].ino = ofFile[f].ino
  PROVE  /\ Openers(i) \in Nat /\ Openers(i)' \in Nat
         /\ Cardinality({f \in fs : ofFile[f].ino = i}) \in Nat /\ ClosedLines(fs) \in Nat
         /\ Openers(i)' = Openers(i) - Cardinality({f \in fs : ofFile[f].ino = i})
         /\ Cardinality(LineFiles) \in Nat /\ Cardinality(LineFiles') \in Nat
         /\ Cardinality(LineFiles') = Cardinality(LineFiles) - ClosedLines(fs)
<1> DEFINE A == {g \in OfFiles : InUse(g) /\ ofFile[g].ino = i}
           B == {g \in OfFiles : InUse(g)' /\ ofFile'[g].ino = i}
           X == {f \in fs : ofFile[f].ino = i}
           Y == {f \in fs : IsLine(ofFile[f].ino)}
<1>1. /\ A \in SUBSET OfFiles /\ X \in SUBSET A /\ B = A \ X
      /\ LineFiles \in SUBSET OfFiles /\ Y \in SUBSET LineFiles /\ LineFiles' = LineFiles \ Y
  BY DEF LineFiles, IsLine
<1>2. Openers(i) = Cardinality(A) /\ Openers(i)' = Cardinality(B) /\ ClosedLines(fs) = Cardinality(Y)
  BY DEF Openers, ClosedLines
<1> HIDE DEF A, B, Y
<1>3. IsFiniteSet(A) /\ IsFiniteSet(LineFiles)
  BY <1>1, OfFinite, FS_Subset
<1>4. /\ Cardinality(A) \in Nat /\ Cardinality(X) \in Nat /\ Cardinality(A \ X) \in Nat
      /\ Cardinality(A \ X) = Cardinality(A) - Cardinality(X)
  <2> HIDE DEF X
  <2> QED
    BY <1>1, <1>3, OfLoses
<1>5. /\ Cardinality(LineFiles) \in Nat /\ Cardinality(Y) \in Nat /\ Cardinality(LineFiles \ Y) \in Nat
      /\ Cardinality(LineFiles \ Y) = Cardinality(LineFiles) - Cardinality(Y)
  BY <1>1, <1>3, OfLoses
<1>6. Cardinality(B) = Cardinality(A \ X) /\ Cardinality(LineFiles') = Cardinality(LineFiles \ Y)
  BY <1>1, Zenon
<1>7. Cardinality(X) = Cardinality({f \in fs : ofFile[f].ino = i})
  OBVIOUS
<1> HIDE DEF X
<1> QED
  BY <1>2, <1>4, <1>5, <1>6, <1>7

\* One descriptor of a process changes.
LEMMA SharesOne ==
  ASSUME NEW p, NEW d \in OfFds, \A e \in OfFds \ {d} : ofFd'[p][e] = ofFd[p][e], NEW f
  PROVE  /\ Shares(p, f) \in Nat /\ Shares(p, f)' \in Nat
         /\ Shares(p, f)' = Shares(p, f) - OfOne(ofFd[p][d].file = f) + OfOne(ofFd'[p][d].file = f)
<1> DEFINE A == {e \in OfFds : ofFd[p][e].file = f}
           B == {e \in OfFds : ofFd'[p][e].file = f}
<1>1. A \in SUBSET OfFds /\ B \in SUBSET OfFds /\ A \ {d} = B \ {d}
  OBVIOUS
<1>2. (d \in A) = (ofFd[p][d].file = f) /\ (d \in B) = (ofFd'[p][d].file = f)
  OBVIOUS
<1>3. Shares(p, f) = Cardinality(A) /\ Shares(p, f)' = Cardinality(B)
  BY DEF Shares
<1> HIDE DEF A, B
<1>4. /\ Cardinality(A) \in Nat /\ Cardinality(B) \in Nat
      /\ Cardinality(B) = Cardinality(A) - OfOne(d \in A) + OfOne(d \in B)
  BY <1>1, OfFinite, OfDiffer
<1> QED
  BY <1>2, <1>3, <1>4

\* What a process shares, and what it puts.
LEMMA PutsShares ==
  ASSUME NEW p \in OfProcs, NEW ds \in SUBSET OfFds, NEW f
  PROVE  /\ Puts(p, ds, f) \in Nat /\ Shares(p, f) \in Nat /\ Descs(f) \in Nat
         /\ Puts(p, ds, f) <= Shares(p, f) /\ Shares(p, f) <= Descs(f)
         /\ Puts(p, OfFds, f) = Shares(p, f)
         /\ \A d \in ds : ofFd[p][d].file = f => Puts(p, ds, f) > 0
<1> DEFINE X == {d \in OfFds : ofFd[p][d].file = f}
           Y == {d \in ds : ofFd[p][d].file = f}
           A == {x \in OfProcs \X OfFds : ofFd[x[1]][x[2]].file = f}
<1>1. X \in SUBSET OfFds /\ Y \in SUBSET X /\ ({p} \X X) \in SUBSET A
      /\ A \in SUBSET (OfProcs \X OfFds)
      /\ \A d \in ds : ofFd[p][d].file = f => Y # {}
  OBVIOUS
<1>2. Puts(p, ds, f) = Cardinality(Y) /\ Shares(p, f) = Cardinality(X) /\ Descs(f) = Cardinality(A)
      /\ Puts(p, OfFds, f) = Cardinality(X)
  BY DEF Puts, Shares, Descs
<1> HIDE DEF X, Y, A
<1>3. IsFiniteSet(X) /\ IsFiniteSet(Y) /\ IsFiniteSet(A)
  <2>1. IsFiniteSet(OfProcs \X OfFds)
    BY OfFinite, FS_Product
  <2>2. IsFiniteSet(X)
    BY <1>1, OfFinite, FS_Subset
  <2> QED
    BY <1>1, <2>1, <2>2, FS_Subset
<1>4. Cardinality(Y) \in Nat /\ Cardinality(X) \in Nat /\ Cardinality(A) \in Nat
  BY <1>3, FS_CardinalityType
<1>5. Cardinality(Y) <= Cardinality(X) /\ Cardinality({p} \X X) <= Cardinality(A)
  BY <1>1, <1>3, FS_Subset
<1>6. Cardinality({p} \X X) = Cardinality(X)
  BY <1>1, OfFinite, OfRow
<1>7. Y # {} => Cardinality(Y) # 0
  BY <1>3, FS_EmptySet
<1> QED
  BY <1>1, <1>2, <1>4, <1>5, <1>6, <1>7

\* fd_put and file_put of the descriptors ds leave the others.
LEMMA PutFiles ==
  ASSUME OfInv, NEW p \in OfProcs, NEW ds \in SUBSET OfFds, NEW f \in OfFiles
  PROVE  LET g == FilesAfter(p, ds)[f]
         IN  /\ g \in OfSlots /\ g.ref \in Nat /\ Puts(p, ds, f) \in Nat
             /\ g.ref = ofFile[f].ref - Puts(p, ds, f)
             /\ f \in Dropped(p, ds) => InUse(f)
             /\ g.ref > 0 <=> InUse(f) /\ f \notin Dropped(p, ds)
             /\ g.ref > 0 => g.ino = ofFile[f].ino
<1>1. ofFile[f] \in OfSlots /\ ofFile[f].ref \in Nat /\ ofFile[f].ino \in OfInodes \cup {nobody}
  BY DEF OfInv, OfTypeOK, OfSlots
<1>2. Calls(f) \in Nat /\ ofFile[f].ref = Descs(f) + Calls(f)
  <2>1. {q \in OfProcs : ofWait[q].file = f} \in SUBSET OfProcs
    OBVIOUS
  <2>2. Calls(f) \in Nat
    BY <2>1, OfFinite, FS_Subset, FS_CardinalityType DEF Calls
  <2> QED
    BY <2>2 DEF OfInv, FilesAdd
<1>3. Puts(p, ds, f) \in Nat /\ Puts(p, ds, f) <= ofFile[f].ref
  BY <1>1, <1>2, PutsShares
<1> DEFINE g == [ofFile[f] EXCEPT !.ref = @ - Puts(p, ds, f)]
<1>4. g \in OfSlots /\ g.ref = ofFile[f].ref - Puts(p, ds, f) /\ g.ino = ofFile[f].ino
  <2>1. ofFile[f].ref - Puts(p, ds, f) \in Nat
    BY <1>1, <1>3
  <2> QED
    BY <1>1, <2>1 DEF OfSlots
<1>5. FilesAfter(p, ds)[f] = IF f \in Dropped(p, ds) THEN NoFile ELSE g
  BY DEF FilesAfter
<1>6. NoFile \in OfSlots /\ NoFile.ref = 0
  BY DEF NoFile, OfSlots
<1>7. f \in Dropped(p, ds) <=> Puts(p, ds, f) > 0 /\ ofFile[f].ref = Puts(p, ds, f)
  BY DEF Dropped
<1> HIDE DEF g
<1>8. FilesAfter(p, ds)[f].ref = ofFile[f].ref - Puts(p, ds, f)
  BY <1>1, <1>3, <1>4, <1>5, <1>6, <1>7
<1>9. FilesAfter(p, ds)[f] \in OfSlots
  BY <1>4, <1>5, <1>6
<1>10. ofFile[f].ref - Puts(p, ds, f) > 0 <=> InUse(f) /\ f \notin Dropped(p, ds)
  BY <1>1, <1>3, <1>7 DEF InUse
<1> QED
  BY <1>1, <1>3, <1>4, <1>5, <1>6, <1>7, <1>8, <1>9, <1>10 DEF InUse

\* The descriptors of a process when those of ds are empty.
LEMMA SharesAfter ==
  ASSUME NEW p \in OfProcs, NEW ds \in SUBSET OfFds, NEW f \in OfFiles,
         \A d \in OfFds : ofFd'[p][d] = IF d \in ds THEN EmptyFd ELSE ofFd[p][d]
  PROVE  Shares(p, f)' = Shares(p, f) - Puts(p, ds, f)
<1> DEFINE X == {d \in OfFds : ofFd[p][d].file = f}
           Y == {d \in ds : ofFd[p][d].file = f}
           Z == {d \in OfFds : ofFd'[p][d].file = f}
<1>0. EmptyFd.file # f
  BY OpenFilesAssumption DEF EmptyFd, nobody, OpenFilesAssumption
<1>1. X \in SUBSET OfFds /\ Y \in SUBSET X /\ Z = X \ Y
  BY <1>0
<1>2. Puts(p, ds, f) = Cardinality(Y) /\ Shares(p, f) = Cardinality(X)
      /\ Shares(p, f)' = Cardinality(Z)
  BY DEF Puts, Shares
<1> HIDE DEF X, Y, Z
<1>3. IsFiniteSet(X)
  BY <1>1, OfFinite, FS_Subset
<1>4. Cardinality(X \ Y) = Cardinality(X) - Cardinality(Y)
  BY <1>1, <1>3, OfLoses
<1> QED
  BY <1>1, <1>2, <1>4

\* The slot of an open that waits is not yet in a descriptor, and has no other
\* call.
LEMMA SlotOwn ==
  ASSUME OfInv, NEW q \in LineWaits, NEW f, f = ofWait[q].file
  PROVE  /\ f \in OfFiles /\ Descs(f) = 0 /\ Calls(f) = 1
         /\ \A p \in OfProcs : \A d \in OfFds : ofFd[p][d].file # f
         /\ \A p \in OfProcs \ {q} : ofWait[p].file # f
<1>1. f \in OfFiles /\ ofFile[f].ref = 1 /\ q \in OfProcs /\ ofFile[f].ref = Descs(f) + Calls(f)
  BY DEF OfInv, WaitsOwn, LineWaits, FilesAdd
<1> DEFINE A == {p \in OfProcs : ofWait[p].file = f}
<1>2. A \in SUBSET OfProcs /\ {q} \in SUBSET A
  BY <1>1
<1>3. Calls(f) = Cardinality(A)
  BY DEF Calls
<1> HIDE DEF A
<1>4. IsFiniteSet(A) /\ Cardinality({q}) = 1
  BY <1>2, OfFinite, FS_Subset, FS_Singleton
<1>5. /\ Cardinality(A) \in Nat /\ Cardinality(A \ {q}) \in Nat
      /\ Cardinality(A \ {q}) = Cardinality(A) - Cardinality({q})
  BY <1>2, <1>4, OfLoses
<1>6. Descs(f) \in Nat
  BY <1>1, PutsShares
<1>7. Descs(f) = 0 /\ Calls(f) = 1 /\ Cardinality(A \ {q}) = 0
  BY <1>1, <1>3, <1>4, <1>5, <1>6
<1>8. A \ {q} = {}
  <2>1. IsFiniteSet(A \ {q})
    BY <1>4, FS_Subset
  <2> QED
    BY <1>7, <2>1, FS_EmptySet
<1>9. ASSUME NEW p \in OfProcs, NEW d \in OfFds, ofFd[p][d].file = f PROVE FALSE
  <2>1. Puts(p, OfFds, f) > 0 /\ Puts(p, OfFds, f) \in Nat /\ Puts(p, OfFds, f) <= Shares(p, f)
        /\ Shares(p, f) \in Nat /\ Shares(p, f) <= Descs(f)
    BY <1>9, PutsShares
  <2> QED
    BY <1>7, <2>1
<1>10. \A p \in OfProcs \ {q} : ofWait[p].file # f
  BY <1>8 DEF A
<1> QED
  BY <1>1, <1>7, <1>9, <1>10

\* A free slot and the least free descriptor.
LEMMA FreeSlot ==
  ASSUME OfInv, NEW f \in FreeFiles
  PROVE  /\ f \in OfFiles /\ ofFile[f].ref = 0 /\ Descs(f) = 0 /\ Calls(f) = 0
         /\ f # nobody
<1>1. f \in OfFiles /\ ofFile[f].ref = 0 /\ ofFile[f].ref = Descs(f) + Calls(f)
  BY DEF OfInv, FilesAdd, FreeFiles
<1>2. Calls(f) \in Nat
  <2>1. {p \in OfProcs : ofWait[p].file = f} \in SUBSET OfProcs
    OBVIOUS
  <2> QED
    BY <2>1, OfFinite, FS_Subset, FS_CardinalityType DEF Calls
<1>3. Descs(f) \in Nat
  BY PutsShares, OpenFilesAssumption DEF OpenFilesAssumption
<1> QED
  BY <1>1, <1>2, <1>3, OpenFilesAssumption DEF OpenFilesAssumption, nobody

LEMMA FreeDesc ==
  ASSUME NEW p, NEW low, FreeFds(p, low) # {}
  PROVE  /\ Min(FreeFds(p, low)) \in OfFds /\ ofFd[p][Min(FreeFds(p, low))].file = nobody
<1> DEFINE T == FreeFds(p, low)
<1>1. T \subseteq OfFds /\ \A d \in T : ofFd[p][d].file = nobody
  BY DEF FreeFds
<1>2. T \subseteq Nat
  BY <1>1, OpenFilesAssumption DEF OpenFilesAssumption
<1> HIDE DEF T
<1>3. \E n \in T : \A m \in T : n <= m
  <2>1. T # {}
    BY DEF T
  <2> QED
    BY <1>2, <2>1, LeastOf
<1>4. Min(T) \in T
  BY <1>3 DEF Min
<1> QED
  BY <1>1, <1>4 DEF T

\* The start: one process with its directories.
LEMMA OfInitInv == OfInit => OfInv
<1> SUFFICES ASSUME OfInit PROVE OfInv
  OBVIOUS
<1> USE OpenFilesAssumption DEF OpenFilesAssumption
<1>1. OfTypeOK
  BY DEF OfInit, OfTypeOK, OfDescs, OfSlots, OfCalls, OfPlaces, EmptyFd, NoFile, NoWait, nobody, OfInodes
<1>2. \A f \in OfFiles : Descs(f) = 0 /\ Calls(f) = 0
  <2> SUFFICES ASSUME NEW f \in OfFiles PROVE Descs(f) = 0 /\ Calls(f) = 0
    OBVIOUS
  <2>1. {x \in OfProcs \X OfFds : ofFd[x[1]][x[2]].file = f} = {}
    BY DEF OfInit, EmptyFd, nobody
  <2>2. {p \in OfProcs : ofWait[p].file = f} = {}
    BY DEF OfInit, NoWait, nobody
  <2> QED
    BY <2>1, <2>2, FS_EmptySet DEF Descs, Calls
<1>3. FilesAdd
  BY <1>2 DEF FilesAdd, OfInit, NoFile
<1>4. \A i \in OfInodes : Openers(i) = 0 /\ Arrivals(i) = 0
  <2> SUFFICES ASSUME NEW i \in OfInodes PROVE Openers(i) = 0 /\ Arrivals(i) = 0
    OBVIOUS
  <2>1. {f \in OfFiles : InUse(f) /\ ofFile[f].ino = i} = {}
    BY DEF OfInit, InUse, NoFile
  <2>2. {p \in OfProcs : ofWait[p].ino = i} = {}
    BY DEF OfInit, NoWait, nobody, OfInodes
  <2> QED
    BY <2>1, <2>2, FS_EmptySet DEF Openers, Arrivals
<1>5. \A i \in OfInodes : Seats(i) = IF i = "dir" THEN 2 ELSE 0
  <2> SUFFICES ASSUME NEW i \in OfInodes PROVE Seats(i) = IF i = "dir" THEN 2 ELSE 0
    OBVIOUS
  <2> DEFINE A == {x \in OfProcs \X OfPlaces : ofAt[x[1]][x[2]] = i}
  <2>1. Seats(i) = Cardinality(A)
    BY DEF Seats
  <2>2. ASSUME i # "dir" PROVE A = {}
    BY <2>2 DEF OfInit, OfPlaces, nobody, OfInodes
  <2>3. ASSUME i = "dir" PROVE A = {<<OfFirst, "cwd">>} \cup {<<OfFirst, "root">>}
    BY <2>3 DEF OfInit, OfPlaces, nobody, OfInodes
  <2>4. /\ IsFiniteSet({<<OfFirst, "cwd">>}) /\ Cardinality({<<OfFirst, "cwd">>}) = 1
        /\ <<OfFirst, "root">> \notin {<<OfFirst, "cwd">>}
    BY FS_Singleton
  <2>5. Cardinality({<<OfFirst, "cwd">>} \cup {<<OfFirst, "root">>}) = 1 + 1
    BY <2>4, FS_AddElement
  <2> HIDE DEF A
  <2> QED
    BY <2>1, <2>2, <2>3, <2>5, FS_EmptySet, SMTT(60)
<1>6. InodesAdd
  BY <1>4, <1>5 DEF InodesAdd, OfInit
<1>7. LineFiles = {} /\ LineWaits = {}
  BY DEF LineFiles, LineWaits, OfInit, InUse, NoFile, NoWait
<1>8. LineAdds
  BY <1>7, FS_EmptySet DEF LineAdds, OfInit
<1>9. DeadHold
  BY DEF DeadHold, OfInit, EmptyFd, OfPlaces
<1>10. WaitsOwn
  BY <1>7 DEF WaitsOwn, OfInit
<1> QED
  BY <1>1, <1>3, <1>6, <1>8, <1>9, <1>10 DEF OfInv

\* The calls that wait are left alone when process p, which does not wait,
\* changes its own descriptors, and the files they wait with stay as they are.
LEMMA WaitsKept ==
  ASSUME OfInv, NEW p \in OfProcs, p \notin LineWaits,
         \A q \in OfProcs \ {p} : ofFd'[q] = ofFd[q],
         ofWait' = ofWait, ofUnit'.dev = ofUnit.dev,
         \A q \in LineWaits : ofFile'[ofWait[q].file] = ofFile[ofWait[q].file],
         \A f \in OfFiles : InUse(f)' => InUse(f) /\ ofFile'[f].ino = ofFile[f].ino
  PROVE  WaitsOwn'
<1>1. LineWaits' = LineWaits
  BY DEF LineWaits
<1>2. ASSUME NEW q \in LineWaits
      PROVE  /\ ofWait[q].file \in OfFiles /\ IsLine(ofWait[q].ino)
             /\ ofWait[q].ino = ofUnit'.dev /\ FreeFds(q, 0)' # {}
             /\ ofFile'[ofWait[q].file].ref = 1 /\ ofFile'[ofWait[q].file].ino = nobody
  <2>1. q \in OfProcs \ {p}
    BY <1>2 DEF LineWaits
  <2>2. FreeFds(q, 0)' = FreeFds(q, 0)
    BY <2>1 DEF FreeFds
  <2> QED
    BY <2>1, <2>2 DEF OfInv, WaitsOwn
<1>3. \A q \in OfProcs \ LineWaits : ofWait[q] = NoWait
  BY DEF OfInv, WaitsOwn
<1>4. \A f \in LineFiles' : f \in LineFiles /\ ofFile'[f].ino = ofFile[f].ino
  BY DEF LineFiles, IsLine
<1>5. \A f \in LineFiles' : ofFile'[f].ino = ofUnit'.dev
  BY <1>4 DEF OfInv, WaitsOwn
<1> QED
  BY <1>1, <1>2, <1>3, <1>5 DEF WaitsOwn, IsLine

\* How the sums are typed.
LEMMA OfSums ==
  ASSUME NEW f, NEW i
  PROVE  /\ Descs(f) \in Nat /\ Calls(f) \in Nat /\ Openers(i) \in Nat /\ Seats(i) \in Nat
         /\ Arrivals(i) \in Nat /\ Cardinality(LineFiles) \in Nat /\ Cardinality(LineWaits) \in Nat
<1>1. /\ \E p : p \in OfProcs
      /\ {g \in OfFiles : InUse(g) /\ ofFile[g].ino = i} \in SUBSET OfFiles
      /\ {p \in OfProcs : ofWait[p].file = f} \in SUBSET OfProcs
      /\ {p \in OfProcs : ofWait[p].ino = i} \in SUBSET OfProcs
      /\ LineFiles \in SUBSET OfFiles /\ LineWaits \in SUBSET OfProcs
  BY OpenFilesAssumption DEF OpenFilesAssumption, LineFiles, LineWaits
<1>2. Descs(f) \in Nat
  BY <1>1, PutsShares
<1>3. Seats(i) \in Nat
  <2>1. {x \in OfProcs \X OfPlaces : ofAt[x[1]][x[2]] = i} \in SUBSET (OfProcs \X OfPlaces)
    OBVIOUS
  <2>2. OfPlaces = ({"cwd"} \cup {"root"}) \cup {"tty"}
    BY DEF OfPlaces
  <2>3. IsFiniteSet({"cwd"} \cup {"root"})
    BY FS_Singleton, FS_AddElement
  <2>4. IsFiniteSet(({"cwd"} \cup {"root"}) \cup {"tty"})
    BY <2>3, FS_AddElement
  <2>5. IsFiniteSet(OfProcs \X OfPlaces)
    BY <2>2, <2>4, OfFinite, FS_Product
  <2> QED
    BY <2>1, <2>5, FS_Subset, FS_CardinalityType DEF Seats
<1>4. Openers(i) \in Nat /\ Calls(f) \in Nat /\ Arrivals(i) \in Nat
  BY <1>1, OfFinite, FS_Subset, FS_CardinalityType DEF Openers, Calls, Arrivals
<1>5. Cardinality(LineFiles) \in Nat /\ Cardinality(LineWaits) \in Nat
  BY <1>1, OfFinite, FS_Subset, FS_CardinalityType
<1> QED
  BY <1>2, <1>3, <1>4, <1>5

\* close, exec and exit: the descriptors ds of p are put, and their files are
\* closed with the last one.
LEMMA PutsKeep ==
  ASSUME OfInv, NEW p \in OfProcs, p \notin LineWaits, NEW ds \in SUBSET OfFds,
         PutFds(p, ds), ofFd' \in [OfProcs -> [OfFds -> OfDescs]],
         \A q \in OfProcs \ {p} : ofFd'[q] = ofFd[q],
         \A d \in OfFds : ofFd'[p][d] = IF d \in ds THEN EmptyFd ELSE ofFd[p][d],
         ofWait' = ofWait
  PROVE  /\ ofFile' \in [OfFiles -> OfSlots]
         /\ ofUnit' \in [open : Int, dev : {"line", "modem"}, carrier : BOOLEAN]
         /\ FilesAdd' /\ LineAdds' /\ WaitsOwn'
         /\ \A i \in OfInodes : /\ UseAfter(Dropped(p, ds))[i] \in Int
                                /\ UseAfter(Dropped(p, ds))[i] = ofUse[i] - Openers(i) + Openers(i)'
                                /\ Openers(i)' \in Nat
<1> DEFINE fs == Dropped(p, ds)
<1>1. ofFile' = FilesAfter(p, ds) /\ ofUnit' = UnitAfter(fs)
  BY DEF PutFds
<1>2. \A f \in OfFiles :
        /\ ofFile'[f] \in OfSlots /\ ofFile'[f].ref \in Nat /\ Puts(p, ds, f) \in Nat
        /\ ofFile'[f].ref = ofFile[f].ref - Puts(p, ds, f)
        /\ f \in fs => InUse(f)
        /\ InUse(f)' <=> InUse(f) /\ f \notin fs
        /\ InUse(f)' => ofFile'[f].ino = ofFile[f].ino
  BY <1>1, PutFiles DEF InUse
<1>3. ofFile' \in [OfFiles -> OfSlots]
  <2>1. ofFile' = [f \in OfFiles |-> ofFile'[f]]
    BY <1>1 DEF FilesAfter
  <2> QED
    BY <1>2, <2>1
<1>4. fs \in SUBSET OfFiles /\ \A f \in fs : InUse(f)
  BY <1>2 DEF Dropped
<1> HIDE DEF fs
<1>5. \A i \in OfInodes :
             /\ Openers(i) \in Nat /\ Openers(i)' \in Nat
             /\ Cardinality({f \in fs : ofFile[f].ino = i}) \in Nat /\ ClosedLines(fs) \in Nat
             /\ Openers(i)' = Openers(i) - Cardinality({f \in fs : ofFile[f].ino = i})
             /\ Cardinality(LineFiles) \in Nat /\ Cardinality(LineFiles') \in Nat
             /\ Cardinality(LineFiles') = Cardinality(LineFiles) - ClosedLines(fs)
  BY <1>2, <1>4, FilesGo
<1>l. /\ ClosedLines(fs) \in Nat /\ Cardinality(LineFiles) \in Nat /\ Cardinality(LineFiles') \in Nat
      /\ Cardinality(LineFiles') = Cardinality(LineFiles) - ClosedLines(fs)
  <2>1. "dir" \in OfInodes
    BY DEF OfInodes
  <2> QED
    BY <1>5, <2>1, Zenon
<1>6. ofUnit \in [open : Int, dev : {"line", "modem"}, carrier : BOOLEAN]
  BY DEF OfInv, OfTypeOK
<1>7. /\ ofUnit' \in [open : Int, dev : {"line", "modem"}, carrier : BOOLEAN]
      /\ ofUnit'.open = ofUnit.open - ClosedLines(fs) /\ ofUnit'.dev = ofUnit.dev
  <2>1. ofUnit.open - ClosedLines(fs) \in Int
    BY <1>l, <1>6
  <2>2. ofUnit' = [open |-> ofUnit.open - ClosedLines(fs), dev |-> ofUnit.dev,
                   carrier |-> ofUnit.carrier]
    BY <1>1, <1>6 DEF UnitAfter
  <2> QED
    BY <2>1, <2>2, <1>6
<1>8. FilesAdd'
  <2> SUFFICES ASSUME NEW f \in OfFiles PROVE ofFile'[f].ref = Descs(f)' + Calls(f)'
    BY DEF FilesAdd
  <2>1. /\ Descs(f) \in Nat /\ Descs(f)' \in Nat /\ Shares(p, f) \in Nat /\ Shares(p, f)' \in Nat
        /\ Descs(f)' = Descs(f) - Shares(p, f) + Shares(p, f)'
    BY FdRow
  <2>2. Shares(p, f)' = Shares(p, f) - Puts(p, ds, f)
    BY SharesAfter
  <2>3. Calls(f)' = Calls(f) /\ Calls(f) \in Nat
    BY OfSums DEF Calls
  <2>4. ofFile[f].ref = Descs(f) + Calls(f) /\ ofFile'[f].ref = ofFile[f].ref - Puts(p, ds, f)
        /\ Puts(p, ds, f) \in Nat
    BY <1>2 DEF OfInv, FilesAdd
  <2> QED
    BY <2>1, <2>2, <2>3, <2>4
<1>9. LineAdds'
  <2>1. LineWaits' = LineWaits /\ Cardinality(LineWaits) \in Nat
    BY OfSums DEF LineWaits
  <2>2. ofUnit.open = Cardinality(LineFiles) + Cardinality(LineWaits)
    BY DEF OfInv, LineAdds
  <2>3. ofUnit'.open = Cardinality(LineFiles') + Cardinality(LineWaits)
    BY <1>l, <1>7, <2>1, <2>2
  <2> QED
    BY <2>1, <2>3 DEF LineAdds
<1>10. WaitsOwn'
  <2>1. ASSUME NEW q \in LineWaits PROVE ofFile'[ofWait[q].file] = ofFile[ofWait[q].file]
    <3> DEFINE f == ofWait[q].file
    <3>1. f \in OfFiles /\ \A d \in OfFds : ofFd[p][d].file # f
      BY SlotOwn
    <3>2. Puts(p, ds, f) = 0
      <4>1. {d \in ds : ofFd[p][d].file = f} = {}
        BY <3>1
      <4> QED
        BY <4>1, FS_EmptySet DEF Puts
    <3> HIDE DEF f
    <3>3. ofFile[f] \in OfSlots
      BY <3>1 DEF OfInv, OfTypeOK
    <3>4. f \notin Dropped(p, ds)
      BY <3>2 DEF Dropped
    <3>5. ofFile'[f] = [ofFile[f] EXCEPT !.ref = @ - Puts(p, ds, f)]
      BY <1>1, <3>1, <3>4 DEF FilesAfter
    <3>6. ofFile'[f] = ofFile[f]
      BY <3>2, <3>3, <3>5 DEF OfSlots
    <3> QED
      BY <3>6 DEF f
  <2> QED
    BY <1>2, <1>7, <2>1, WaitsKept
<1>11. \A i \in OfInodes : /\ UseAfter(fs)[i] \in Int
                           /\ UseAfter(fs)[i] = ofUse[i] - Openers(i) + Openers(i)'
  <2> SUFFICES ASSUME NEW i \in OfInodes
               PROVE  UseAfter(fs)[i] \in Int /\ UseAfter(fs)[i] = ofUse[i] - Openers(i) + Openers(i)'
    OBVIOUS
  <2>1. ofUse[i] \in Int
    BY DEF OfInv, OfTypeOK
  <2>2. UseAfter(fs)[i] = ofUse[i] - Cardinality({f \in fs : ofFile[f].ino = i})
    BY DEF UseAfter
  <2>3. /\ Openers(i) \in Nat /\ Openers(i)' \in Nat
        /\ Cardinality({f \in fs : ofFile[f].ino = i}) \in Nat
        /\ Openers(i)' = Openers(i) - Cardinality({f \in fs : ofFile[f].ino = i})
    BY <1>5, Zenon
  <2> DEFINE n == Cardinality({f \in fs : ofFile[f].ino = i})
  <2> HIDE DEF n
  <2>4. n \in Nat /\ Openers(i)' = Openers(i) - n /\ UseAfter(fs)[i] = ofUse[i] - n
    BY <2>2, <2>3 DEF n
  <2> QED
    BY <2>1, <2>3, <2>4
<1> QED
  BY <1>3, <1>5, <1>7, <1>8, <1>9, <1>10, <1>11 DEF fs

\* A process that runs exists and does not wait.
LEMMA OfRuns ==
  ASSUME OfInv, NEW p \in OfProcs, ofWait[p] = NoWait
  PROVE  p \notin LineWaits
BY DEF LineWaits, NoWait

LEMMA OfCloseKeeps ==
  ASSUME OfInv, NEW p \in OfProcs, NEW d \in OfFds, OfClose(p, d)
  PROVE  OfInv'
<1>1. /\ p \in ofLive /\ ofWait[p] = NoWait /\ PutFds(p, {d})
      /\ ofUse' = UseAfter(Dropped(p, {d})) /\ ofFd' = [ofFd EXCEPT ![p][d] = EmptyFd]
      /\ ofLive' = ofLive /\ ofAt' = ofAt /\ ofWait' = ofWait /\ ofLost' = ofLost
  BY DEF OfClose, OfRunning
<1>t. OfTypeOK
  BY DEF OfInv
<1>2. /\ ofFd' \in [OfProcs -> [OfFds -> OfDescs]] /\ p \notin LineWaits
      /\ \A q \in OfProcs \ {p} : ofFd'[q] = ofFd[q]
      /\ \A e \in OfFds : ofFd'[p][e] = IF e \in {d} THEN EmptyFd ELSE ofFd[p][e]
  <2>1. EmptyFd \in OfDescs
    BY DEF EmptyFd, OfDescs
  <2>2. ofFd \in [OfProcs -> [OfFds -> OfDescs]]
    BY <1>t DEF OfTypeOK
  <2> QED
    BY <1>1, <2>1, <2>2, OfRuns
<1>3. /\ ofFile' \in [OfFiles -> OfSlots]
      /\ ofUnit' \in [open : Int, dev : {"line", "modem"}, carrier : BOOLEAN]
      /\ FilesAdd' /\ LineAdds' /\ WaitsOwn'
      /\ \A i \in OfInodes : ofUse'[i] \in Int /\ Openers(i)' \in Nat
                             /\ ofUse'[i] = ofUse[i] - Openers(i) + Openers(i)'
  BY <1>1, <1>2, PutsKeep
<1>4. ofUse' \in [OfInodes -> Int]
  BY <1>1, <1>3 DEF UseAfter
<1>5. OfTypeOK'
  BY <1>t, <1>1, <1>2, <1>3, <1>4 DEF OfTypeOK
<1>6. InodesAdd'
  <2> SUFFICES ASSUME NEW i \in OfInodes
               PROVE  ofUse'[i] = ofLost'[i] + Openers(i)' + Seats(i)' + Arrivals(i)'
    BY DEF InodesAdd
  <2>1. Seats(i)' = Seats(i) /\ Arrivals(i)' = Arrivals(i)
    BY <1>1 DEF Seats, Arrivals
  <2>2. /\ ofUse[i] = ofLost[i] + Openers(i) + Seats(i) + Arrivals(i) /\ ofLost[i] \in Nat
        /\ Openers(i) \in Nat /\ Seats(i) \in Nat /\ Arrivals(i) \in Nat /\ Openers(i)' \in Nat
    BY <1>t, <1>3, OfSums DEF OfInv, InodesAdd, OfTypeOK
  <2>3. ofUse'[i] = ofUse[i] - Openers(i) + Openers(i)' /\ ofLost'[i] = ofLost[i]
    BY <1>1, <1>3, Zenon
  <2> QED
    BY <2>1, <2>2, <2>3
<1>7. DeadHold'
  BY <1>1, <1>2 DEF OfInv, DeadHold, EmptyFd
<1> QED
  BY <1>3, <1>5, <1>6, <1>7 DEF OfInv

LEMMA OfExecKeeps ==
  ASSUME OfInv, NEW p \in OfProcs, OfExec(p)
  PROVE  OfInv'
<1> DEFINE ds == {d \in OfFds : ofFd[p][d].cloexec}
<1>1. /\ p \in ofLive /\ ofWait[p] = NoWait /\ PutFds(p, ds) /\ ds \in SUBSET OfFds
      /\ ofUse' = UseAfter(Dropped(p, ds))
      /\ ofFd' = [ofFd EXCEPT ![p] = [d \in OfFds |-> IF d \in ds THEN EmptyFd ELSE @[d]]]
      /\ ofLive' = ofLive /\ ofAt' = ofAt /\ ofWait' = ofWait /\ ofLost' = ofLost
  BY DEF OfExec, OfRunning
<1> HIDE DEF ds
<1>t. OfTypeOK
  BY DEF OfInv
<1>2. /\ ofFd' \in [OfProcs -> [OfFds -> OfDescs]] /\ p \notin LineWaits
      /\ \A q \in OfProcs \ {p} : ofFd'[q] = ofFd[q]
      /\ \A e \in OfFds : ofFd'[p][e] = IF e \in ds THEN EmptyFd ELSE ofFd[p][e]
  <2>1. EmptyFd \in OfDescs
    BY DEF EmptyFd, OfDescs
  <2>2. ofFd \in [OfProcs -> [OfFds -> OfDescs]]
    BY <1>t DEF OfTypeOK
  <2> QED
    BY <1>1, <2>1, <2>2, OfRuns
<1>3. /\ ofFile' \in [OfFiles -> OfSlots]
      /\ ofUnit' \in [open : Int, dev : {"line", "modem"}, carrier : BOOLEAN]
      /\ FilesAdd' /\ LineAdds' /\ WaitsOwn'
      /\ \A i \in OfInodes : ofUse'[i] \in Int /\ Openers(i)' \in Nat
                             /\ ofUse'[i] = ofUse[i] - Openers(i) + Openers(i)'
  BY <1>1, <1>2, PutsKeep
<1>4. ofUse' \in [OfInodes -> Int]
  BY <1>1, <1>3 DEF UseAfter
<1>5. OfTypeOK'
  BY <1>t, <1>1, <1>2, <1>3, <1>4 DEF OfTypeOK
<1>6. InodesAdd'
  <2> SUFFICES ASSUME NEW i \in OfInodes
               PROVE  ofUse'[i] = ofLost'[i] + Openers(i)' + Seats(i)' + Arrivals(i)'
    BY DEF InodesAdd
  <2>1. Seats(i)' = Seats(i) /\ Arrivals(i)' = Arrivals(i)
    BY <1>1 DEF Seats, Arrivals
  <2>2. /\ ofUse[i] = ofLost[i] + Openers(i) + Seats(i) + Arrivals(i) /\ ofLost[i] \in Nat
        /\ Openers(i) \in Nat /\ Seats(i) \in Nat /\ Arrivals(i) \in Nat /\ Openers(i)' \in Nat
    BY <1>t, <1>3, OfSums DEF OfInv, InodesAdd, OfTypeOK
  <2>3. ofUse'[i] = ofUse[i] - Openers(i) + Openers(i)' /\ ofLost'[i] = ofLost[i]
    BY <1>1, <1>3, Zenon
  <2> QED
    BY <2>1, <2>2, <2>3
<1>7. DeadHold'
  BY <1>1, <1>2 DEF OfInv, DeadHold, EmptyFd
<1> QED
  BY <1>3, <1>5, <1>6, <1>7 DEF OfInv

\* exit puts the directories and the terminal as well.
LEMMA OfExitKeeps ==
  ASSUME OfInv, NEW p \in OfProcs, OfExit(p)
  PROVE  OfInv'
<1>1. /\ p \in ofLive /\ ofWait[p] = NoWait /\ PutFds(p, OfFds)
      /\ ofUse' = [i \in OfInodes |-> UseAfter(Dropped(p, OfFds))[i] - UsedAt(p, i)]
      /\ ofFd' = [ofFd EXCEPT ![p] = [d \in OfFds |-> EmptyFd]]
      /\ ofAt' = [ofAt EXCEPT ![p] = [w \in OfPlaces |-> nobody]]
      /\ ofLive' = ofLive \ {p} /\ ofWait' = ofWait /\ ofLost' = ofLost
  BY DEF OfExit, OfPlaces
<1>t. OfTypeOK
  BY DEF OfInv
<1>2. /\ ofFd' \in [OfProcs -> [OfFds -> OfDescs]] /\ p \notin LineWaits
      /\ \A q \in OfProcs \ {p} : ofFd'[q] = ofFd[q]
      /\ \A e \in OfFds : ofFd'[p][e] = IF e \in OfFds THEN EmptyFd ELSE ofFd[p][e]
  <2>1. EmptyFd \in OfDescs
    BY DEF EmptyFd, OfDescs
  <2>2. ofFd \in [OfProcs -> [OfFds -> OfDescs]]
    BY <1>t DEF OfTypeOK
  <2> QED
    BY <1>1, <2>1, <2>2, OfRuns
<1>3. /\ ofFile' \in [OfFiles -> OfSlots]
      /\ ofUnit' \in [open : Int, dev : {"line", "modem"}, carrier : BOOLEAN]
      /\ FilesAdd' /\ LineAdds' /\ WaitsOwn'
      /\ \A i \in OfInodes : /\ UseAfter(Dropped(p, OfFds))[i] \in Int
                             /\ Openers(i)' \in Nat
                             /\ UseAfter(Dropped(p, OfFds))[i] = ofUse[i] - Openers(i) + Openers(i)'
  <2>1. OfFds \in SUBSET OfFds
    OBVIOUS
  <2> QED
    BY <1>1, <1>2, <2>1, PutsKeep
<1>8. /\ ofAt' \in [OfProcs -> [OfPlaces -> OfInodes \cup {nobody}]]
      /\ \A q \in OfProcs \ {p} : ofAt'[q] = ofAt[q]
      /\ DOMAIN ofAt[p] = OfPlaces /\ DOMAIN ofAt'[p] = OfPlaces
      /\ \A w \in OfPlaces : ofAt'[p][w] = nobody
  <2>1. ofAt \in [OfProcs -> [OfPlaces -> OfInodes \cup {nobody}]]
    BY <1>t DEF OfTypeOK
  <2> QED
    BY <1>1, <2>1
<1>9. ASSUME NEW i \in OfInodes
      PROVE  /\ Seats(i) \in Nat /\ Seats(i)' \in Nat /\ UsedAt(p, i) \in Nat
             /\ Seats(i)' = Seats(i) - UsedAt(p, i)
  <2>1. /\ Seats(i) \in Nat /\ Seats(i)' \in Nat /\ UsedAt(p, i) \in Nat /\ UsedAt(p, i)' \in Nat
        /\ Seats(i)' = Seats(i) - UsedAt(p, i) + UsedAt(p, i)'
    BY <1>8, AtRow
  <2>2. {w \in DOMAIN ofAt'[p] : ofAt'[p][w] = i} = {}
    BY <1>8 DEF OfInodes, nobody
  <2>3. UsedAt(p, i)' = 0
    BY <2>2, FS_EmptySet DEF UsedAt
  <2> QED
    BY <2>1, <2>3
<1>4. ofUse' \in [OfInodes -> Int]
  BY <1>1, <1>3, <1>9
<1>5. OfTypeOK'
  BY <1>t, <1>1, <1>2, <1>3, <1>4, <1>8 DEF OfTypeOK
<1>6. InodesAdd'
  <2> SUFFICES ASSUME NEW i \in OfInodes
               PROVE  ofUse'[i] = ofLost'[i] + Openers(i)' + Seats(i)' + Arrivals(i)'
    BY DEF InodesAdd
  <2>1. Arrivals(i)' = Arrivals(i)
    BY <1>1 DEF Arrivals
  <2>2. /\ ofUse[i] = ofLost[i] + Openers(i) + Seats(i) + Arrivals(i) /\ ofLost[i] \in Nat
        /\ Openers(i) \in Nat /\ Seats(i) \in Nat /\ Arrivals(i) \in Nat /\ Openers(i)' \in Nat
    BY <1>t, <1>3, OfSums DEF OfInv, InodesAdd, OfTypeOK
  <2>3. ofUse'[i] = UseAfter(Dropped(p, OfFds))[i] - UsedAt(p, i)
    BY <1>1
  <2>4. ofUse'[i] = (ofUse[i] - Openers(i) + Openers(i)') - UsedAt(p, i)
    <3>1. UseAfter(Dropped(p, OfFds))[i] = ofUse[i] - Openers(i) + Openers(i)'
      BY <1>3
    <3> QED
      BY <2>3, <3>1, Zenon
  <2>5. /\ Seats(i)' \in Nat /\ UsedAt(p, i) \in Nat /\ Seats(i)' = Seats(i) - UsedAt(p, i)
        /\ ofLost'[i] = ofLost[i]
    BY <1>1, <1>9
  <2> QED
    BY <2>1, <2>2, <2>4, <2>5
<1>7. DeadHold'
  <2> SUFFICES ASSUME NEW q \in OfProcs \ ofLive'
               PROVE  /\ ofWait'[q] = NoWait /\ \A d \in OfFds : ofFd'[q][d].file = nobody
                      /\ \A w \in OfPlaces : ofAt'[q][w] = nobody
    BY DEF DeadHold
  <2>1. CASE q = p
    BY <1>1, <1>2, <1>8, <2>1 DEF EmptyFd
  <2>2. CASE q # p
    BY <1>1, <1>2, <1>8, <2>2 DEF OfInv, DeadHold
  <2> QED
    BY <2>1, <2>2
<1> QED
  BY <1>3, <1>5, <1>6, <1>7 DEF OfInv

\* A file that was not an open one of any inode (it is free, or a call waits
\* with it) becomes that of inode i, in the least free descriptor of p.
LEMMA StoredFile ==
  ASSUME OfInv, NEW p \in OfProcs, NEW f \in OfFiles, NEW i \in OfInodes,
         FreeFds(p, 0) # {}, OfStored(p, f, i), InUse(f) => ofFile[f].ino = nobody
  PROVE  /\ ofFile' \in [OfFiles -> OfSlots] /\ ofFd' \in [OfProcs -> [OfFds -> OfDescs]]
         /\ ofFile'[f] = [ref |-> 1, ino |-> i] /\ \A g \in OfFiles \ {f} : ofFile'[g] = ofFile[g]
         /\ \A q \in OfProcs \ {p} : ofFd'[q] = ofFd[q]
         /\ \A g \in OfFiles : Descs(g)' = Descs(g) + OfOne(g = f)
         /\ \A j \in OfInodes : Openers(j)' = Openers(j) + OfOne(i = j)
         /\ f \notin LineFiles /\ LineFiles' = LineFiles \cup {g \in {f} : IsLine(i)}
         /\ Cardinality(LineFiles') = Cardinality(LineFiles) + OfOne(IsLine(i))
<1> DEFINE d == Min(FreeFds(p, 0))
<1>1. d \in OfFds /\ ofFd[p][d].file = nobody
  BY FreeDesc
<1>2. /\ ofFile' = [ofFile EXCEPT ![f] = [ref |-> 1, ino |-> i]]
      /\ ofFd' = [ofFd EXCEPT ![p][d] = [file |-> f, cloexec |-> FALSE]]
  BY DEF OfStored
<1> HIDE DEF d
<1>3. /\ ofFile \in [OfFiles -> OfSlots] /\ ofFd \in [OfProcs -> [OfFds -> OfDescs]]
  BY DEF OfInv, OfTypeOK
<1>4. /\ [ref |-> 1, ino |-> i] \in OfSlots /\ [file |-> f, cloexec |-> FALSE] \in OfDescs
      /\ nobody \notin OfFiles /\ i # nobody
  BY OpenFilesAssumption DEF OfSlots, OfDescs, OpenFilesAssumption, nobody, OfInodes
<1>5. /\ ofFile' \in [OfFiles -> OfSlots] /\ ofFd' \in [OfProcs -> [OfFds -> OfDescs]]
  BY <1>1, <1>2, <1>3, <1>4
<1>6. /\ ofFile'[f] = [ref |-> 1, ino |-> i] /\ \A g \in OfFiles \ {f} : ofFile'[g] = ofFile[g]
      /\ \A q \in OfProcs \ {p} : ofFd'[q] = ofFd[q]
      /\ \A e \in OfFds \ {d} : ofFd'[p][e] = ofFd[p][e]
      /\ ofFd'[p][d].file = f
  BY <1>1, <1>2, <1>3
<1>7. ASSUME NEW g \in OfFiles PROVE Descs(g)' = Descs(g) + OfOne(g = f)
  <2>1. /\ Descs(g) \in Nat /\ Descs(g)' \in Nat /\ Shares(p, g) \in Nat /\ Shares(p, g)' \in Nat
        /\ Descs(g)' = Descs(g) - Shares(p, g) + Shares(p, g)'
    BY <1>6, FdRow
  <2>2. Shares(p, g)' = Shares(p, g) - OfOne(ofFd[p][d].file = g) + OfOne(ofFd'[p][d].file = g)
    BY <1>1, <1>6, SharesOne
  <2>3. OfOne(ofFd[p][d].file = g) = 0 /\ OfOne(ofFd'[p][d].file = g) = OfOne(g = f)
        /\ OfOne(g = f) \in Nat
    BY <1>1, <1>4, <1>6 DEF OfOne
  <2> QED
    BY <2>1, <2>2, <2>3
<1>8. \A g \in OfFiles \ {f} : InUse(g)' = InUse(g) /\ (InUse(g) => ofFile'[g].ino = ofFile[g].ino)
  BY <1>6 DEF InUse
<1>9. InUse(f)' /\ ofFile'[f].ino = i
  BY <1>6 DEF InUse
<1>10. f \notin LineFiles /\ (f \in LineFiles') = IsLine(i)
  BY <1>4, <1>9 DEF LineFiles, IsLine, nobody
<1>11. ASSUME NEW j \in OfInodes
       PROVE  /\ Openers(j)' = Openers(j) + OfOne(i = j)
              /\ Cardinality(LineFiles') = Cardinality(LineFiles) + OfOne(IsLine(i))
  <2>1. /\ Openers(j) \in Nat /\ Openers(j)' \in Nat
        /\ Openers(j)' = Openers(j) - OfOne(InUse(f) /\ ofFile[f].ino = j)
                         + OfOne(InUse(f)' /\ ofFile'[f].ino = j)
        /\ Cardinality(LineFiles) \in Nat /\ Cardinality(LineFiles') \in Nat
        /\ Cardinality(LineFiles') = Cardinality(LineFiles) - OfOne(f \in LineFiles)
                                     + OfOne(f \in LineFiles')
    BY <1>8, OneFile
  <2>2. ~ (InUse(f) /\ ofFile[f].ino = j)
    BY DEF OfInodes, nobody
  <2>3. /\ OfOne(InUse(f) /\ ofFile[f].ino = j) = 0
        /\ OfOne(InUse(f)' /\ ofFile'[f].ino = j) = OfOne(i = j)
        /\ OfOne(f \in LineFiles) = 0 /\ OfOne(f \in LineFiles') = OfOne(IsLine(i))
        /\ OfOne(i = j) \in Nat /\ OfOne(IsLine(i)) \in Nat
    BY <1>9, <1>10, <2>2 DEF OfOne
  <2> QED
    BY <2>1, <2>3
<1>12. LineFiles' = LineFiles \cup {g \in {f} : IsLine(i)}
  BY <1>8, <1>9, <1>10 DEF LineFiles, IsLine
<1> QED
  BY <1>5, <1>6, <1>7, <1>10, <1>11, <1>12

\* A call of a process that does not wait changes at most its own row of the
\* descriptors; the uses of the inodes are counted when what the files, the
\* places and the calls gain is what the counts gain.
LEMMA InodesKeep ==
  ASSUME OfInv, NEW i \in OfInodes, NEW o \in Int, NEW a \in Int, NEW w \in Int,
         Openers(i)' = Openers(i) + o, Seats(i)' = Seats(i) + a, Arrivals(i)' = Arrivals(i) + w,
         ofUse'[i] - ofLost'[i] = (ofUse[i] - ofLost[i]) + ((o + a) + w),
         ofUse'[i] \in Int, ofLost'[i] \in Int
  PROVE  ofUse'[i] = ofLost'[i] + Openers(i)' + Seats(i)' + Arrivals(i)'
<1>1. ofUse[i] = ofLost[i] + Openers(i) + Seats(i) + Arrivals(i)
  BY DEF OfInv, InodesAdd
<1>2. /\ ofLost[i] \in Nat /\ ofUse[i] \in Int
      /\ Openers(i) \in Nat /\ Seats(i) \in Nat /\ Arrivals(i) \in Nat
  BY OfSums DEF OfInv, OfTypeOK
<1>3. \A u, l, x, y, z, v, m \in Int :
        /\ u = l + x + y + z /\ v - m = (u - l) + ((o + a) + w)
        => v = m + (x + o) + (y + a) + (z + w)
  OBVIOUS
<1>4. ofUse'[i] = ofLost'[i] + (Openers(i) + o) + (Seats(i) + a) + (Arrivals(i) + w)
  BY <1>1, <1>2, <1>3
<1> QED
  BY <1>4, Zenon

\* One more use of an inode.
LEMMA OfGotOne ==
  ASSUME OfInv, NEW i \in OfInodes
  PROVE  /\ OfGot(ofUse, i) \in [OfInodes -> Int]
         /\ \A j \in OfInodes : OfGot(ofUse, i)[j] = ofUse[j] + OfOne(i = j)
<1>1. ofUse \in [OfInodes -> Int] /\ i # nobody
  BY DEF OfInv, OfTypeOK, OfInodes, nobody
<1>2. OfGot(ofUse, i) = [ofUse EXCEPT ![i] = @ + 1]
  BY <1>1 DEF OfGot
<1> QED
  BY <1>1, <1>2 DEF OfOne

\* An open that finishes at once; a line then has the name it was opened by.
LEMMA OfOpenNow ==
  ASSUME OfInv, NEW p \in OfProcs, NEW i \in OfInodes, OfRunning(p), FreeFds(p, 0) # {},
         NEW f \in FreeFiles, OfStored(p, f, i), ofUse' = OfGot(ofUse, i), ofWait' = ofWait,
         \/ ~IsLine(i) /\ ofUnit' = ofUnit
         \/ IsLine(i) /\ ~RsBusy(i) /\ RsOpen(i),
         ofLive' = ofLive, ofAt' = ofAt, ofLost' = ofLost
  PROVE  OfInv'
<1>1. f \in OfFiles /\ ofFile[f].ref = 0 /\ Descs(f) = 0 /\ Calls(f) = 0 /\ f # nobody
  BY FreeSlot
<1>2. p \in ofLive /\ p \notin LineWaits
  BY OfRuns DEF OfRunning
<1>3. /\ ofFile' \in [OfFiles -> OfSlots] /\ ofFd' \in [OfProcs -> [OfFds -> OfDescs]]
      /\ ofFile'[f] = [ref |-> 1, ino |-> i] /\ \A g \in OfFiles \ {f} : ofFile'[g] = ofFile[g]
      /\ \A q \in OfProcs \ {p} : ofFd'[q] = ofFd[q]
      /\ \A g \in OfFiles : Descs(g)' = Descs(g) + OfOne(g = f)
      /\ \A j \in OfInodes : Openers(j)' = Openers(j) + OfOne(i = j)
      /\ f \notin LineFiles /\ LineFiles' = LineFiles \cup {g \in {f} : IsLine(i)}
      /\ Cardinality(LineFiles') = Cardinality(LineFiles) + OfOne(IsLine(i))
  BY <1>1, StoredFile DEF InUse
<1>t. OfTypeOK
  BY DEF OfInv
<1>4. /\ ofUse' \in [OfInodes -> Int]
      /\ \A j \in OfInodes : ofUse'[j] = ofUse[j] + OfOne(i = j)
  BY OfGotOne
<1>5. /\ ofUnit' \in [open : Int, dev : {"line", "modem"}, carrier : BOOLEAN]
      /\ ofUnit'.open = ofUnit.open + OfOne(IsLine(i))
      /\ ofUnit'.dev = (IF IsLine(i) THEN i ELSE ofUnit.dev)
  <2>1. ofUnit \in [open : Int, dev : {"line", "modem"}, carrier : BOOLEAN]
    BY <1>t DEF OfTypeOK
  <2>2. CASE ~IsLine(i) /\ ofUnit' = ofUnit
    BY <2>1, <2>2 DEF OfOne
  <2>3. CASE IsLine(i) /\ ~RsBusy(i) /\ RsOpen(i)
    BY <2>1, <2>3 DEF OfOne, RsOpen, IsLine
  <2> QED
    BY <2>2, <2>3
<1>6. OfTypeOK'
  BY <1>t, <1>3, <1>4, <1>5 DEF OfTypeOK
<1>7. FilesAdd'
  <2> SUFFICES ASSUME NEW g \in OfFiles PROVE ofFile'[g].ref = Descs(g)' + Calls(g)'
    BY DEF FilesAdd
  <2>1. Calls(g)' = Calls(g) /\ Calls(g) \in Nat /\ Descs(g) \in Nat
    BY OfSums DEF Calls
  <2>2. ofFile[g].ref = Descs(g) + Calls(g)
    BY DEF OfInv, FilesAdd
  <2>3. Descs(g)' = Descs(g) + OfOne(g = f)
    BY <1>3
  <2>4. CASE g = f
    BY <1>1, <1>3, <2>1, <2>3, <2>4 DEF OfOne
  <2>5. CASE g # f
    BY <1>3, <2>1, <2>2, <2>3, <2>5 DEF OfOne
  <2> QED
    BY <2>4, <2>5
<1>8. InodesAdd'
  <2> SUFFICES ASSUME NEW j \in OfInodes
               PROVE  ofUse'[j] = ofLost'[j] + Openers(j)' + Seats(j)' + Arrivals(j)'
    BY DEF InodesAdd
  <2>1. Seats(j)' = Seats(j) + 0 /\ Arrivals(j)' = Arrivals(j) + 0
    <3>1. Seats(j)' = Seats(j) /\ Arrivals(j)' = Arrivals(j)
      BY DEF Seats, Arrivals
    <3> QED
      BY <3>1, OfSums
  <2>2. OfOne(i = j) \in Int /\ ofUse[j] \in Int /\ ofUse'[j] \in Int /\ ofLost[j] \in Int
        /\ ofLost'[j] = ofLost[j] /\ ofUse'[j] = ofUse[j] + OfOne(i = j)
    BY <1>t, <1>4 DEF OfOne, OfTypeOK
  <2>3. Openers(j)' = Openers(j) + OfOne(i = j)
    BY <1>3
  <2>4. ofUse'[j] - ofLost'[j] = (ofUse[j] - ofLost[j]) + ((OfOne(i = j) + 0) + 0)
    BY <2>2
  <2> QED
    BY <2>1, <2>2, <2>3, <2>4, InodesKeep
<1>9. LineAdds'
  <2>1. LineWaits' = LineWaits
    BY DEF LineWaits
  <2>2. ofUnit.open = Cardinality(LineFiles) + Cardinality(LineWaits)
        /\ Cardinality(LineFiles) \in Nat /\ Cardinality(LineWaits) \in Nat
    BY OfSums DEF OfInv, LineAdds
  <2>3. OfOne(IsLine(i)) \in Nat
    BY DEF OfOne
  <2>4. ofUnit'.open = Cardinality(LineFiles') + Cardinality(LineWaits)
    BY <1>3, <1>5, <2>2, <2>3
  <2> QED
    BY <2>1, <2>4 DEF LineAdds
<1>10. DeadHold'
  BY <1>2, <1>3 DEF OfInv, DeadHold
<1>11. WaitsOwn'
  <2>1. ofUnit.open = 0 => LineFiles = {} /\ LineWaits = {}
    <3>1. ofUnit.open = Cardinality(LineFiles) + Cardinality(LineWaits)
          /\ Cardinality(LineFiles) \in Nat /\ Cardinality(LineWaits) \in Nat
      BY OfSums DEF OfInv, LineAdds
    <3>2. IsFiniteSet(LineFiles) /\ IsFiniteSet(LineWaits)
      <4>1. LineFiles \in SUBSET OfFiles /\ LineWaits \in SUBSET OfProcs
        BY DEF LineFiles, LineWaits
      <4> QED
        BY <4>1, OfFinite, FS_Subset
    <3> QED
      BY <3>1, <3>2, FS_EmptySet
  <2>2. IsLine(i) => i = ofUnit.dev \/ (LineFiles = {} /\ LineWaits = {})
    <3>1. ofUnit.open \in Nat
      BY OfSums DEF OfInv, LineAdds
    <3> QED
      BY <2>1, <3>1 DEF RsBusy
  <2>3. LineWaits' = LineWaits
    BY DEF LineWaits
  <2>4. ASSUME NEW q \in LineWaits
        PROVE  /\ ofWait[q].file \in OfFiles /\ IsLine(ofWait[q].ino)
               /\ ofWait[q].ino = ofUnit'.dev /\ FreeFds(q, 0)' # {}
               /\ ofFile'[ofWait[q].file].ref = 1 /\ ofFile'[ofWait[q].file].ino = nobody
    <3>1. q \in OfProcs \ {p}
      BY <1>2, <2>4 DEF LineWaits
    <3>2. FreeFds(q, 0)' = FreeFds(q, 0)
      BY <1>3, <3>1 DEF FreeFds
    <3>3. ofWait[q].file # f
      BY <1>1, <3>1 DEF OfInv, WaitsOwn
    <3>4. ofFile'[ofWait[q].file] = ofFile[ofWait[q].file]
      BY <1>3, <3>1, <3>3 DEF OfInv, WaitsOwn
    <3> QED
      BY <1>5, <2>2, <2>4, <3>1, <3>2, <3>4 DEF OfInv, WaitsOwn
  <2>5. \A q \in OfProcs \ LineWaits : ofWait[q] = NoWait
    BY DEF OfInv, WaitsOwn
  <2>6. ASSUME NEW g \in LineFiles' PROVE ofFile'[g].ino = ofUnit'.dev
    <3>1. CASE g = f
      BY <1>3, <1>5, <2>6, <3>1
    <3>2. CASE g # f
      <4>1. g \in LineFiles /\ g \in OfFiles /\ ofFile'[g] = ofFile[g]
        BY <1>3, <2>6, <3>2 DEF LineFiles
      <4> QED
        BY <1>5, <2>2, <4>1 DEF OfInv, WaitsOwn
    <3> QED
      BY <3>1, <3>2
  <2> QED
    BY <2>3, <2>4, <2>5, <2>6 DEF WaitsOwn, IsLine
<1> QED
  BY <1>6, <1>7, <1>8, <1>9, <1>10, <1>11 DEF OfInv

\* A line that is not busy is free, or open by the same name.
LEMMA LineFree ==
  ASSUME OfInv, NEW i, ~RsBusy(i)
  PROVE  i = ofUnit.dev \/ (LineFiles = {} /\ LineWaits = {})
<1>1. ofUnit.open = Cardinality(LineFiles) + Cardinality(LineWaits)
      /\ Cardinality(LineFiles) \in Nat /\ Cardinality(LineWaits) \in Nat
  BY OfSums DEF OfInv, LineAdds
<1>2. IsFiniteSet(LineFiles) /\ IsFiniteSet(LineWaits)
  <2>1. LineFiles \in SUBSET OfFiles /\ LineWaits \in SUBSET OfProcs
    BY DEF LineFiles, LineWaits
  <2> QED
    BY <2>1, OfFinite, FS_Subset
<1> QED
  BY <1>1, <1>2, FS_EmptySet DEF RsBusy

\* An open that waits for the carrier: its slot is taken, its line counted.
LEMMA OfOpenWaits ==
  ASSUME OfInv, NEW p \in OfProcs, NEW i \in OfInodes, OfRunning(p), FreeFds(p, 0) # {},
         NEW f \in FreeFiles, IsLine(i), ~RsBusy(i), RsOpen(i), ofUse' = OfGot(ofUse, i),
         ofFile' = [ofFile EXCEPT ![f] = [ref |-> 1, ino |-> nobody]],
         ofWait' = [ofWait EXCEPT ![p] = [file |-> f, ino |-> i]],
         ofFd' = ofFd, ofLive' = ofLive, ofAt' = ofAt, ofLost' = ofLost
  PROVE  OfInv'
<1>1. f \in OfFiles /\ ofFile[f].ref = 0 /\ Descs(f) = 0 /\ Calls(f) = 0 /\ f # nobody
  BY FreeSlot
<1>2. p \in ofLive /\ p \notin LineWaits /\ ofWait[p] = NoWait
  BY OfRuns DEF OfRunning
<1>t. OfTypeOK
  BY DEF OfInv
<1>3. /\ ofFile' \in [OfFiles -> OfSlots] /\ ofWait' \in [OfProcs -> OfCalls]
      /\ ofFile'[f].ref = 1 /\ ofFile'[f].ino = nobody
      /\ ofWait'[p].file = f /\ ofWait'[p].ino = i
      /\ \A g \in OfFiles \ {f} : ofFile'[g] = ofFile[g]
      /\ \A q \in OfProcs \ {p} : ofWait'[q] = ofWait[q]
  <2>1. ofFile \in [OfFiles -> OfSlots] /\ ofWait \in [OfProcs -> OfCalls]
    BY <1>t DEF OfTypeOK
  <2>2. [ref |-> 1, ino |-> nobody] \in OfSlots /\ [file |-> f, ino |-> i] \in OfCalls
    BY <1>1 DEF OfSlots, OfCalls
  <2> QED
    BY <1>1, <2>1, <2>2
<1>4. /\ ofUse' \in [OfInodes -> Int]
      /\ \A j \in OfInodes : ofUse'[j] = ofUse[j] + OfOne(i = j)
  BY OfGotOne
<1>5. /\ ofUnit' \in [open : Int, dev : {"line", "modem"}, carrier : BOOLEAN]
      /\ ofUnit'.open = ofUnit.open + 1 /\ ofUnit'.dev = i
  <2>1. ofUnit \in [open : Int, dev : {"line", "modem"}, carrier : BOOLEAN]
    BY <1>t DEF OfTypeOK
  <2> QED
    BY <2>1 DEF RsOpen, IsLine
<1>6. OfTypeOK'
  BY <1>t, <1>3, <1>4, <1>5 DEF OfTypeOK
<1>w. ASSUME NEW g \in OfFiles, NEW j \in OfInodes
      PROVE  /\ Calls(g) \in Nat /\ Calls(g)' = Calls(g) + OfOne(g = f)
             /\ Arrivals(j)' = Arrivals(j) + OfOne(i = j)
             /\ Cardinality(LineWaits) \in Nat
             /\ Cardinality(LineWaits') = Cardinality(LineWaits) + 1
  <2>1. /\ Calls(g) \in Nat /\ Calls(g)' \in Nat /\ Arrivals(j) \in Nat /\ Arrivals(j)' \in Nat
        /\ Calls(g)' = Calls(g) - OfOne(ofWait[p].file = g) + OfOne(ofWait'[p].file = g)
        /\ Arrivals(j)' = Arrivals(j) - OfOne(ofWait[p].ino = j) + OfOne(ofWait'[p].ino = j)
        /\ Cardinality(LineWaits) \in Nat /\ Cardinality(LineWaits') \in Nat
        /\ Cardinality(LineWaits') = Cardinality(LineWaits) - OfOne(ofWait[p].file # nobody)
                                     + OfOne(ofWait'[p].file # nobody)
    BY <1>3, WaitRow
  <2>2. /\ OfOne(ofWait[p].file = g) = 0 /\ OfOne(ofWait'[p].file = g) = OfOne(g = f)
        /\ OfOne(ofWait[p].ino = j) = 0 /\ OfOne(ofWait'[p].ino = j) = OfOne(i = j)
        /\ OfOne(ofWait[p].file # nobody) = 0 /\ OfOne(ofWait'[p].file # nobody) = 1
        /\ OfOne(g = f) \in Nat /\ OfOne(i = j) \in Nat
    BY <1>1, <1>2, <1>3, OpenFilesAssumption DEF OfOne, NoWait, nobody, OfInodes, OpenFilesAssumption
  <2> QED
    BY <2>1, <2>2
<1>o. ASSUME NEW j \in OfInodes
      PROVE  /\ Openers(j)' = Openers(j) /\ Cardinality(LineFiles') = Cardinality(LineFiles)
             /\ LineFiles' = LineFiles /\ f \notin LineFiles
  <2>1. /\ ~InUse(f) /\ ofFile'[f].ino # j /\ ~IsLine(ofFile'[f].ino)
        /\ \A g \in OfFiles \ {f} : InUse(g)' = InUse(g) /\ ofFile'[g].ino = ofFile[g].ino
    BY <1>1, <1>3 DEF InUse, OfInodes, nobody, IsLine
  <2>2. {g \in OfFiles : InUse(g)' /\ ofFile'[g].ino = j} = {g \in OfFiles : InUse(g) /\ ofFile[g].ino = j}
    BY <2>1
  <2>3. LineFiles' = LineFiles /\ f \notin LineFiles
    BY <2>1 DEF LineFiles, IsLine
  <2> QED
    BY <2>2, <2>3 DEF Openers
<1>d. "dir" \in OfInodes
  BY DEF OfInodes
<1>7. FilesAdd'
  <2> SUFFICES ASSUME NEW g \in OfFiles PROVE ofFile'[g].ref = Descs(g)' + Calls(g)'
    BY DEF FilesAdd
  <2>1. Descs(g)' = Descs(g) /\ Descs(g) \in Nat
    BY OfSums DEF Descs
  <2>2. ofFile[g].ref = Descs(g) + Calls(g)
    BY DEF OfInv, FilesAdd
  <2>3. Calls(g) \in Nat /\ Calls(g)' = Calls(g) + OfOne(g = f)
    BY <1>d, <1>w
  <2>4. CASE g = f
    BY <1>1, <1>3, <2>1, <2>3, <2>4 DEF OfOne
  <2>5. CASE g # f
    BY <1>3, <2>1, <2>2, <2>3, <2>5 DEF OfOne
  <2> QED
    BY <2>4, <2>5
<1>8. InodesAdd'
  <2> SUFFICES ASSUME NEW j \in OfInodes
               PROVE  ofUse'[j] = ofLost'[j] + Openers(j)' + Seats(j)' + Arrivals(j)'
    BY DEF InodesAdd
  <2>1. Seats(j)' = Seats(j) + 0 /\ Openers(j)' = Openers(j) + 0
    <3>1. Seats(j)' = Seats(j) /\ Openers(j)' = Openers(j)
      BY <1>o DEF Seats
    <3> QED
      BY <3>1, OfSums
  <2>2. OfOne(i = j) \in Int /\ ofUse[j] \in Int /\ ofUse'[j] \in Int /\ ofLost[j] \in Int
        /\ ofLost'[j] = ofLost[j] /\ ofUse'[j] = ofUse[j] + OfOne(i = j)
    BY <1>t, <1>4 DEF OfOne, OfTypeOK
  <2>3. Arrivals(j)' = Arrivals(j) + OfOne(i = j)
    BY <1>1, <1>w
  <2>4. ofUse'[j] - ofLost'[j] = (ofUse[j] - ofLost[j]) + ((0 + 0) + OfOne(i = j))
    BY <2>2
  <2> QED
    BY <2>1, <2>2, <2>3, <2>4, InodesKeep
<1>9. LineAdds'
  <2>2. ofUnit.open = Cardinality(LineFiles) + Cardinality(LineWaits)
        /\ Cardinality(LineFiles) \in Nat /\ Cardinality(LineWaits) \in Nat
    BY OfSums DEF OfInv, LineAdds
  <2>3. Cardinality(LineWaits') = Cardinality(LineWaits) + 1
        /\ Cardinality(LineFiles') = Cardinality(LineFiles)
    BY <1>1, <1>d, <1>w, <1>o
  <2>4. ofUnit'.open = Cardinality(LineFiles') + Cardinality(LineWaits')
    BY <1>5, <2>2, <2>3
  <2> QED
    BY <2>4 DEF LineAdds
<1>10. DeadHold'
  BY <1>2, <1>3 DEF OfInv, DeadHold
<1>11. WaitsOwn'
  <2>2. i = ofUnit.dev \/ (LineFiles = {} /\ LineWaits = {})
    BY LineFree
  <2>4. ASSUME NEW q \in LineWaits'
        PROVE  /\ ofWait'[q].file \in OfFiles /\ IsLine(ofWait'[q].ino)
               /\ ofWait'[q].ino = ofUnit'.dev /\ FreeFds(q, 0)' # {}
               /\ ofFile'[ofWait'[q].file].ref = 1 /\ ofFile'[ofWait'[q].file].ino = nobody
    <3>2. q \in OfProcs /\ FreeFds(q, 0)' = FreeFds(q, 0)
      BY <2>4 DEF FreeFds, LineWaits
    <3>3. CASE q = p
      BY <1>1, <1>3, <1>5, <3>2, <3>3
    <3>4. CASE q # p
      <4>1. q \in LineWaits /\ ofWait'[q] = ofWait[q]
        BY <1>3, <2>4, <3>2, <3>4 DEF LineWaits
      <4>2. /\ ofWait[q].file \in OfFiles /\ IsLine(ofWait[q].ino)
            /\ ofWait[q].ino = ofUnit.dev /\ FreeFds(q, 0) # {}
            /\ ofFile[ofWait[q].file].ref = 1 /\ ofFile[ofWait[q].file].ino = nobody
        BY <3>2, <4>1 DEF OfInv, WaitsOwn
      <4>3. ofWait[q].file # f
        BY <1>1, <4>2
      <4> QED
        BY <1>3, <1>5, <2>2, <3>2, <4>1, <4>2, <4>3
    <3> QED
      BY <3>3, <3>4
  <2>5. ASSUME NEW q \in OfProcs, q \notin LineWaits' PROVE ofWait'[q] = NoWait
    <3>1. q # p
      BY <1>1, <1>3, <2>5 DEF LineWaits
    <3>2. q \notin LineWaits /\ ofWait'[q] = ofWait[q]
      BY <1>3, <2>5, <3>1 DEF LineWaits
    <3> QED
      BY <3>2 DEF OfInv, WaitsOwn
  <2>6. ASSUME NEW g \in LineFiles' PROVE ofFile'[g].ino = ofUnit'.dev
    <3>1. g \in LineFiles /\ g \in OfFiles /\ g # f
      BY <1>d, <1>o, <2>6 DEF LineFiles
    <3> QED
      BY <1>3, <1>5, <2>2, <3>1 DEF OfInv, WaitsOwn
  <2> QED
    BY <2>4, <2>5, <2>6 DEF WaitsOwn, IsLine
<1> QED
  BY <1>6, <1>7, <1>8, <1>9, <1>10, <1>11 DEF OfInv

\* p waits for inode i with the slot f.
WaitsFor(p, f, i) == p \in LineWaits /\ f = ofWait[p].file /\ i = ofWait[p].ino

LEMMA WaitFacts ==
  ASSUME OfInv, NEW p, NEW f, NEW i, WaitsFor(p, f, i), ofWait' = [ofWait EXCEPT ![p] = NoWait]
  PROVE  /\ p \in OfProcs /\ p \in ofLive /\ f \in OfFiles /\ i \in OfInodes /\ IsLine(i)
         /\ FreeFds(p, 0) # {} /\ ofFile[f].ref = 1 /\ ofFile[f].ino = nobody /\ i = ofUnit.dev
         /\ Descs(f) = 0 /\ Calls(f) = 1 /\ ofWait' \in [OfProcs -> OfCalls]
         /\ ofWait'[p] = NoWait /\ p \notin LineWaits'
         /\ \A q \in OfProcs \ {p} : ofWait'[q] = ofWait[q]
<1>0. p \in LineWaits /\ f = ofWait[p].file /\ i = ofWait[p].ino
  BY DEF WaitsFor
<1>1. /\ p \in OfProcs /\ f \in OfFiles /\ IsLine(i) /\ FreeFds(p, 0) # {}
      /\ ofFile[f].ref = 1 /\ ofFile[f].ino = nobody /\ i = ofUnit.dev
  BY <1>0 DEF LineWaits, OfInv, WaitsOwn
<1>2. p \in ofLive
  BY <1>0, <1>1 DEF OfInv, DeadHold, NoWait, LineWaits
<1>3. ofWait \in [OfProcs -> OfCalls] /\ NoWait \in OfCalls
  BY DEF OfInv, OfTypeOK, NoWait, OfCalls
<1>4. /\ ofWait' \in [OfProcs -> OfCalls] /\ ofWait'[p] = NoWait
      /\ \A q \in OfProcs \ {p} : ofWait'[q] = ofWait[q]
  BY <1>1, <1>3
<1>5. i \in OfInodes /\ p \notin LineWaits'
  BY <1>1, <1>4 DEF IsLine, OfInodes, LineWaits, NoWait
<1>6. Descs(f) = 0 /\ Calls(f) = 1
  BY <1>0, SlotOwn
<1> QED
  BY <1>1, <1>2, <1>4, <1>5, <1>6

\* A call that ends its wait leaves the slot, the inode and the line.
LEMMA WaitEndsCalls ==
  ASSUME OfInv, NEW p, NEW f, NEW i, WaitsFor(p, f, i), ofWait' = [ofWait EXCEPT ![p] = NoWait],
         NEW g \in OfFiles
  PROVE  Calls(g) \in Nat /\ Calls(g)' = IF g = f THEN Calls(g) - 1 ELSE Calls(g)
<1>0. ofWait[p].file = f /\ ofWait[p].ino = i
  BY DEF WaitsFor
<1>1. /\ p \in OfProcs /\ f \in OfFiles /\ ofWait'[p] = NoWait
      /\ \A q \in OfProcs \ {p} : ofWait'[q] = ofWait[q]
  BY WaitFacts
<1>2. /\ Calls(g) \in Nat /\ Calls(g)' \in Nat
      /\ Calls(g)' = Calls(g) - OfOne(ofWait[p].file = g) + OfOne(ofWait'[p].file = g)
  BY <1>1, WaitRow
<1>3. /\ OfOne(ofWait'[p].file = g) = 0
      /\ OfOne(ofWait[p].file = g) = IF g = f THEN 1 ELSE 0
  BY <1>0, <1>1, OpenFilesAssumption DEF OfOne, NoWait, nobody, OfInodes, OpenFilesAssumption
<1> QED
  BY <1>2, <1>3

LEMMA WaitEndsArrivals ==
  ASSUME OfInv, NEW p, NEW f, NEW i, WaitsFor(p, f, i), ofWait' = [ofWait EXCEPT ![p] = NoWait],
         NEW j \in OfInodes
  PROVE  Arrivals(j) \in Nat /\ Arrivals(j)' = IF j = i THEN Arrivals(j) - 1 ELSE Arrivals(j)
<1>0. ofWait[p].file = f /\ ofWait[p].ino = i
  BY DEF WaitsFor
<1>1. /\ p \in OfProcs /\ f \in OfFiles /\ ofWait'[p] = NoWait
      /\ \A q \in OfProcs \ {p} : ofWait'[q] = ofWait[q]
  BY WaitFacts
<1>2. /\ Arrivals(j) \in Nat /\ Arrivals(j)' \in Nat
      /\ Arrivals(j)' = Arrivals(j) - OfOne(ofWait[p].ino = j) + OfOne(ofWait'[p].ino = j)
  BY <1>1, WaitRow
<1>3. /\ OfOne(ofWait'[p].ino = j) = 0
      /\ OfOne(ofWait[p].ino = j) = IF j = i THEN 1 ELSE 0
  BY <1>0, <1>1, OpenFilesAssumption DEF OfOne, NoWait, nobody, OfInodes, OpenFilesAssumption
<1> QED
  BY <1>2, <1>3

LEMMA WaitEndsLine ==
  ASSUME OfInv, NEW p, NEW f, NEW i, WaitsFor(p, f, i), ofWait' = [ofWait EXCEPT ![p] = NoWait]
  PROVE  Cardinality(LineWaits') = Cardinality(LineWaits) - 1
<1>0. ofWait[p].file = f /\ ofWait[p].ino = i
  BY DEF WaitsFor
<1>1. /\ p \in OfProcs /\ f \in OfFiles /\ ofWait'[p] = NoWait
      /\ \A q \in OfProcs \ {p} : ofWait'[q] = ofWait[q]
  BY WaitFacts
<1>2. /\ Cardinality(LineWaits) \in Nat /\ Cardinality(LineWaits') \in Nat
      /\ Cardinality(LineWaits') = Cardinality(LineWaits) - OfOne(ofWait[p].file # nobody)
                                   + OfOne(ofWait'[p].file # nobody)
  BY <1>1, WaitRow
<1>3. /\ OfOne(ofWait'[p].file # nobody) = 0
      /\ OfOne(ofWait[p].file # nobody) = 1
  BY <1>0, <1>1, OpenFilesAssumption DEF OfOne, NoWait, nobody, OfInodes, OpenFilesAssumption
<1> QED
  BY <1>2, <1>3

\* The other calls wait on as they did.
LEMMA OthersWait ==
  ASSUME OfInv, NEW p, NEW f, NEW i, WaitsFor(p, f, i), ofWait' = [ofWait EXCEPT ![p] = NoWait],
         \A q \in OfProcs \ {p} : ofFd'[q] = ofFd[q],
         \A g \in OfFiles \ {f} : ofFile'[g] = ofFile[g],
         ofUnit'.dev = ofUnit.dev, f \in LineFiles' => ofFile'[f].ino = ofUnit.dev
  PROVE  WaitsOwn'
<1>1. /\ p \in OfProcs /\ p \notin LineWaits' /\ f \in OfFiles /\ ofWait'[p] = NoWait
      /\ \A q \in OfProcs \ {p} : ofWait'[q] = ofWait[q]
  BY WaitFacts
<1>2. ofWait'[p] = NoWait
  BY <1>1
<1>3. ASSUME NEW q \in LineWaits'
      PROVE  /\ ofWait'[q].file \in OfFiles /\ IsLine(ofWait'[q].ino)
             /\ ofWait'[q].ino = ofUnit'.dev /\ FreeFds(q, 0)' # {}
             /\ ofFile'[ofWait'[q].file].ref = 1 /\ ofFile'[ofWait'[q].file].ino = nobody
  <2>1. q \in OfProcs \ {p} /\ ofWait'[q] = ofWait[q] /\ q \in LineWaits
    BY <1>1, <1>3 DEF LineWaits
  <2>2. FreeFds(q, 0)' = FreeFds(q, 0)
    BY <2>1 DEF FreeFds
  <2>3. ofWait[q].file # f
    <3>1. p \in LineWaits /\ f = ofWait[p].file
      BY DEF WaitsFor
    <3> QED
      BY <2>1, <3>1, SlotOwn
  <2>4. /\ ofWait[q].file \in OfFiles /\ IsLine(ofWait[q].ino)
        /\ ofWait[q].ino = ofUnit.dev /\ FreeFds(q, 0) # {}
        /\ ofFile[ofWait[q].file].ref = 1 /\ ofFile[ofWait[q].file].ino = nobody
    BY <2>1 DEF OfInv, WaitsOwn
  <2> QED
    BY <2>1, <2>2, <2>3, <2>4
<1>4. ASSUME NEW q \in OfProcs, q \notin LineWaits' PROVE ofWait'[q] = NoWait
  <2>1. CASE q = p
    BY <1>2, <2>1
  <2>2. CASE q # p
    BY <1>1, <1>4, <2>2 DEF LineWaits, OfInv, WaitsOwn
  <2> QED
    BY <2>1, <2>2
<1>5. ASSUME NEW g \in LineFiles' PROVE ofFile'[g].ino = ofUnit'.dev
  <2>1. CASE g = f
    BY <1>5, <2>1
  <2>2. CASE g # f
    <3>1. g \in OfFiles /\ ofFile'[g] = ofFile[g] /\ g \in LineFiles
      BY <1>5, <2>2 DEF LineFiles, InUse
    <3> QED
      BY <3>1 DEF OfInv, WaitsOwn
  <2> QED
    BY <2>1, <2>2
<1> QED
  BY <1>3, <1>4, <1>5 DEF WaitsOwn, IsLine

\* The carrier came: the file and the descriptor are stored.
LEMMA OfAnswered ==
  ASSUME OfInv, NEW p, NEW f, NEW i, WaitsFor(p, f, i),
         OfStored(p, f, i), ofWait' = [ofWait EXCEPT ![p] = NoWait],
         ofUse' = ofUse, ofUnit' = ofUnit, ofLive' = ofLive, ofAt' = ofAt, ofLost' = ofLost
  PROVE  OfInv'
<1>t. OfTypeOK
  BY DEF OfInv
<1>1. /\ p \in OfProcs /\ p \in ofLive /\ f \in OfFiles /\ i \in OfInodes /\ IsLine(i)
      /\ FreeFds(p, 0) # {} /\ ofFile[f].ref = 1 /\ ofFile[f].ino = nobody /\ i = ofUnit.dev
      /\ Descs(f) = 0 /\ Calls(f) = 1 /\ ofWait' \in [OfProcs -> OfCalls]
      /\ \A q \in OfProcs \ {p} : ofWait'[q] = ofWait[q]
  BY WaitFacts
<1>3. /\ ofFile' \in [OfFiles -> OfSlots] /\ ofFd' \in [OfProcs -> [OfFds -> OfDescs]]
      /\ ofFile'[f] = [ref |-> 1, ino |-> i] /\ \A g \in OfFiles \ {f} : ofFile'[g] = ofFile[g]
      /\ \A q \in OfProcs \ {p} : ofFd'[q] = ofFd[q]
      /\ \A g \in OfFiles : Descs(g)' = Descs(g) + OfOne(g = f)
      /\ \A j \in OfInodes : Openers(j)' = Openers(j) + OfOne(i = j)
      /\ f \notin LineFiles /\ LineFiles' = LineFiles \cup {g \in {f} : IsLine(i)}
      /\ Cardinality(LineFiles') = Cardinality(LineFiles) + OfOne(IsLine(i))
  <2>1. InUse(f) => ofFile[f].ino = nobody
    BY <1>1
  <2>2. p \in OfProcs /\ f \in OfFiles /\ i \in OfInodes /\ FreeFds(p, 0) # {}
    BY <1>1
  <2> QED
    BY <2>1, <2>2, StoredFile
<1>6. OfTypeOK'
  BY <1>t, <1>1, <1>3 DEF OfTypeOK
<1>7. FilesAdd'
  <2> SUFFICES ASSUME NEW g \in OfFiles PROVE ofFile'[g].ref = Descs(g)' + Calls(g)'
    BY DEF FilesAdd
  <2>1. /\ Calls(g) \in Nat /\ Descs(g) \in Nat
        /\ Calls(g)' = IF g = f THEN Calls(g) - 1 ELSE Calls(g)
    <3>1. Calls(g) \in Nat /\ Calls(g)' = IF g = f THEN Calls(g) - 1 ELSE Calls(g)
      BY WaitEndsCalls
    <3> QED
      BY <3>1, OfSums
  <2>2. ofFile[g].ref = Descs(g) + Calls(g)
    BY DEF OfInv, FilesAdd
  <2>3. Descs(g)' = Descs(g) + OfOne(g = f)
    BY <1>3
  <2>4. CASE g = f
    BY <1>1, <1>3, <2>1, <2>3, <2>4 DEF OfOne
  <2>5. CASE g # f
    BY <1>3, <2>1, <2>2, <2>3, <2>5 DEF OfOne
  <2> QED
    BY <2>4, <2>5
<1>8. InodesAdd'
  <2> SUFFICES ASSUME NEW j \in OfInodes
               PROVE  ofUse'[j] = ofLost'[j] + Openers(j)' + Seats(j)' + Arrivals(j)'
    BY DEF InodesAdd
  <2>1. Seats(j)' = Seats(j) + 0
    <3>1. Seats(j)' = Seats(j)
      BY DEF Seats
    <3> QED
      BY <3>1, OfSums
  <2>2. OfOne(i = j) \in Int /\ 0 - OfOne(i = j) \in Int /\ ofUse[j] \in Int /\ ofUse'[j] \in Int
        /\ ofLost[j] \in Int /\ ofLost'[j] = ofLost[j] /\ ofUse'[j] = ofUse[j]
    BY <1>t DEF OfOne, OfTypeOK
  <2>3. Openers(j)' = Openers(j) + OfOne(i = j)
    BY <1>3
  <2>4. Arrivals(j)' = Arrivals(j) + (0 - OfOne(i = j))
    <3>1. Arrivals(j) \in Nat /\ Arrivals(j)' = IF j = i THEN Arrivals(j) - 1 ELSE Arrivals(j)
      BY WaitEndsArrivals
    <3> QED
      BY <3>1 DEF OfOne
  <2>5. ofUse'[j] - ofLost'[j] = (ofUse[j] - ofLost[j]) + ((OfOne(i = j) + 0) + (0 - OfOne(i = j)))
    BY <2>2
  <2> DEFINE o == OfOne(i = j)
             w == 0 - OfOne(i = j)
  <2>6. o \in Int /\ w \in Int /\ 0 \in Int
    BY <2>2
  <2>7. /\ Openers(j)' = Openers(j) + o /\ Arrivals(j)' = Arrivals(j) + w
        /\ ofUse'[j] - ofLost'[j] = (ofUse[j] - ofLost[j]) + ((o + 0) + w)
    BY <2>3, <2>4, <2>5
  <2> HIDE DEF o, w
  <2> QED
    BY <2>1, <2>2, <2>6, <2>7, InodesKeep
<1>9. LineAdds'
  <2>2. ofUnit.open = Cardinality(LineFiles) + Cardinality(LineWaits)
        /\ Cardinality(LineFiles) \in Nat /\ Cardinality(LineWaits) \in Nat
    BY OfSums DEF OfInv, LineAdds
  <2>3. Cardinality(LineWaits') = Cardinality(LineWaits) - 1
        /\ Cardinality(LineFiles') = Cardinality(LineFiles) + 1
    BY <1>1, <1>3, WaitEndsLine DEF OfOne
  <2>4. ofUnit'.open = Cardinality(LineFiles') + Cardinality(LineWaits')
    BY <2>2, <2>3
  <2> QED
    BY <2>4 DEF LineAdds
<1>10. DeadHold'
  <2>1. \A q \in OfProcs \ ofLive : q # p /\ ofWait'[q] = ofWait[q]
    BY <1>1
  <2> QED
    BY <1>3, <2>1 DEF OfInv, DeadHold
<1>11. WaitsOwn'
  <2>1. ofFile'[f].ino = ofUnit.dev
    BY <1>1, <1>3
  <2>2. /\ \A q \in OfProcs \ {p} : ofFd'[q] = ofFd[q]
        /\ \A g \in OfFiles \ {f} : ofFile'[g] = ofFile[g]
    BY <1>3
  <2> QED
    BY <2>1, <2>2, OthersWait
<1> QED
  BY <1>6, <1>7, <1>8, <1>9, <1>10, <1>11 DEF OfInv

\* A signal came: the slot, the inode and the line are given back.
LEMMA OfInterrupted ==
  ASSUME OfInv, NEW p, NEW f, NEW i, WaitsFor(p, f, i),
         ofFile' = [ofFile EXCEPT ![f] = NoFile], ofUse' = Gone(ofUse, i),
         ofUnit' = Cut(ofUnit), ofFd' = ofFd, ofWait' = [ofWait EXCEPT ![p] = NoWait],
         ofLive' = ofLive, ofAt' = ofAt, ofLost' = ofLost
  PROVE  OfInv'
<1>t. OfTypeOK
  BY DEF OfInv
<1>1. /\ p \in OfProcs /\ p \in ofLive /\ f \in OfFiles /\ i \in OfInodes /\ IsLine(i)
      /\ FreeFds(p, 0) # {} /\ ofFile[f].ref = 1 /\ ofFile[f].ino = nobody /\ i = ofUnit.dev
      /\ Descs(f) = 0 /\ Calls(f) = 1 /\ ofWait' \in [OfProcs -> OfCalls]
      /\ \A q \in OfProcs \ {p} : ofWait'[q] = ofWait[q]
  BY WaitFacts
<1>3. /\ ofFile' \in [OfFiles -> OfSlots] /\ ofFile'[f].ref = 0
      /\ \A g \in OfFiles \ {f} : ofFile'[g] = ofFile[g]
  <2>1. ofFile \in [OfFiles -> OfSlots] /\ NoFile \in OfSlots /\ NoFile.ref = 0
    BY <1>t DEF OfTypeOK, NoFile, OfSlots
  <2> QED
    BY <1>1, <2>1
<1>o. ASSUME NEW j \in OfInodes PROVE Openers(j)' = Openers(j) /\ LineFiles' = LineFiles
  <2>1. /\ ~InUse(f)' /\ ofFile[f].ino # j /\ ~IsLine(ofFile[f].ino)
        /\ \A g \in OfFiles \ {f} : InUse(g)' = InUse(g) /\ ofFile'[g].ino = ofFile[g].ino
    BY <1>1, <1>3 DEF InUse, OfInodes, nobody, IsLine
  <2>2. {g \in OfFiles : InUse(g)' /\ ofFile'[g].ino = j} = {g \in OfFiles : InUse(g) /\ ofFile[g].ino = j}
    BY <2>1
  <2>3. LineFiles' = LineFiles
    BY <2>1 DEF LineFiles, IsLine
  <2> QED
    BY <2>2, <2>3 DEF Openers
<1>4. /\ ofUse' \in [OfInodes -> Int]
      /\ \A j \in OfInodes : ofUse'[j] = ofUse[j] - OfOne(i = j)
  <2>1. ofUse \in [OfInodes -> Int] /\ i # nobody
    BY <1>t, <1>1 DEF OfTypeOK, OfInodes, nobody
  <2>2. ofUse' = [ofUse EXCEPT ![i] = @ - 1]
    BY <2>1 DEF Gone
  <2> QED
    BY <1>1, <2>1, <2>2 DEF OfOne
<1>5. /\ ofUnit' \in [open : Int, dev : {"line", "modem"}, carrier : BOOLEAN]
      /\ ofUnit'.open = ofUnit.open - 1 /\ ofUnit'.dev = ofUnit.dev
  <2>1. ofUnit \in [open : Int, dev : {"line", "modem"}, carrier : BOOLEAN]
    BY <1>t DEF OfTypeOK
  <2> QED
    BY <2>1 DEF Cut
<1>6. OfTypeOK'
  BY <1>t, <1>1, <1>3, <1>4, <1>5 DEF OfTypeOK
<1>7. FilesAdd'
  <2> SUFFICES ASSUME NEW g \in OfFiles PROVE ofFile'[g].ref = Descs(g)' + Calls(g)'
    BY DEF FilesAdd
  <2>1. /\ Calls(g) \in Nat /\ Descs(g) \in Nat
        /\ Calls(g)' = IF g = f THEN Calls(g) - 1 ELSE Calls(g)
    <3>1. Calls(g) \in Nat /\ Calls(g)' = IF g = f THEN Calls(g) - 1 ELSE Calls(g)
      BY WaitEndsCalls
    <3> QED
      BY <3>1, OfSums
  <2>2. ofFile[g].ref = Descs(g) + Calls(g)
    BY DEF OfInv, FilesAdd
  <2>3. Descs(g)' = Descs(g)
    BY DEF Descs
  <2>4. CASE g = f
    BY <1>1, <1>3, <2>1, <2>3, <2>4 DEF OfOne
  <2>5. CASE g # f
    BY <1>3, <2>1, <2>2, <2>3, <2>5 DEF OfOne
  <2> QED
    BY <2>4, <2>5
<1>8. InodesAdd'
  <2> SUFFICES ASSUME NEW j \in OfInodes
               PROVE  ofUse'[j] = ofLost'[j] + Openers(j)' + Seats(j)' + Arrivals(j)'
    BY DEF InodesAdd
  <2>1. Seats(j)' = Seats(j) + 0 /\ Openers(j)' = Openers(j) + 0
    <3>1. Seats(j)' = Seats(j) /\ Openers(j)' = Openers(j)
      BY <1>o DEF Seats
    <3> QED
      BY <3>1, OfSums
  <2>2. OfOne(i = j) \in Int /\ 0 - OfOne(i = j) \in Int /\ ofUse[j] \in Int /\ ofUse'[j] \in Int
        /\ ofLost[j] \in Int /\ ofLost'[j] = ofLost[j] /\ ofUse'[j] = ofUse[j] - OfOne(i = j)
    BY <1>t, <1>4 DEF OfOne, OfTypeOK
  <2>4. Arrivals(j)' = Arrivals(j) + (0 - OfOne(i = j))
    <3>1. Arrivals(j) \in Nat /\ Arrivals(j)' = IF j = i THEN Arrivals(j) - 1 ELSE Arrivals(j)
      BY WaitEndsArrivals
    <3> QED
      BY <3>1 DEF OfOne
  <2>5. ofUse'[j] - ofLost'[j] = (ofUse[j] - ofLost[j]) + ((0 + 0) + (0 - OfOne(i = j)))
    BY <2>2
  <2> QED
    BY <2>1, <2>2, <2>4, <2>5, InodesKeep
<1>9. LineAdds'
  <2>2. ofUnit.open = Cardinality(LineFiles) + Cardinality(LineWaits)
        /\ Cardinality(LineFiles) \in Nat /\ Cardinality(LineWaits) \in Nat
    BY OfSums DEF OfInv, LineAdds
  <2>3. Cardinality(LineWaits') = Cardinality(LineWaits) - 1
        /\ Cardinality(LineFiles') = Cardinality(LineFiles)
    BY <1>1, <1>o, WaitEndsLine
  <2>4. ofUnit'.open = Cardinality(LineFiles') + Cardinality(LineWaits')
    BY <1>5, <2>2, <2>3
  <2> QED
    BY <2>4 DEF LineAdds
<1>10. DeadHold'
  <2>1. \A q \in OfProcs \ ofLive : q # p /\ ofWait'[q] = ofWait[q]
    BY <1>1
  <2> QED
    BY <2>1 DEF OfInv, DeadHold
<1>11. WaitsOwn'
  <2>1. f \notin LineFiles'
    BY <1>3 DEF LineFiles, InUse
  <2> QED
    BY <1>3, <1>5, <2>1, OthersWait
<1> QED
  BY <1>6, <1>7, <1>8, <1>9, <1>10, <1>11 DEF OfInv

\* Only the name and the carrier of the line change: the name of a free line,
\* or to the name it has.
LEMMA LineNames ==
  ASSUME OfInv, ofUnit' \in [open : Int, dev : {"line", "modem"}, carrier : BOOLEAN],
         ofUnit'.open = ofUnit.open,
         ofUnit'.dev = ofUnit.dev \/ (LineFiles = {} /\ LineWaits = {}),
         ofFile' = ofFile, ofFd' = ofFd, ofUse' = ofUse, ofWait' = ofWait,
         ofLive' = ofLive, ofAt' = ofAt, ofLost' = ofLost
  PROVE  OfInv'
<1>1. OfTypeOK' /\ DeadHold'
  BY DEF OfInv, OfTypeOK, DeadHold
<1>2. FilesAdd'
  BY DEF OfInv, FilesAdd, Descs, Calls
<1>3. InodesAdd'
  BY DEF OfInv, InodesAdd, Openers, InUse, Seats, Arrivals
<1>4. LineFiles' = LineFiles /\ LineWaits' = LineWaits
  BY DEF LineFiles, LineWaits, InUse
<1>5. LineAdds'
  BY <1>4 DEF OfInv, LineAdds
<1>6. WaitsOwn'
  <2>1. \A q \in OfProcs : FreeFds(q, 0)' = FreeFds(q, 0)
    BY DEF FreeFds
  <2>2. CASE ofUnit'.dev = ofUnit.dev
    BY <1>4, <2>1, <2>2 DEF OfInv, WaitsOwn
  <2>3. CASE LineFiles = {} /\ LineWaits = {}
    BY <1>4, <2>3 DEF OfInv, WaitsOwn
  <2> QED
    BY <2>2, <2>3
<1> QED
  BY <1>1, <1>2, <1>3, <1>5, <1>6 DEF OfInv

\* do_open, in each of its ways.
LEMMA OfOpenKeeps ==
  ASSUME OfInv, NEW p \in OfProcs, NEW i \in OfInodes, NEW how, OfOpen(p, i, how)
  PROVE  OfInv' \/ UNCHANGED <<ofFile, ofFd, ofUse, ofUnit, ofWait, ofLive, ofAt, ofLost>>
<1>1. /\ OfRunning(p) /\ ofLive' = ofLive /\ ofAt' = ofAt /\ ofLost' = ofLost
  BY DEF OfOpen
<1>2. CASE (i = "dir" /\ how = "write") \/ ~MayUse(p, i) \/ FreeFiles = {} \/ FreeFds(p, 0) = {}
  <2>1. OfFailed
    BY <1>2 DEF OfOpen
  <2> QED
    BY <1>1, <2>1 DEF OfFailed
<1>3. CASE ~ ((i = "dir" /\ how = "write") \/ ~MayUse(p, i) \/ FreeFiles = {} \/ FreeFds(p, 0) = {})
  <2>0. FreeFds(p, 0) # {}
    BY <1>3
  <2>1. PICK f \in FreeFiles :
          \/ /\ ~IsLine(i)
             /\ OfStored(p, f, i) /\ ofUse' = OfGot(ofUse, i)
             /\ UNCHANGED <<ofUnit, ofWait>>
          \/ /\ IsLine(i) /\ RsBusy(i) /\ OfFailed
          \/ /\ IsLine(i) /\ ~RsBusy(i)
             /\ IF i = "line" \/ ofUnit.carrier
                THEN /\ RsOpen(i) /\ OfStored(p, f, i)
                     /\ ofUse' = OfGot(ofUse, i) /\ UNCHANGED ofWait
                ELSE IF how = "nodelay"
                THEN /\ ofUnit' = [ofUnit EXCEPT !.dev = i]
                     /\ UNCHANGED <<ofFile, ofFd, ofUse, ofWait>>
                ELSE /\ RsOpen(i) /\ ofUse' = OfGot(ofUse, i)
                     /\ ofFile' = [ofFile EXCEPT ![f] = [ref |-> 1, ino |-> nobody]]
                     /\ ofWait' = [ofWait EXCEPT ![p] = [file |-> f, ino |-> i]]
                     /\ UNCHANGED ofFd
    BY <1>3 DEF OfOpen
  <2>2. CASE ~IsLine(i) /\ OfStored(p, f, i) /\ ofUse' = OfGot(ofUse, i) /\ UNCHANGED <<ofUnit, ofWait>>
    <3>1. ofWait' = ofWait /\ ofUnit' = ofUnit
      BY <2>2
    <3> QED
      BY <1>1, <2>0, <2>2, <3>1, OfOpenNow
  <2>3. CASE IsLine(i) /\ RsBusy(i) /\ OfFailed
    BY <1>1, <2>3 DEF OfFailed
  <2>4. CASE /\ IsLine(i) /\ ~RsBusy(i) /\ RsOpen(i) /\ OfStored(p, f, i)
             /\ ofUse' = OfGot(ofUse, i) /\ ofWait' = ofWait
    BY <1>1, <2>0, <2>4, OfOpenNow
  <2>5. CASE /\ IsLine(i) /\ ~RsBusy(i) /\ ofUnit' = [ofUnit EXCEPT !.dev = i]
             /\ UNCHANGED <<ofFile, ofFd, ofUse, ofWait>>
    <3>1. i = ofUnit.dev \/ (LineFiles = {} /\ LineWaits = {})
      BY <2>5, LineFree
    <3>2. ofUnit \in [open : Int, dev : {"line", "modem"}, carrier : BOOLEAN]
      BY DEF OfInv, OfTypeOK
    <3>3. /\ ofUnit' \in [open : Int, dev : {"line", "modem"}, carrier : BOOLEAN]
          /\ ofUnit'.open = ofUnit.open /\ ofUnit'.dev = i
      BY <2>5, <3>2 DEF IsLine
    <3>4. ofUnit'.dev = ofUnit.dev \/ (LineFiles = {} /\ LineWaits = {})
      BY <3>1, <3>3
    <3>5. ofFile' = ofFile /\ ofFd' = ofFd /\ ofUse' = ofUse /\ ofWait' = ofWait
      BY <2>5
    <3> QED
      BY <1>1, <3>3, <3>4, <3>5, LineNames
  <2>6. CASE /\ IsLine(i) /\ ~RsBusy(i) /\ RsOpen(i) /\ ofUse' = OfGot(ofUse, i)
             /\ ofFile' = [ofFile EXCEPT ![f] = [ref |-> 1, ino |-> nobody]]
             /\ ofWait' = [ofWait EXCEPT ![p] = [file |-> f, ino |-> i]]
             /\ ofFd' = ofFd
    BY <1>1, <2>0, <2>6, OfOpenWaits
  <2> QED
    BY <2>1, <2>2, <2>3, <2>4, <2>5, <2>6
<1> QED
  BY <1>2, <1>3

\* The wait ends with the carrier or with a signal.
LEMMA OfOpenedKeeps ==
  ASSUME OfInv, NEW p \in OfProcs, OfOpened(p)
  PROVE  OfInv'
<1>1. PICK f : f = ofWait[p].file
  OBVIOUS
<1>2. PICK i : i = ofWait[p].ino
  OBVIOUS
<1>3. /\ ofWait[p] # NoWait /\ ofWait' = [ofWait EXCEPT ![p] = NoWait]
      /\ ofLive' = ofLive /\ ofAt' = ofAt /\ ofLost' = ofLost
  BY DEF OfOpened
<1>4. WaitsFor(p, f, i)
  BY <1>1, <1>2, <1>3 DEF WaitsFor, OfInv, WaitsOwn
<1>5. \/ OfStored(p, f, i) /\ ofUse' = ofUse /\ ofUnit' = ofUnit
      \/ /\ ofFile' = [ofFile EXCEPT ![f] = NoFile] /\ ofUse' = Gone(ofUse, i)
         /\ ofUnit' = Cut(ofUnit) /\ ofFd' = ofFd
  BY <1>1, <1>2 DEF OfOpened
<1>6. CASE OfStored(p, f, i) /\ ofUse' = ofUse /\ ofUnit' = ofUnit
  BY <1>3, <1>4, <1>6, OfAnswered
<1>7. CASE /\ ofFile' = [ofFile EXCEPT ![f] = NoFile] /\ ofUse' = Gone(ofUse, i)
           /\ ofUnit' = Cut(ofUnit) /\ ofFd' = ofFd
  BY <1>3, <1>4, <1>7, OfInterrupted
<1> QED
  BY <1>5, <1>6, <1>7

LEMMA OfCarrierKeeps ==
  ASSUME OfInv, NEW c \in BOOLEAN, OfCarrier(c)
  PROVE  OfInv'
<1>1. ofUnit \in [open : Int, dev : {"line", "modem"}, carrier : BOOLEAN]
  BY DEF OfInv, OfTypeOK
<1>2. ofUnit' = [ofUnit EXCEPT !.carrier = c]
      /\ ofFile' = ofFile /\ ofFd' = ofFd /\ ofUse' = ofUse /\ ofWait' = ofWait
      /\ ofLive' = ofLive /\ ofAt' = ofAt /\ ofLost' = ofLost
  BY DEF OfCarrier
<1>3. /\ ofUnit' \in [open : Int, dev : {"line", "modem"}, carrier : BOOLEAN]
      /\ ofUnit'.open = ofUnit.open /\ ofUnit'.dev = ofUnit.dev
  BY <1>1, <1>2
<1> QED
  BY <1>2, <1>3, LineNames

\* The files in use, and their inodes, stay; so do the inodes, the calls and
\* the line.  The descriptors of p and the counts of the files may change.
LEMMA SameFiles ==
  ASSUME OfInv, NEW p \in OfProcs, p \in ofLive, p \notin LineWaits,
         ofFd' \in [OfProcs -> [OfFds -> OfDescs]], ofFile' \in [OfFiles -> OfSlots],
         \A q \in OfProcs \ {p} : ofFd'[q] = ofFd[q],
         \A g \in OfFiles : /\ ofFile'[g].ref = Descs(g)' + Calls(g)
                            /\ InUse(g)' = InUse(g) /\ ofFile'[g].ino = ofFile[g].ino,
         \A q \in LineWaits : ofFile'[ofWait[q].file] = ofFile[ofWait[q].file],
         ofUse' = ofUse, ofWait' = ofWait, ofUnit' = ofUnit, ofLive' = ofLive, ofAt' = ofAt,
         ofLost' = ofLost
  PROVE  OfInv'
<1>1. OfTypeOK'
  BY DEF OfInv, OfTypeOK
<1>2. FilesAdd'
  BY DEF FilesAdd, Calls
<1>3. LineFiles' = LineFiles /\ LineWaits' = LineWaits
  BY DEF LineFiles, LineWaits, IsLine
<1>4. InodesAdd'
  <2>1. ASSUME NEW i \in OfInodes
        PROVE  Openers(i)' = Openers(i) /\ Seats(i)' = Seats(i) /\ Arrivals(i)' = Arrivals(i)
    <3>1. {f \in OfFiles : InUse(f)' /\ ofFile'[f].ino = i} = {f \in OfFiles : InUse(f) /\ ofFile[f].ino = i}
      OBVIOUS
    <3> QED
      BY <3>1 DEF Openers, Seats, Arrivals
  <2> QED
    BY <2>1 DEF OfInv, InodesAdd
<1>5. LineAdds'
  BY <1>3 DEF OfInv, LineAdds
<1>6. DeadHold'
  BY DEF OfInv, DeadHold
<1>7. WaitsOwn'
  <2>1. \A f \in OfFiles : InUse(f)' => InUse(f) /\ ofFile'[f].ino = ofFile[f].ino
    OBVIOUS
  <2> QED
    BY <2>1, WaitsKept
<1> QED
  BY <1>1, <1>2, <1>4, <1>5, <1>6, <1>7 DEF OfInv

LEMMA OfSetfdKeeps ==
  ASSUME OfInv, NEW p \in OfProcs, NEW d \in OfFds, NEW c \in BOOLEAN, OfSetfd(p, d, c)
  PROVE  OfInv'
<1>1. /\ p \in ofLive /\ ofWait[p] = NoWait /\ ofFd' = [ofFd EXCEPT ![p][d].cloexec = c]
      /\ ofFile' = ofFile /\ ofUse' = ofUse /\ ofWait' = ofWait /\ ofUnit' = ofUnit
      /\ ofLive' = ofLive /\ ofAt' = ofAt /\ ofLost' = ofLost
  BY DEF OfSetfd, OfRunning
<1>2. p \notin LineWaits
  BY <1>1, OfRuns
<1>3. ofFd \in [OfProcs -> [OfFds -> OfDescs]] /\ ofFile \in [OfFiles -> OfSlots]
  BY DEF OfInv, OfTypeOK
<1>4. /\ ofFd' \in [OfProcs -> [OfFds -> OfDescs]]
      /\ \A q \in OfProcs \ {p} : ofFd'[q] = ofFd[q]
      /\ \A q \in OfProcs : \A e \in OfFds : ofFd'[q][e].file = ofFd[q][e].file
  <2>1. [ofFd[p][d] EXCEPT !.cloexec = c] \in OfDescs
        /\ [ofFd[p][d] EXCEPT !.cloexec = c].file = ofFd[p][d].file
    BY <1>3 DEF OfDescs
  <2>2. ofFd' = [ofFd EXCEPT ![p] = [ofFd[p] EXCEPT ![d] = [ofFd[p][d] EXCEPT !.cloexec = c]]]
    BY <1>1
  <2> QED
    BY <1>3, <2>1, <2>2
<1>5. ASSUME NEW g \in OfFiles
      PROVE  /\ ofFile'[g].ref = Descs(g)' + Calls(g)
             /\ InUse(g)' = InUse(g) /\ ofFile'[g].ino = ofFile[g].ino
  <2>1. {x \in OfProcs \X OfFds : ofFd'[x[1]][x[2]].file = g}
          = {x \in OfProcs \X OfFds : ofFd[x[1]][x[2]].file = g}
    BY <1>4
  <2>2. Descs(g)' = Descs(g)
    BY <2>1 DEF Descs
  <2>3. ofFile[g].ref = Descs(g) + Calls(g)
    BY DEF OfInv, FilesAdd
  <2> QED
    BY <1>1, <2>2, <2>3 DEF InUse
<1> QED
  BY <1>1, <1>2, <1>3, <1>4, <1>5, SameFiles

\* dup and F_DUPFD: one more descriptor of the file, one more reference.
LEMMA OfDupKeeps ==
  ASSUME OfInv, NEW p \in OfProcs, NEW d \in OfFds, NEW low, OfDup(p, d, low)
  PROVE  OfInv'
<1> DEFINE n == Min(FreeFds(p, low))
           f == ofFd[p][d].file
<1>0. FreeFds(p, low) # {}
  BY DEF OfDup
<1>1. /\ p \in ofLive /\ ofWait[p] = NoWait /\ f # nobody
      /\ ofFd' = [ofFd EXCEPT ![p][n] = ofFd[p][d]]
      /\ ofFile' = [ofFile EXCEPT ![f].ref = @ + 1]
      /\ ofUse' = ofUse /\ ofWait' = ofWait /\ ofUnit' = ofUnit
      /\ ofLive' = ofLive /\ ofAt' = ofAt /\ ofLost' = ofLost
  BY DEF OfDup, OfRunning
<1>n. n \in OfFds /\ ofFd[p][n].file = nobody
  BY <1>0, FreeDesc
<1> HIDE DEF n
<1>2. p \notin LineWaits
  BY <1>1, OfRuns
<1>3. ofFd \in [OfProcs -> [OfFds -> OfDescs]] /\ ofFile \in [OfFiles -> OfSlots]
  BY DEF OfInv, OfTypeOK
<1>4. ofFd[p][d] \in OfDescs /\ f \in OfFiles
  BY <1>1, <1>3 DEF OfDescs
<1>5. /\ ofFd' \in [OfProcs -> [OfFds -> OfDescs]]
      /\ \A q \in OfProcs \ {p} : ofFd'[q] = ofFd[q]
      /\ \A e \in OfFds \ {n} : ofFd'[p][e] = ofFd[p][e]
      /\ ofFd'[p][n].file = f
  BY <1>1, <1>n, <1>3, <1>4
<1> HIDE DEF f
<1>6. /\ ofFile[f] \in OfSlots /\ ofFile[f].ref \in Nat /\ ofFile[f].ref > 0
  <2>1. ofFile[f] \in OfSlots /\ ofFile[f].ref \in Nat
    BY <1>3, <1>4 DEF OfSlots
  <2>2. Puts(p, OfFds, f) > 0 /\ Puts(p, OfFds, f) \in Nat /\ Puts(p, OfFds, f) <= Shares(p, f)
        /\ Shares(p, f) \in Nat /\ Shares(p, f) <= Descs(f) /\ Descs(f) \in Nat
    BY PutsShares DEF f
  <2>3. ofFile[f].ref = Descs(f) + Calls(f) /\ Calls(f) \in Nat
    BY <1>4, OfSums DEF OfInv, FilesAdd
  <2> QED
    BY <2>1, <2>2, <2>3
<1>7. /\ ofFile' \in [OfFiles -> OfSlots] /\ ofFile'[f].ref = ofFile[f].ref + 1
      /\ ofFile'[f].ino = ofFile[f].ino
      /\ \A g \in OfFiles \ {f} : ofFile'[g] = ofFile[g]
  <2> DEFINE r == [ofFile[f] EXCEPT !.ref = ofFile[f].ref + 1]
  <2>1. r \in OfSlots /\ r.ref = ofFile[f].ref + 1 /\ r.ino = ofFile[f].ino
    <3>1. ofFile[f].ref + 1 \in Nat
      BY <1>6
    <3> QED
      BY <1>6, <3>1 DEF OfSlots
  <2>2. ofFile' = [ofFile EXCEPT ![f] = r]
    BY <1>1
  <2> HIDE DEF r
  <2> QED
    BY <1>3, <1>4, <2>1, <2>2
<1>8. ASSUME NEW g \in OfFiles
      PROVE  /\ ofFile'[g].ref = Descs(g)' + Calls(g)
             /\ InUse(g)' = InUse(g) /\ ofFile'[g].ino = ofFile[g].ino
  <2>1. /\ Descs(g) \in Nat /\ Descs(g)' \in Nat /\ Shares(p, g) \in Nat /\ Shares(p, g)' \in Nat
        /\ Descs(g)' = Descs(g) - Shares(p, g) + Shares(p, g)'
    BY <1>5, FdRow
  <2>2. Shares(p, g)' = Shares(p, g) - OfOne(ofFd[p][n].file = g) + OfOne(ofFd'[p][n].file = g)
    BY <1>n, <1>5, SharesOne
  <2>3. OfOne(ofFd[p][n].file = g) = 0 /\ OfOne(ofFd'[p][n].file = g) = IF g = f THEN 1 ELSE 0
    BY <1>n, <1>5, OpenFilesAssumption DEF OfOne, OpenFilesAssumption, nobody
  <2>4. Descs(g)' = IF g = f THEN Descs(g) + 1 ELSE Descs(g)
    BY <2>1, <2>2, <2>3
  <2>5. ofFile[g].ref = Descs(g) + Calls(g) /\ Calls(g) \in Nat
    BY OfSums DEF OfInv, FilesAdd
  <2>6. CASE g = f
    BY <1>6, <1>7, <2>1, <2>4, <2>5, <2>6 DEF InUse
  <2>7. CASE g # f
    BY <1>7, <2>4, <2>5, <2>7 DEF InUse
  <2> QED
    BY <2>6, <2>7
<1>9. \A q \in LineWaits : ofFile'[ofWait[q].file] = ofFile[ofWait[q].file]
  <2> SUFFICES ASSUME NEW q \in LineWaits PROVE ofFile'[ofWait[q].file] = ofFile[ofWait[q].file]
    OBVIOUS
  <2>1. ofWait[q].file \in OfFiles /\ ofFd[p][d].file # ofWait[q].file
    BY SlotOwn
  <2> QED
    BY <1>7, <2>1 DEF f
<1> QED
  BY <1>1, <1>2, <1>5, <1>7, <1>8, <1>9, SameFiles

\* A file with a descriptor besides those that are put is not closed.
LEMMA PutsLess ==
  ASSUME NEW p \in OfProcs, NEW ds \in SUBSET OfFds, NEW d \in OfFds, d \notin ds,
         NEW f, ofFd[p][d].file = f
  PROVE  Puts(p, ds, f) < Shares(p, f)
<1> DEFINE X == {e \in OfFds : ofFd[p][e].file = f}
           Y == {e \in ds : ofFd[p][e].file = f}
<1>1. X \in SUBSET OfFds /\ Y \in SUBSET X /\ d \in X \ Y
  OBVIOUS
<1>2. Puts(p, ds, f) = Cardinality(Y) /\ Shares(p, f) = Cardinality(X)
  BY DEF Puts, Shares
<1> HIDE DEF X, Y
<1>3. IsFiniteSet(X) /\ IsFiniteSet(X \ Y)
  BY <1>1, OfFinite, FS_Subset
<1>4. /\ Cardinality(X) \in Nat /\ Cardinality(Y) \in Nat /\ Cardinality(X \ Y) \in Nat
      /\ Cardinality(X \ Y) = Cardinality(X) - Cardinality(Y)
  BY <1>1, <1>3, OfLoses
<1>5. Cardinality(X \ Y) # 0
  BY <1>1, <1>3, FS_EmptySet
<1> QED
  BY <1>2, <1>4, <1>5

\* What putting one descriptor puts.
LEMMA PutsOne ==
  ASSUME NEW p, NEW n, NEW f
  PROVE  Puts(p, {n}, f) = IF ofFd[p][n].file = f THEN 1 ELSE 0
<1>1. CASE ofFd[p][n].file = f
  <2>1. {e \in {n} : ofFd[p][e].file = f} = {n}
    BY <1>1
  <2> QED
    BY <1>1, <2>1, FS_Singleton DEF Puts
<1>2. CASE ofFd[p][n].file # f
  <2>1. {e \in {n} : ofFd[p][e].file = f} = {}
    BY <1>2
  <2> QED
    BY <1>2, <2>1, FS_EmptySet DEF Puts
<1> QED
  BY <1>1, <1>2

\* dup2: the descriptor that is replaced is put, and may close its file.
LEMMA OfDup2Keeps ==
  ASSUME OfInv, NEW p \in OfProcs, NEW d \in OfFds, NEW n \in OfFds, OfDup2(p, d, n)
  PROVE  OfInv'
<1> DEFINE f == ofFd[p][d].file
           fs == Dropped(p, {n})
           mid == FilesAfter(p, {n})
<1>1. /\ p \in ofLive /\ ofWait[p] = NoWait /\ f # nobody /\ d # n
      /\ ofFd' = [ofFd EXCEPT ![p][n] = ofFd[p][d]]
      /\ ofFile' = [mid EXCEPT ![f].ref = @ + 1]
      /\ ofUse' = UseAfter(fs) /\ ofUnit' = UnitAfter(fs) /\ ofWait' = ofWait
      /\ ofLive' = ofLive /\ ofAt' = ofAt /\ ofLost' = ofLost
  BY DEF OfDup2, OfRunning, Replaced
<1>2. p \notin LineWaits
  BY <1>1, OfRuns
<1>t. OfTypeOK
  BY DEF OfInv
<1>3. ofFd \in [OfProcs -> [OfFds -> OfDescs]] /\ ofFile \in [OfFiles -> OfSlots]
  BY <1>t DEF OfTypeOK
<1>4. ofFd[p][d] \in OfDescs /\ f \in OfFiles
  BY <1>1, <1>3 DEF OfDescs
<1>5. /\ ofFd' \in [OfProcs -> [OfFds -> OfDescs]]
      /\ \A q \in OfProcs \ {p} : ofFd'[q] = ofFd[q]
      /\ \A e \in OfFds \ {n} : ofFd'[p][e] = ofFd[p][e]
      /\ ofFd'[p][n].file = f
  BY <1>1, <1>3, <1>4
<1> HIDE DEF f, fs, mid
<1>6. ASSUME NEW g \in OfFiles
      PROVE  /\ mid[g] \in OfSlots /\ mid[g].ref \in Nat /\ Puts(p, {n}, g) \in Nat
             /\ mid[g].ref = ofFile[g].ref - Puts(p, {n}, g)
             /\ g \in fs => InUse(g)
             /\ mid[g].ref > 0 <=> InUse(g) /\ g \notin fs
             /\ mid[g].ref > 0 => mid[g].ino = ofFile[g].ino
  BY PutFiles DEF mid, fs
<1>7. mid \in [OfFiles -> OfSlots]
  <2>1. mid = [g \in OfFiles |-> mid[g]]
    BY DEF mid, FilesAfter
  <2> QED
    BY <1>6, <2>1
<1>8. mid[f].ref > 0 /\ InUse(f) /\ f \notin fs
  <2>1. Puts(p, {n}, f) < Shares(p, f)
    BY <1>1, PutsLess DEF f
  <2>2. Puts(p, {n}, f) \in Nat /\ Shares(p, f) \in Nat /\ Shares(p, f) <= Descs(f) /\ Descs(f) \in Nat
    <3>1. {n} \in SUBSET OfFds
      OBVIOUS
    <3> QED
      BY <3>1, PutsShares
  <2>3. ofFile[f].ref = Descs(f) + Calls(f) /\ Calls(f) \in Nat
    BY <1>4, OfSums DEF OfInv, FilesAdd
  <2>4. mid[f].ref > 0
    BY <1>4, <1>6, <2>1, <2>2, <2>3
  <2> QED
    BY <1>4, <1>6, <2>4
<1>9. /\ ofFile' \in [OfFiles -> OfSlots] /\ ofFile'[f].ref = mid[f].ref + 1
      /\ ofFile'[f].ino = mid[f].ino /\ \A g \in OfFiles \ {f} : ofFile'[g] = mid[g]
  <2> DEFINE r == [mid[f] EXCEPT !.ref = mid[f].ref + 1]
  <2>0. mid[f] \in OfSlots /\ mid[f].ref \in Nat
    BY <1>4, <1>6
  <2>1. r \in OfSlots /\ r.ref = mid[f].ref + 1 /\ r.ino = mid[f].ino
    <3>1. mid[f].ref + 1 \in Nat
      BY <2>0
    <3> QED
      BY <2>0, <3>1 DEF OfSlots
  <2>2. ofFile' = [mid EXCEPT ![f] = r]
    BY <1>1
  <2> HIDE DEF r
  <2> QED
    BY <1>4, <1>7, <2>1, <2>2
<1>10. \A g \in OfFiles : /\ InUse(g)' <=> InUse(g) /\ g \notin fs
                          /\ InUse(g)' => ofFile'[g].ino = ofFile[g].ino
  <2> SUFFICES ASSUME NEW g \in OfFiles
               PROVE  /\ InUse(g)' <=> InUse(g) /\ g \notin fs
                      /\ InUse(g)' => ofFile'[g].ino = ofFile[g].ino
    OBVIOUS
  <2>1. CASE g = f
    BY <1>4, <1>6, <1>8, <1>9, <2>1 DEF InUse
  <2>2. CASE g # f
    BY <1>6, <1>9, <2>2 DEF InUse
  <2> QED
    BY <2>1, <2>2
<1>11. fs \in SUBSET OfFiles /\ \A g \in fs : InUse(g)
  BY <1>6 DEF fs, Dropped
<1>12. \A i \in OfInodes :
             /\ Openers(i) \in Nat /\ Openers(i)' \in Nat
             /\ Cardinality({g \in fs : ofFile[g].ino = i}) \in Nat /\ ClosedLines(fs) \in Nat
             /\ Openers(i)' = Openers(i) - Cardinality({g \in fs : ofFile[g].ino = i})
             /\ Cardinality(LineFiles) \in Nat /\ Cardinality(LineFiles') \in Nat
             /\ Cardinality(LineFiles') = Cardinality(LineFiles) - ClosedLines(fs)
  BY <1>10, <1>11, FilesGo
<1>l. /\ ClosedLines(fs) \in Nat /\ Cardinality(LineFiles) \in Nat /\ Cardinality(LineFiles') \in Nat
      /\ Cardinality(LineFiles') = Cardinality(LineFiles) - ClosedLines(fs)
  <2>1. "dir" \in OfInodes
    BY DEF OfInodes
  <2> QED
    BY <1>12, <2>1, Zenon
<1>13. /\ ofUnit' \in [open : Int, dev : {"line", "modem"}, carrier : BOOLEAN]
       /\ ofUnit'.open = ofUnit.open - ClosedLines(fs) /\ ofUnit'.dev = ofUnit.dev
  <2>0. ofUnit \in [open : Int, dev : {"line", "modem"}, carrier : BOOLEAN]
    BY <1>t DEF OfTypeOK
  <2>1. ofUnit.open - ClosedLines(fs) \in Int
    BY <1>l, <2>0
  <2>2. ofUnit' = [open |-> ofUnit.open - ClosedLines(fs), dev |-> ofUnit.dev,
                   carrier |-> ofUnit.carrier]
    BY <1>1, <2>0 DEF UnitAfter
  <2> QED
    BY <2>0, <2>1, <2>2
<1>14. FilesAdd'
  <2> SUFFICES ASSUME NEW g \in OfFiles PROVE ofFile'[g].ref = Descs(g)' + Calls(g)'
    BY DEF FilesAdd
  <2>1. /\ Descs(g) \in Nat /\ Descs(g)' \in Nat /\ Shares(p, g) \in Nat /\ Shares(p, g)' \in Nat
        /\ Descs(g)' = Descs(g) - Shares(p, g) + Shares(p, g)'
    BY <1>5, FdRow
  <2>2. Shares(p, g)' = Shares(p, g) - OfOne(ofFd[p][n].file = g) + OfOne(ofFd'[p][n].file = g)
    BY <1>5, SharesOne
  <2>3. /\ OfOne(ofFd[p][n].file = g) = Puts(p, {n}, g)
        /\ OfOne(ofFd'[p][n].file = g) = IF g = f THEN 1 ELSE 0
    <3>1. Puts(p, {n}, g) = IF ofFd[p][n].file = g THEN 1 ELSE 0
      BY PutsOne
    <3> QED
      BY <1>5, <3>1 DEF OfOne
  <2>4. Descs(g)' = Descs(g) - Puts(p, {n}, g) + (IF g = f THEN 1 ELSE 0)
    BY <1>6, <2>1, <2>2, <2>3
  <2>5. ofFile[g].ref = Descs(g) + Calls(g) /\ Calls(g) \in Nat /\ Calls(g)' = Calls(g)
    BY <1>1, OfSums DEF OfInv, FilesAdd, Calls
  <2>6. CASE g = f
    BY <1>6, <1>9, <2>1, <2>4, <2>5, <2>6
  <2>7. CASE g # f
    BY <1>6, <1>9, <2>1, <2>4, <2>5, <2>7
  <2> QED
    BY <2>6, <2>7
<1>15. LineAdds'
  <2>1. LineWaits' = LineWaits /\ Cardinality(LineWaits) \in Nat
    BY <1>1, OfSums DEF LineWaits
  <2>2. ofUnit.open = Cardinality(LineFiles) + Cardinality(LineWaits)
    BY DEF OfInv, LineAdds
  <2>3. ofUnit'.open = Cardinality(LineFiles') + Cardinality(LineWaits)
    BY <1>l, <1>13, <2>1, <2>2
  <2> QED
    BY <2>1, <2>3 DEF LineAdds
<1>16. WaitsOwn'
  <2>1. ASSUME NEW q \in LineWaits PROVE ofFile'[ofWait[q].file] = ofFile[ofWait[q].file]
    <3> DEFINE h == ofWait[q].file
    <3>1. h \in OfFiles /\ \A e \in OfFds : ofFd[p][e].file # h
      BY SlotOwn
    <3>2. Puts(p, {n}, h) = 0 /\ h # f
      BY <3>1, PutsOne DEF f
    <3> HIDE DEF h
    <3>3. ofFile[h] \in OfSlots
      BY <1>3, <3>1
    <3>4. h \notin Dropped(p, {n})
      BY <3>2 DEF Dropped
    <3>5. mid[h] = [ofFile[h] EXCEPT !.ref = @ - Puts(p, {n}, h)]
      BY <3>1, <3>4 DEF FilesAfter, mid
    <3>6. mid[h] = ofFile[h]
      BY <3>2, <3>3, <3>5 DEF OfSlots
    <3>7. ofFile'[h] = ofFile[h]
      BY <1>9, <3>1, <3>2, <3>6
    <3> QED
      BY <3>7 DEF h
  <2>2. \A g \in OfFiles : InUse(g)' => InUse(g) /\ ofFile'[g].ino = ofFile[g].ino
    BY <1>10
  <2>3. ofWait' = ofWait /\ ofUnit'.dev = ofUnit.dev
    BY <1>1, <1>13
  <2> QED
    BY <1>2, <1>5, <2>1, <2>2, <2>3, WaitsKept
<1>17. /\ ofUse' \in [OfInodes -> Int]
       /\ \A i \in OfInodes : ofUse'[i] = ofUse[i] - Openers(i) + Openers(i)'
  <2> SUFFICES ASSUME NEW i \in OfInodes
               PROVE  UseAfter(fs)[i] \in Int /\ UseAfter(fs)[i] = ofUse[i] - Openers(i) + Openers(i)'
    BY <1>1 DEF UseAfter
  <2>1. ofUse[i] \in Int
    BY <1>t DEF OfTypeOK
  <2>2. UseAfter(fs)[i] = ofUse[i] - Cardinality({g \in fs : ofFile[g].ino = i})
    BY DEF UseAfter
  <2>3. /\ Openers(i) \in Nat /\ Openers(i)' \in Nat
        /\ Cardinality({g \in fs : ofFile[g].ino = i}) \in Nat
        /\ Openers(i)' = Openers(i) - Cardinality({g \in fs : ofFile[g].ino = i})
    BY <1>12, Zenon
  <2> DEFINE k == Cardinality({g \in fs : ofFile[g].ino = i})
  <2> HIDE DEF k
  <2>4. k \in Nat /\ Openers(i)' = Openers(i) - k /\ UseAfter(fs)[i] = ofUse[i] - k
    BY <2>2, <2>3 DEF k
  <2> QED
    BY <2>1, <2>3, <2>4
<1>18. InodesAdd'
  <2> SUFFICES ASSUME NEW i \in OfInodes
               PROVE  ofUse'[i] = ofLost'[i] + Openers(i)' + Seats(i)' + Arrivals(i)'
    BY DEF InodesAdd
  <2>1. Seats(i)' = Seats(i) /\ Arrivals(i)' = Arrivals(i)
    BY <1>1 DEF Seats, Arrivals
  <2>2. /\ ofUse[i] = ofLost[i] + Openers(i) + Seats(i) + Arrivals(i) /\ ofLost[i] \in Nat
        /\ Openers(i) \in Nat /\ Seats(i) \in Nat /\ Arrivals(i) \in Nat /\ Openers(i)' \in Nat
    BY <1>t, <1>12, OfSums DEF OfInv, InodesAdd, OfTypeOK
  <2>3. ofUse'[i] = ofUse[i] - Openers(i) + Openers(i)' /\ ofLost'[i] = ofLost[i]
    BY <1>1, <1>17
  <2> QED
    BY <2>1, <2>2, <2>3
<1>19. OfTypeOK'
  BY <1>t, <1>1, <1>5, <1>9, <1>13, <1>17 DEF OfTypeOK
<1>20. DeadHold'
  BY <1>1, <1>5 DEF OfInv, DeadHold
<1> QED
  BY <1>14, <1>15, <1>16, <1>18, <1>19, <1>20 DEF OfInv

\* One place of a process changes.
LEMMA AtOne ==
  ASSUME NEW p, NEW w \in OfPlaces, DOMAIN ofAt[p] = OfPlaces, DOMAIN ofAt'[p] = OfPlaces,
         \A v \in OfPlaces \ {w} : ofAt'[p][v] = ofAt[p][v], NEW i
  PROVE  /\ UsedAt(p, i) \in Nat /\ UsedAt(p, i)' \in Nat
         /\ UsedAt(p, i)' = UsedAt(p, i) - OfOne(ofAt[p][w] = i) + OfOne(ofAt'[p][w] = i)
<1> DEFINE A == {v \in OfPlaces : ofAt[p][v] = i}
           B == {v \in OfPlaces : ofAt'[p][v] = i}
<1>1. A \in SUBSET OfPlaces /\ B \in SUBSET OfPlaces /\ A \ {w} = B \ {w}
  OBVIOUS
<1>2. (w \in A) = (ofAt[p][w] = i) /\ (w \in B) = (ofAt'[p][w] = i)
  OBVIOUS
<1>3. UsedAt(p, i) = Cardinality(A) /\ UsedAt(p, i)' = Cardinality(B)
  BY DEF UsedAt
<1>4. IsFiniteSet(OfPlaces)
  <2>1. OfPlaces = ({"cwd"} \cup {"root"}) \cup {"tty"}
    BY DEF OfPlaces
  <2>2. IsFiniteSet({"cwd"} \cup {"root"})
    BY FS_Singleton, FS_AddElement
  <2>3. IsFiniteSet(({"cwd"} \cup {"root"}) \cup {"tty"})
    BY <2>2, FS_AddElement
  <2> QED
    BY <2>1, <2>3
<1> HIDE DEF A, B
<1>5. /\ Cardinality(A) \in Nat /\ Cardinality(B) \in Nat
      /\ Cardinality(B) = Cardinality(A) - OfOne(w \in A) + OfOne(w \in B)
  BY <1>1, <1>4, OfDiffer
<1> QED
  BY <1>2, <1>3, <1>5

\* Nothing changes but the places and the counts of the inodes.
LEMMA PlacesKeep ==
  ASSUME OfInv, OfTypeOK', InodesAdd', DeadHold',
         ofFile' = ofFile, ofFd' = ofFd, ofWait' = ofWait, ofUnit' = ofUnit
  PROVE  OfInv'
<1>1. FilesAdd'
  BY DEF OfInv, FilesAdd, Descs, Calls
<1>2. LineFiles' = LineFiles /\ LineWaits' = LineWaits
  BY DEF LineFiles, LineWaits, InUse
<1>3. LineAdds'
  BY <1>2 DEF OfInv, LineAdds
<1>4. WaitsOwn'
  <2>1. \A q \in OfProcs : FreeFds(q, 0)' = FreeFds(q, 0)
    BY DEF FreeFds
  <2> QED
    BY <1>2, <2>1 DEF OfInv, WaitsOwn
<1> QED
  BY <1>1, <1>3, <1>4 DEF OfInv

\* chdir, chroot and the controlling terminal: the new one is kept, the old put.
LEMMA OfSetAtKeeps ==
  ASSUME OfInv, NEW p \in OfProcs, NEW w \in OfPlaces, NEW i \in OfInodes \cup {nobody},
         OfSetAt(p, w, i)
  PROVE  OfInv'
<1>1. /\ p \in ofLive /\ ofUse' = MovedTo(ofUse, ofAt[p][w], i)
      /\ ofAt' = [ofAt EXCEPT ![p][w] = i]
      /\ ofFile' = ofFile /\ ofFd' = ofFd /\ ofWait' = ofWait /\ ofUnit' = ofUnit
      /\ ofLive' = ofLive /\ ofLost' = ofLost
  BY DEF OfSetAt, OfRunning
<1>t. OfTypeOK
  BY DEF OfInv
<1>2. /\ ofAt' \in [OfProcs -> [OfPlaces -> OfInodes \cup {nobody}]]
      /\ DOMAIN ofAt[p] = OfPlaces /\ DOMAIN ofAt'[p] = OfPlaces
      /\ \A q \in OfProcs \ {p} : ofAt'[q] = ofAt[q]
      /\ \A v \in OfPlaces \ {w} : ofAt'[p][v] = ofAt[p][v]
      /\ ofAt'[p][w] = i /\ ofAt[p][w] \in OfInodes \cup {nobody}
  <2>1. ofAt \in [OfProcs -> [OfPlaces -> OfInodes \cup {nobody}]]
    BY <1>t DEF OfTypeOK
  <2> QED
    BY <1>1, <2>1
<1>3. PICK old : old = ofAt[p][w]
  OBVIOUS
<1>4. ofUse \in [OfInodes -> Int] /\ old \in OfInodes \cup {nobody} /\ nobody \notin OfInodes
  BY <1>t, <1>2, <1>3 DEF OfTypeOK, OfInodes, nobody
<1> DEFINE got == OfGot(ofUse, i)
<1>5. /\ got \in [OfInodes -> Int]
      /\ \A j \in OfInodes : got[j] = ofUse[j] + (IF i = j THEN 1 ELSE 0)
  BY <1>4 DEF OfGot
<1> HIDE DEF got
<1>6. /\ Gone(got, old) \in [OfInodes -> Int]
      /\ \A j \in OfInodes : Gone(got, old)[j] = got[j] - (IF old = j THEN 1 ELSE 0)
  BY <1>4, <1>5 DEF Gone
<1>7. ofUse' = Gone(got, old)
  BY <1>1, <1>3 DEF MovedTo, got
<1>8. OfTypeOK'
  BY <1>t, <1>1, <1>2, <1>6, <1>7 DEF OfTypeOK
<1>9. InodesAdd'
  <2> SUFFICES ASSUME NEW j \in OfInodes
               PROVE  ofUse'[j] = ofLost'[j] + Openers(j)' + Seats(j)' + Arrivals(j)'
    BY DEF InodesAdd
  <2>1. Openers(j)' = Openers(j) /\ Arrivals(j)' = Arrivals(j)
    BY <1>1 DEF Openers, InUse, Arrivals
  <2>2. /\ ofUse[j] = ofLost[j] + Openers(j) + Seats(j) + Arrivals(j) /\ ofLost[j] \in Nat
        /\ Openers(j) \in Nat /\ Seats(j) \in Nat /\ Arrivals(j) \in Nat
        /\ ofUse[j] \in Int /\ ofLost'[j] = ofLost[j]
    BY <1>t, <1>1, OfSums DEF OfInv, InodesAdd, OfTypeOK
  <2>3. /\ Seats(j)' \in Nat /\ UsedAt(p, j) \in Nat /\ UsedAt(p, j)' \in Nat
        /\ Seats(j)' = Seats(j) - UsedAt(p, j) + UsedAt(p, j)'
    BY <1>2, AtRow
  <2>4. UsedAt(p, j)' = UsedAt(p, j) - OfOne(ofAt[p][w] = j) + OfOne(ofAt'[p][w] = j)
    BY <1>2, AtOne
  <2>5. /\ OfOne(ofAt[p][w] = j) = (IF old = j THEN 1 ELSE 0)
        /\ OfOne(ofAt'[p][w] = j) = (IF i = j THEN 1 ELSE 0)
    BY <1>2, <1>3 DEF OfOne
  <2>6. ofUse'[j] = ofUse[j] + (IF i = j THEN 1 ELSE 0) - (IF old = j THEN 1 ELSE 0)
    BY <1>5, <1>6, <1>7, <2>2
  <2>7. Seats(j)' = Seats(j) + (IF i = j THEN 1 ELSE 0) - (IF old = j THEN 1 ELSE 0)
    BY <2>2, <2>3, <2>4, <2>5
  <2> QED
    BY <2>1, <2>2, <2>6, <2>7
<1>10. DeadHold'
  BY <1>1, <1>2 DEF OfInv, DeadHold
<1> QED
  BY <1>1, <1>8, <1>9, <1>10, PlacesKeep

\* The failing chmod, chown and utime: a reference that nothing will put.
LEMMA MislaidKeeps ==
  ASSUME OfInv, NEW i \in OfInodes, Mislaid(i),
         ofFile' = ofFile, ofFd' = ofFd, ofWait' = ofWait, ofUnit' = ofUnit,
         ofLive' = ofLive, ofAt' = ofAt
  PROVE  OfInv'
<1>1. ofUse' = OfGot(ofUse, i) /\ ofLost' = [ofLost EXCEPT ![i] = @ + 1]
  BY DEF Mislaid
<1>t. OfTypeOK
  BY DEF OfInv
<1>2. /\ ofUse' \in [OfInodes -> Int] /\ ofLost' \in [OfInodes -> Nat]
      /\ \A j \in OfInodes : /\ ofUse'[j] = ofUse[j] + OfOne(i = j)
                             /\ ofLost'[j] = ofLost[j] + OfOne(i = j)
  <2>1. ofLost \in [OfInodes -> Nat]
    BY <1>t DEF OfTypeOK
  <2>2. /\ ofUse' \in [OfInodes -> Int]
        /\ \A j \in OfInodes : ofUse'[j] = ofUse[j] + OfOne(i = j)
    BY <1>1, OfGotOne
  <2>3. ofLost' \in [OfInodes -> Nat] /\ \A j \in OfInodes : ofLost'[j] = ofLost[j] + OfOne(i = j)
    BY <1>1, <2>1 DEF OfOne
  <2> QED
    BY <2>2, <2>3
<1>3. OfTypeOK'
  BY <1>t, <1>2 DEF OfTypeOK
<1>4. InodesAdd'
  <2> SUFFICES ASSUME NEW j \in OfInodes
               PROVE  ofUse'[j] = ofLost'[j] + Openers(j)' + Seats(j)' + Arrivals(j)'
    BY DEF InodesAdd
  <2>1. Openers(j)' = Openers(j) /\ Seats(j)' = Seats(j) /\ Arrivals(j)' = Arrivals(j)
    BY DEF Openers, InUse, Seats, Arrivals
  <2>2. /\ ofUse[j] = ofLost[j] + Openers(j) + Seats(j) + Arrivals(j) /\ ofLost[j] \in Nat
        /\ Openers(j) \in Nat /\ Seats(j) \in Nat /\ Arrivals(j) \in Nat /\ ofUse[j] \in Int
        /\ OfOne(i = j) \in Nat
    BY <1>t, OfSums DEF OfInv, InodesAdd, OfTypeOK, OfOne
  <2>3. ofUse'[j] = ofUse[j] + OfOne(i = j) /\ ofLost'[j] = ofLost[j] + OfOne(i = j)
    BY <1>2
  <2> DEFINE o == OfOne(i = j)
  <2>4. o \in Nat /\ ofUse'[j] = ofUse[j] + o /\ ofLost'[j] = ofLost[j] + o
    BY <2>2, <2>3
  <2> HIDE DEF o
  <2> QED
    BY <2>1, <2>2, <2>4
<1>5. DeadHold'
  BY DEF OfInv, DeadHold
<1> QED
  BY <1>3, <1>4, <1>5, PlacesKeep

\* fork: the child has the descriptors and the places of its parent, and each
\* of them is a reference.
LEMMA OfForkKeeps ==
  ASSUME OfInv, NEW p \in OfProcs, NEW c \in OfProcs, OfFork(p, c)
  PROVE  OfInv'
<1>1. /\ p \in ofLive /\ c \notin ofLive /\ ofLive' = ofLive \cup {c}
      /\ ofFd' = [ofFd EXCEPT ![c] = ofFd[p]] /\ ofAt' = [ofAt EXCEPT ![c] = ofAt[p]]
      /\ ofFile' = [f \in OfFiles |-> [ofFile[f] EXCEPT !.ref = @ + Shares(p, f)]]
      /\ ofUse' = [i \in OfInodes |-> ofUse[i] + UsedAt(p, i)]
      /\ ofWait' = ofWait /\ ofUnit' = ofUnit /\ ofLost' = ofLost
  BY DEF OfFork, OfRunning
<1>t. OfTypeOK
  BY DEF OfInv
<1>2. /\ ofWait[c] = NoWait /\ c \notin LineWaits
      /\ \A d \in OfFds : ofFd[c][d].file = nobody
      /\ \A w \in OfPlaces : ofAt[c][w] = nobody
  <2>1. ofWait[c] = NoWait /\ (\A d \in OfFds : ofFd[c][d].file = nobody)
        /\ \A w \in OfPlaces : ofAt[c][w] = nobody
    BY <1>1 DEF OfInv, DeadHold
  <2> QED
    BY <2>1, OfRuns
<1>3. /\ ofFd \in [OfProcs -> [OfFds -> OfDescs]] /\ ofFile \in [OfFiles -> OfSlots]
      /\ ofAt \in [OfProcs -> [OfPlaces -> OfInodes \cup {nobody}]]
      /\ ofUse \in [OfInodes -> Int]
  BY <1>t DEF OfTypeOK
<1>4. /\ ofFd' \in [OfProcs -> [OfFds -> OfDescs]] /\ ofFd'[c] = ofFd[p]
      /\ \A q \in OfProcs \ {c} : ofFd'[q] = ofFd[q]
      /\ ofAt' \in [OfProcs -> [OfPlaces -> OfInodes \cup {nobody}]] /\ ofAt'[c] = ofAt[p]
      /\ \A q \in OfProcs \ {c} : ofAt'[q] = ofAt[q]
      /\ DOMAIN ofAt[c] = OfPlaces /\ DOMAIN ofAt'[c] = OfPlaces
  BY <1>1, <1>3
<1>5. ASSUME NEW f \in OfFiles
      PROVE  /\ Shares(c, f) = 0 /\ Shares(c, f)' = Shares(p, f) /\ Shares(p, f) \in Nat
             /\ Shares(p, f) <= ofFile[f].ref /\ ofFile[f].ref \in Nat
             /\ ofFile[f].ref = Descs(f) + Calls(f) /\ Descs(f) \in Nat /\ Calls(f) \in Nat
             /\ Descs(f)' = Descs(f) + Shares(p, f)
  <2>1. {d \in OfFds : ofFd[c][d].file = f} = {}
    BY <1>2, OpenFilesAssumption DEF OpenFilesAssumption, nobody
  <2>2. Shares(c, f) = 0 /\ Shares(c, f)' = Shares(p, f)
    BY <1>4, <2>1, FS_EmptySet DEF Shares
  <2>3. Shares(p, f) \in Nat /\ Shares(p, f) <= Descs(f) /\ Descs(f) \in Nat
    BY PutsShares
  <2>4. ofFile[f].ref = Descs(f) + Calls(f) /\ Calls(f) \in Nat
    BY OfSums DEF OfInv, FilesAdd
  <2>5. /\ Descs(f) \in Nat /\ Descs(f)' \in Nat /\ Shares(c, f) \in Nat /\ Shares(c, f)' \in Nat
        /\ Descs(f)' = Descs(f) - Shares(c, f) + Shares(c, f)'
    BY <1>4, FdRow
  <2> QED
    BY <2>2, <2>3, <2>4, <2>5
<1>6. ASSUME NEW f \in OfFiles
      PROVE  /\ ofFile'[f] \in OfSlots /\ ofFile'[f].ref = ofFile[f].ref + Shares(p, f)
             /\ ofFile'[f].ino = ofFile[f].ino
             /\ InUse(f)' <=> InUse(f)
             /\ Shares(p, f) = 0 => ofFile'[f] = ofFile[f]
  <2> DEFINE r == [ofFile[f] EXCEPT !.ref = ofFile[f].ref + Shares(p, f)]
  <2>1. ofFile'[f] = r
    BY <1>1
  <2>2. ofFile[f] \in OfSlots
    BY <1>3
  <2>3. ofFile[f].ref + Shares(p, f) \in Nat
    BY <1>5
  <2>4. r \in OfSlots /\ r.ref = ofFile[f].ref + Shares(p, f) /\ r.ino = ofFile[f].ino
    BY <2>2, <2>3 DEF OfSlots
  <2>5. Shares(p, f) = 0 => r = ofFile[f]
    <3>1. ASSUME Shares(p, f) = 0 PROVE ofFile[f].ref + Shares(p, f) = ofFile[f].ref
      BY <1>5, <3>1
    <3> QED
      BY <2>2, <3>1 DEF OfSlots
  <2> HIDE DEF r
  <2>6. InUse(f)' <=> InUse(f)
    BY <1>5, <2>1, <2>4 DEF InUse
  <2> QED
    BY <2>1, <2>4, <2>5, <2>6
<1>7. ofFile' \in [OfFiles -> OfSlots]
  <2>1. ofFile' = [f \in OfFiles |-> ofFile'[f]]
    BY <1>1
  <2> QED
    BY <1>6, <2>1
<1>8. ASSUME NEW i \in OfInodes
      PROVE  /\ UsedAt(p, i) \in Nat /\ Seats(i)' = Seats(i) + UsedAt(p, i)
             /\ Openers(i)' = Openers(i) /\ Arrivals(i)' = Arrivals(i)
             /\ ofUse'[i] \in Int /\ ofUse'[i] = ofUse[i] + UsedAt(p, i)
  <2>1. {w \in DOMAIN ofAt[c] : ofAt[c][w] = i} = {}
    BY <1>2, <1>4 DEF OfInodes, nobody
  <2>2. UsedAt(c, i) = 0 /\ UsedAt(c, i)' = UsedAt(p, i)
    BY <1>4, <2>1, FS_EmptySet DEF UsedAt
  <2>3. /\ Seats(i) \in Nat /\ Seats(i)' \in Nat /\ UsedAt(c, i) \in Nat /\ UsedAt(c, i)' \in Nat
        /\ Seats(i)' = Seats(i) - UsedAt(c, i) + UsedAt(c, i)'
    BY <1>4, AtRow
  <2>4. {f \in OfFiles : InUse(f)' /\ ofFile'[f].ino = i} = {f \in OfFiles : InUse(f) /\ ofFile[f].ino = i}
    BY <1>6
  <2>5. Openers(i)' = Openers(i) /\ Arrivals(i)' = Arrivals(i)
    BY <1>1, <2>4 DEF Openers, Arrivals
  <2>6. UsedAt(p, i) \in Nat /\ Seats(i)' = Seats(i) + UsedAt(p, i)
    BY <2>2, <2>3
  <2>7. ofUse'[i] = ofUse[i] + UsedAt(p, i) /\ ofUse[i] \in Int
    BY <1>1, <1>3
  <2> QED
    BY <2>5, <2>6, <2>7
<1>9. ofUse' \in [OfInodes -> Int]
  <2>1. ofUse' = [i \in OfInodes |-> ofUse'[i]]
    BY <1>1
  <2> QED
    BY <1>8, <2>1
<1>10. OfTypeOK'
  BY <1>t, <1>1, <1>4, <1>7, <1>9 DEF OfTypeOK
<1>11. FilesAdd'
  <2> SUFFICES ASSUME NEW f \in OfFiles PROVE ofFile'[f].ref = Descs(f)' + Calls(f)'
    BY DEF FilesAdd
  <2>1. Calls(f)' = Calls(f)
    BY <1>1 DEF Calls
  <2>2. ofFile'[f].ref = ofFile[f].ref + Shares(p, f)
    BY <1>6
  <2> QED
    BY <1>5, <2>1, <2>2
<1>12. InodesAdd'
  <2> SUFFICES ASSUME NEW i \in OfInodes
               PROVE  ofUse'[i] = ofLost'[i] + Openers(i)' + Seats(i)' + Arrivals(i)'
    BY DEF InodesAdd
  <2>1. /\ ofUse[i] = ofLost[i] + Openers(i) + Seats(i) + Arrivals(i) /\ ofLost[i] \in Nat
        /\ Openers(i) \in Nat /\ Seats(i) \in Nat /\ Arrivals(i) \in Nat /\ ofLost'[i] = ofLost[i]
    BY <1>t, <1>1, OfSums DEF OfInv, InodesAdd, OfTypeOK
  <2> QED
    BY <1>8, <2>1
<1>13. LineFiles' = LineFiles /\ LineWaits' = LineWaits
  BY <1>1, <1>6 DEF LineFiles, LineWaits, IsLine
<1>14. LineAdds'
  BY <1>1, <1>13 DEF OfInv, LineAdds
<1>15. DeadHold'
  BY <1>1, <1>4 DEF OfInv, DeadHold
<1>16. WaitsOwn'
  <2>1. ASSUME NEW q \in LineWaits PROVE ofFile'[ofWait[q].file] = ofFile[ofWait[q].file]
    <3> DEFINE h == ofWait[q].file
    <3>1. h \in OfFiles /\ Descs(h) = 0
      BY SlotOwn
    <3> HIDE DEF h
    <3>2. Shares(p, h) \in Nat /\ Shares(p, h) <= Descs(h)
      BY PutsShares
    <3>3. Shares(p, h) = 0
      BY <3>1, <3>2
    <3>4. ofFile'[h] = ofFile[h]
      BY <1>6, <3>1, <3>3
    <3> QED
      BY <3>4 DEF h
  <2>2. \A f \in OfFiles : InUse(f)' => InUse(f) /\ ofFile'[f].ino = ofFile[f].ino
    BY <1>6
  <2>3. ofWait' = ofWait /\ ofUnit'.dev = ofUnit.dev
    BY <1>1
  <2> QED
    BY <1>2, <1>4, <2>1, <2>2, <2>3, WaitsKept
<1> QED
  BY <1>10, <1>11, <1>12, <1>14, <1>15, <1>16 DEF OfInv

\* Steps that change none of this.
LEMMA OfStutter ==
  ASSUME OfInv, ofLive' = ofLive, ofFd' = ofFd, ofFile' = ofFile, ofUse' = ofUse, ofAt' = ofAt,
         ofWait' = ofWait, ofUnit' = ofUnit, ofLost' = ofLost
  PROVE  OfInv'
<1>1. ofUnit \in [open : Int, dev : {"line", "modem"}, carrier : BOOLEAN]
  BY DEF OfInv, OfTypeOK
<1>2. ofUnit'.open = ofUnit.open /\ ofUnit'.dev = ofUnit.dev
  OBVIOUS
<1> QED
  BY <1>1, <1>2, LineNames

LEMMA OfStepKeeps ==
  ASSUME OfInv, OfStep \/ UNCHANGED ofVars
  PROVE  OfInv'
<1>0. CASE UNCHANGED ofVars
  BY <1>0, OfStutter DEF ofVars
<1>1. CASE \E p \in OfProcs, i \in OfInodes, how \in {"write", "nodelay"} :
             (i = "dir" => how = "write") /\ OfOpen(p, i, how)
  <2>1. PICK p \in OfProcs, i \in OfInodes, how \in {"write", "nodelay"} : OfOpen(p, i, how)
    BY <1>1
  <2>2. OfInv' \/ UNCHANGED <<ofFile, ofFd, ofUse, ofUnit, ofWait, ofLive, ofAt, ofLost>>
    BY <2>1, OfOpenKeeps
  <2> QED
    BY <2>2, OfStutter
<1>2. CASE \E p \in OfProcs, d \in OfFds : OfClose(p, d)
  BY <1>2, OfCloseKeeps
<1>3. CASE \E p \in OfProcs, d, n \in OfFds : OfDup2(p, d, n)
  BY <1>3, OfDup2Keeps
<1>13. CASE \E p \in OfProcs, d \in OfFds, low \in OfFds \cup {-1} : OfDup(p, d, low)
  BY <1>13, OfDupKeeps
<1>4. CASE \E p \in OfProcs, d \in OfFds, c \in BOOLEAN : OfSetfd(p, d, c)
  BY <1>4, OfSetfdKeeps
<1>5. CASE \E p \in OfProcs, i \in {"dir"} : OfChdir(p, i) \/ OfChroot(p, i)
  <2>1. PICK p \in OfProcs : OfSetAt(p, "cwd", "dir") \/ OfSetAt(p, "root", "dir")
    BY <1>5 DEF OfChdir, OfChroot
  <2>2. "cwd" \in OfPlaces /\ "root" \in OfPlaces /\ "dir" \in OfInodes \cup {nobody}
    BY DEF OfPlaces, OfInodes
  <2> QED
    BY <2>1, <2>2, OfSetAtKeeps
<1>6. CASE \E p \in OfProcs, i \in {"line", nobody} : OfCtty(p, i)
  <2>1. PICK p \in OfProcs, i \in {"line", nobody} : OfSetAt(p, "tty", i)
    BY <1>6 DEF OfCtty
  <2>2. "tty" \in OfPlaces /\ i \in OfInodes \cup {nobody}
    BY DEF OfPlaces, OfInodes
  <2> QED
    BY <2>1, <2>2, OfSetAtKeeps
<1>7. CASE \E p \in OfProcs, s \in BOOLEAN : OfChmod(p, "reg", s) \/ \E d \in OfFds : OfFchmod(p, d, s)
  <2>1. PICK p \in OfProcs, s \in BOOLEAN : OfChmod(p, "reg", s) \/ \E d \in OfFds : OfFchmod(p, d, s)
    BY <1>7
  <2>2. CASE OfChmod(p, "reg", s)
    <3>1. /\ ofFile' = ofFile /\ ofFd' = ofFd /\ ofWait' = ofWait /\ ofUnit' = ofUnit
          /\ ofLive' = ofLive /\ ofAt' = ofAt
          /\ Mislaid("reg") \/ (ofUse' = ofUse /\ ofLost' = ofLost)
      BY <2>2 DEF OfChmod
    <3>2. "reg" \in OfInodes
      BY DEF OfInodes
    <3> QED
      BY <3>1, <3>2, MislaidKeeps, OfStutter
  <2>3. CASE \E d \in OfFds : OfFchmod(p, d, s)
    BY <2>3, OfStutter DEF OfFchmod
  <2> QED
    BY <2>1, <2>2, <2>3
<1>8. CASE \E p \in OfProcs : OfUtime(p, "dir")
  <2>1. /\ ofFile' = ofFile /\ ofFd' = ofFd /\ ofWait' = ofWait /\ ofUnit' = ofUnit
        /\ ofLive' = ofLive /\ ofAt' = ofAt /\ Mislaid("dir")
    BY <1>8 DEF OfUtime
  <2>2. "dir" \in OfInodes
    BY DEF OfInodes
  <2> QED
    BY <2>1, <2>2, MislaidKeeps
<1>9. CASE \E p \in OfProcs, i \in OfInodes : OfKillf(p, i)
  BY <1>9, OfStutter DEF OfKillf
<1>10. CASE \E p \in OfProcs : OfOpened(p) \/ OfExec(p) \/ OfExit(p)
  BY <1>10, OfOpenedKeeps, OfExecKeeps, OfExitKeeps
<1>11. CASE \E p, c \in OfProcs : OfFork(p, c)
  BY <1>11, OfForkKeeps
<1>12. CASE \E c \in BOOLEAN : OfCarrier(c)
  BY <1>12, OfCarrierKeeps
<1> QED
  BY <1>0, <1>1, <1>2, <1>3, <1>4, <1>5, <1>6, <1>7, <1>8, <1>9, <1>10, <1>11, <1>12, <1>13 DEF OfStep

\* The processes that do not exist hold nothing, so what is counted over all
\* of them is what those that exist hold.
LEMMA OfInvExact ==
  ASSUME OfInv
  PROVE  RefsCounted /\ LineExclusive
<1>1. FilesCounted
  <2> SUFFICES ASSUME NEW f \in OfFiles
               PROVE  ofFile[f].ref =
                        Cardinality({x \in ofLive \X OfFds : ofFd[x[1]][x[2]].file = f})
                        + Cardinality({p \in ofLive : ofWait[p] # NoWait /\ ofWait[p].file = f})
    BY DEF FilesCounted
  <2>0. f # nobody
    BY OpenFilesAssumption DEF OpenFilesAssumption, nobody
  <2>1. {x \in ofLive \X OfFds : ofFd[x[1]][x[2]].file = f}
          = {x \in OfProcs \X OfFds : ofFd[x[1]][x[2]].file = f}
    BY <2>0 DEF OfInv, DeadHold, OfTypeOK
  <2>2. {p \in ofLive : ofWait[p] # NoWait /\ ofWait[p].file = f} = {p \in OfProcs : ofWait[p].file = f}
    <3>1. NoWait.file # f
      BY <2>0 DEF NoWait
    <3> QED
      BY <3>1 DEF OfInv, DeadHold, OfTypeOK
  <2>3. ofFile[f].ref = Descs(f) + Calls(f)
    BY DEF OfInv, FilesAdd
  <2> QED
    BY <2>1, <2>2, <2>3 DEF Descs, Calls
<1>2. InodesCounted
  <2> SUFFICES ASSUME NEW i \in OfInodes
               PROVE  ofUse[i] = ofLost[i]
                        + Cardinality({f \in OfFiles : ofFile[f].ref > 0 /\ ofFile[f].ino = i})
                        + Cardinality({x \in ofLive \X {"cwd", "root", "tty"} : ofAt[x[1]][x[2]] = i})
                        + Cardinality({p \in ofLive : ofWait[p] # NoWait /\ ofWait[p].ino = i})
    BY DEF InodesCounted
  <2>0. i # nobody
    BY DEF OfInodes, nobody
  <2>1. {x \in ofLive \X {"cwd", "root", "tty"} : ofAt[x[1]][x[2]] = i}
          = {x \in OfProcs \X OfPlaces : ofAt[x[1]][x[2]] = i}
    BY <2>0 DEF OfInv, DeadHold, OfTypeOK, OfPlaces
  <2>2. {p \in ofLive : ofWait[p] # NoWait /\ ofWait[p].ino = i} = {p \in OfProcs : ofWait[p].ino = i}
    <3>1. NoWait.ino # i
      BY <2>0 DEF NoWait
    <3> QED
      BY <3>1 DEF OfInv, DeadHold, OfTypeOK
  <2>3. ofUse[i] = ofLost[i] + Openers(i) + Seats(i) + Arrivals(i)
    BY DEF OfInv, InodesAdd
  <2> QED
    BY <2>1, <2>2, <2>3 DEF Openers, InUse, Seats, Arrivals
<1>3. LineExclusive
  <2>1. {f \in OfFiles : ofFile[f].ref > 0 /\ IsLine(ofFile[f].ino)} = LineFiles
    BY DEF LineFiles, InUse
  <2>2. {p \in ofLive : ofWait[p] # NoWait} = LineWaits
    <3>1. \A p \in OfProcs : p \in LineWaits <=> ofWait[p] # NoWait
      BY DEF OfInv, WaitsOwn, LineWaits, NoWait
    <3>2. LineWaits \in SUBSET OfProcs
      BY DEF LineWaits
    <3> QED
      BY <3>1, <3>2 DEF OfInv, DeadHold, OfTypeOK
  <2>3. ofUnit.open = Cardinality(LineFiles) + Cardinality(LineWaits)
    BY DEF OfInv, LineAdds
  <2>4. \A f \in LineFiles : ofFile[f].ino = ofUnit.dev
    BY DEF OfInv, WaitsOwn
  <2>5. \A p \in LineWaits : ofWait[p].ino = ofUnit.dev
    <3>1. LineWaits \in SUBSET OfProcs
      BY DEF LineWaits
    <3> QED
      BY <3>1 DEF OfInv, WaitsOwn
  <2> QED
    BY <2>1, <2>2, <2>3, <2>4, <2>5 DEF LineExclusive
<1> QED
  BY <1>1, <1>2, <1>3 DEF RefsCounted

\* The file table (open.c, file.c): for any number of processes, of file slots
\* and of descriptors, every reference to an open file and to an inode is
\* counted, through open, close, dup, dup2, chdir, chroot, fork, exec and exit,
\* and a serial line in use is in use under one of its names only, with an
\* exact open count, also while opens wait for the carrier (rs.c), until dup2 or
\* F_DUPFD stores a descriptor below 0.
THEOREM OpenFilesCorrect == OfSpec => []OpenExact
<1> DEFINE Safe == ~ofWild => OfInv
<1>1. OfInit => Safe
  BY OfInitInv
<1>2. Safe /\ [OfNext]_ofVars => Safe'
  <2> SUFFICES ASSUME Safe, [OfNext]_ofVars, ~ofWild' PROVE OfInv'
    OBVIOUS
  <2>1. OfInv /\ (OfStep \/ UNCHANGED ofVars)
    BY DEF OfNext, ofVars
  <2> QED
    BY <2>1, OfStepKeeps
<1>3. Safe => OpenExact
  BY OfInvExact DEF OpenExact
<1> HIDE DEF Safe
<1> QED
  BY <1>1, <1>2, <1>3, PTL DEF OfSpec


----------------------------------------------------------------------------
(* The inode table and the mounts.                                          *)

\* The greatest of some of the first n numbers.
LEMMA GreatestOf ==
  ASSUME NEW n \in Nat, NEW T, T \subseteq 0 .. n, T # {}
  PROVE  /\ Max(T) \in T /\ \A x \in T : x <= Max(T)
<1> DEFINE U == {n - x : x \in T}
<1>1. U \subseteq Nat
  <2> SUFFICES ASSUME NEW x \in T PROVE n - x \in Nat
    BY DEF U
  <2>1. x \in 0 .. n
    OBVIOUS
  <2> QED
    BY <2>1
<1>0. U # {}
  BY DEF U
<1> HIDE DEF U
<1>2. PICK u \in U : \A w \in U : u <= w
  BY <1>0, <1>1, LeastOf
<1>3. PICK m \in T : u = n - m
  BY DEF U
<1>4. \A x \in T : m >= x
  <2> SUFFICES ASSUME NEW x \in T PROVE m >= x
    OBVIOUS
  <2>1. n - x \in U
    BY DEF U
  <2>2. u <= n - x
    BY <1>2, <2>1
  <2> QED
    BY <1>3, <2>2
<1>5. \E m2 \in T : \A x \in T : m2 >= x
  BY <1>4
<1>6. Max(T) \in T /\ \A x \in T : Max(T) >= x
  BY <1>5 DEF Max
<1> QED
  BY <1>6

\* The table t of inodes, of which programs hold h, when the entries mt of
\* super[] are mounted: a slot in use belongs to a mounted file system and has
\* a reference for each that holds it, one as a mounted root and one as a
\* covered directory, and a root and the directory it covers know each other.
InTab(t, n) == t[n].refcnt > 0
RefsOf(t, h, n) == h[n] + OfOne(t[n].mnt_dir # NULL) + OfOne(t[n].mnt_root # NULL)
                   + OfOne(n = NINODE)
TabOwned(t, h, mt) ==
  \A n \in Slots :
    /\ InTab(t, n) => mt[t[n].sb] /\ t[n].refcnt = RefsOf(t, h, n)
    /\ ~InTab(t, n) => h[n] = 0 /\ n # NINODE /\ t[n].dirty = 0
TabOnce(t) ==
  \A m, n \in Slots :
    InTab(t, m) /\ InTab(t, n) /\ t[m].sb = t[n].sb /\ t[m].ino = t[n].ino => m = n
TabLinks(t) ==
  /\ \A m \in Slots : InTab(t, m) /\ t[m].mnt_root # NULL =>
       InTab(t, t[m].mnt_root) /\ t[t[m].mnt_root].mnt_dir = m
  /\ \A n \in Slots : InTab(t, n) /\ t[n].mnt_dir # NULL =>
       /\ InTab(t, t[n].mnt_dir) /\ t[t[n].mnt_dir].mnt_root = n
       /\ t[t[n].mnt_dir].mnt_dir = NULL
TabOK(t, h, mt) ==
  /\ t \in [Slots -> Entry] /\ h \in [Slots -> Nat]
  /\ TabOwned(t, h, mt) /\ TabOnce(t) /\ TabLinks(t)

\* What the table and the store st have of the contents cu: an entry has them,
\* the store when no entry has changed them.  dv: the devices of super[].
Holds(t, dv, n, v, i) == n \in Slots /\ InTab(t, n) /\ dv[t[n].sb] = v /\ t[n].ino = i
Kept(t, st, cu, dv) ==
  /\ \A n \in Slots, v \in Devs, i \in Inos : Holds(t, dv, n, v, i) =>
       /\ t[n].d = cu[v][i]
       /\ t[n].dirty = 0 => st[v][i] = cu[v][i]
  /\ \A v \in Devs, i \in Inos :
       (\A n \in Slots : ~Holds(t, dv, n, v, i)) => st[v][i] = cu[v][i]

\* Two mounted file systems are on two devices.
DevsApart(mt, dv) == \A s, k \in Supers : mt[s] /\ mt[k] /\ dv[s] = dv[k] => s = k

\* What is changed can be written.
DirtyRw(t, r) == \A n \in Slots : InTab(t, n) /\ t[n].dirty > 0 => ~r[t[n].sb]

MtInv ==
  /\ mounted \in [Supers -> BOOLEAN] /\ ro \in [Supers -> BOOLEAN]
  /\ dev \in [Supers -> Devs] /\ freemap \in [Supers -> BOOLEAN]
  /\ store \in [Devs -> [Inos -> Vals]] /\ cur \in [Devs -> [Inos -> Vals]]
  /\ panicked \in {"", "no freemap", "have freemap"}
  /\ TabOK(inode, held, mounted) /\ held[NINODE] > 0
  /\ DevsApart(mounted, dev) /\ Kept(inode, store, cur, dev) /\ DirtyRw(inode, ro)

\* The numbers of the table.
LEMMA MtSlots ==
  /\ NINODE \in Nat /\ NINODE \in Slots /\ Slots \subseteq 0 .. NINODE /\ NULL \notin Slots
  /\ \A n \in Slots : n \in Nat /\ n # 0
BY MountAssumption DEF MountAssumption, Slots, NULL

\* At most one entry has the inode of a device.
LEMMA HoldsOnce ==
  ASSUME NEW t \in [Slots -> Entry], NEW mt, NEW dv, NEW h,
         TabOK(t, h, mt), DevsApart(mt, dv),
         NEW m, NEW n, NEW v, NEW i, Holds(t, dv, m, v, i), Holds(t, dv, n, v, i)
  PROVE  m = n
<1>1. m \in Slots /\ n \in Slots /\ InTab(t, m) /\ InTab(t, n)
      /\ dv[t[m].sb] = dv[t[n].sb] /\ t[m].ino = t[n].ino
  BY DEF Holds
<1>2. t[m].sb \in Supers /\ t[n].sb \in Supers
  BY <1>1 DEF Entry
<1>3. mt[t[m].sb] /\ mt[t[n].sb]
  BY <1>1 DEF TabOK, TabOwned
<1>4. t[m].sb = t[n].sb
  BY <1>1, <1>2, <1>3 DEF DevsApart
<1> QED
  BY <1>1, <1>4 DEF TabOK, TabOnce

\* The entry inode_get uses.
LEMMA GotSlot ==
  ASSUME NEW t, NEW h, NEW mt, TabOK(t, h, mt), NEW s, NEW i, CanGet(t, s, i)
  PROVE  LET n == Got(t, s, i)
         IN  /\ n \in Slots
             /\ Found(t, s, i) # {} => InTab(t, n)
             /\ Found(t, s, i) = {} => ~InTab(t, n) /\ \A m \in Slots : ~Is(t[m], s, i)
<1>1. CASE Found(t, s, i) = {}
  <2>1. Free(t) # {} /\ Free(t) \subseteq 0 .. NINODE /\ NINODE \in Nat
    BY <1>1, MtSlots DEF CanGet, Free
  <2>2. Max(Free(t)) \in Free(t)
    BY <2>1, GreatestOf
  <2>3. Got(t, s, i) = Max(Free(t))
    BY <1>1 DEF Got
  <2>4. \A n \in Free(t) : n \in Slots /\ ~InTab(t, n)
    BY DEF Free, InTab, TabOK, Entry
  <2> QED
    BY <1>1, <2>2, <2>3, <2>4 DEF Found
<1>2. CASE Found(t, s, i) # {}
  <2> DEFINE m == Min(Found(t, s, i))
  <2>1. Found(t, s, i) \subseteq Nat
    BY MtSlots DEF Found
  <2>2. \E k \in Found(t, s, i) : \A j \in Found(t, s, i) : k <= j
    BY <1>2, <2>1, LeastOf
  <2>3. m \in Found(t, s, i)
    BY <2>2 DEF Min
  <2> HIDE DEF m
  <2>4. m \in Slots /\ InTab(t, m)
    BY <2>3 DEF Found, Is, InTab
  <2>5. Got(t, s, i) = IF t[m].mnt_root # NULL THEN t[m].mnt_root ELSE m
    BY <1>2 DEF Got, m
  <2>6. t[m].mnt_root # NULL => t[m].mnt_root \in Slots /\ InTab(t, t[m].mnt_root)
    BY <2>4 DEF TabOK, TabLinks, Entry
  <2> QED
    BY <1>2, <2>4, <2>5, <2>6
<1> QED
  BY <1>1, <1>2

\* An entry that inode_get has chosen for an inode.
LEMMA LoadEntry ==
  ASSUME NEW e \in Entry, NEW s \in Supers, NEW i \in Inos
  PROVE  /\ Load(e, s, i) \in Entry /\ Load(e, s, i).refcnt = e.refcnt
         /\ Load(e, s, i).dirty = 0 /\ Load(e, s, i).sb = s /\ Load(e, s, i).ino = i
         /\ Load(e, s, i).mnt_dir = NULL /\ Load(e, s, i).mnt_root = NULL
<1> DEFINE l == Load(e, s, i)
<1>1. l.refcnt = e.refcnt /\ l.d = e.d
  BY DEF Load, Entry
<1>2. l.sb = s /\ l.ino = i
  BY DEF Load, Entry
<1>3. l.dirty = 0
  BY DEF Load, Entry
<1>4. l.mnt_dir = NULL /\ l.mnt_root = NULL
  BY DEF Load, Entry
<1>5. l \in Entry
  <2> DEFINE k == [e EXCEPT !.sb = s]
             j == [k EXCEPT !.ino = i]
             m == [j EXCEPT !.dirty = 0]
  <2>1. k \in Entry
    BY DEF Entry
  <2> HIDE DEF k
  <2>2. j \in Entry
    BY <2>1 DEF Entry
  <2> HIDE DEF j
  <2>3. m \in Entry
    BY <2>2 DEF Entry
  <2>4. l = [m EXCEPT !.mnt_dir = NULL, !.mnt_root = NULL]
    BY DEF Load, m, j, k
  <2> HIDE DEF m, l
  <2> QED
    BY <2>3, <2>4 DEF Entry
<1> HIDE DEF l
<1> QED
  BY <1>1, <1>2, <1>3, <1>4, <1>5 DEF l

\* The table after inode_get: one more reference to the entry, which is as it
\* was, or has just been read.
LEMMA GotTable ==
  ASSUME NEW t, NEW h, NEW mt, TabOK(t, h, mt), NEW s \in Supers, NEW i \in Inos, NEW v,
         CanGet(t, s, i), store[v][i] \in Vals
  PROVE  LET n == Got(t, s, i)
             u == GetTable(t, s, i, v)
         IN  /\ n \in Slots /\ u \in [Slots -> Entry] /\ \A k \in Slots \ {n} : u[k] = t[k]
             /\ u[n].refcnt = t[n].refcnt + 1
             /\ Found(t, s, i) # {} =>
                  /\ InTab(t, n)
                  /\ u[n].sb = t[n].sb /\ u[n].ino = t[n].ino /\ u[n].dirty = t[n].dirty
                  /\ u[n].mnt_dir = t[n].mnt_dir /\ u[n].mnt_root = t[n].mnt_root
                  /\ u[n].d = t[n].d
             /\ Found(t, s, i) = {} =>
                  /\ ~InTab(t, n)
                  /\ u[n].sb = s /\ u[n].ino = i /\ u[n].dirty = 0
                  /\ u[n].mnt_dir = NULL /\ u[n].mnt_root = NULL /\ u[n].d = store[v][i]
<1> DEFINE n == Got(t, s, i)
           u == GetTable(t, s, i, v)
<1>9. n \in Slots /\ (Found(t, s, i) # {} => InTab(t, n)) /\ (Found(t, s, i) = {} => ~InTab(t, n))
  BY GotSlot
<1>0. n \in Slots /\ t \in [Slots -> Entry]
  BY <1>9 DEF TabOK
<1>1. CASE Found(t, s, i) # {}
  <2>1. u = [t EXCEPT ![n].refcnt = @ + 1] /\ InTab(t, n)
    BY <1>1, <1>9 DEF GetTable
  <2> HIDE DEF n, u
  <2>2. u = [t EXCEPT ![n] = [t[n] EXCEPT !.refcnt = t[n].refcnt + 1]]
    BY <1>0, <2>1
  <2>3. [t[n] EXCEPT !.refcnt = t[n].refcnt + 1] \in Entry
    BY <1>0 DEF Entry
  <2>4. u \in [Slots -> Entry] /\ (\A k \in Slots \ {n} : u[k] = t[k])
        /\ u[n] = [t[n] EXCEPT !.refcnt = t[n].refcnt + 1]
    BY <1>0, <2>2, <2>3
  <2>5. t[n] \in Entry
    BY <1>0
  <2>6. /\ u[n].refcnt = t[n].refcnt + 1 /\ u[n].sb = t[n].sb /\ u[n].ino = t[n].ino
        /\ u[n].dirty = t[n].dirty /\ u[n].mnt_dir = t[n].mnt_dir
        /\ u[n].mnt_root = t[n].mnt_root /\ u[n].d = t[n].d
    BY <2>4, <2>5 DEF Entry
  <2> QED
    BY <1>0, <1>1, <2>1, <2>4, <2>6 DEF n, u
<1>2. CASE Found(t, s, i) = {}
  <2> DEFINE e == [Load(t[n], s, i) EXCEPT !.refcnt = 1, !.d = store[v][i]]
  <2>1. u = [t EXCEPT ![n] = e] /\ ~InTab(t, n)
    BY <1>0, <1>2, <1>9 DEF GetTable
  <2>2. t[n] \in Entry
    BY <1>0
  <2> HIDE DEF n, u
  <2>8. Load(t[n], s, i) \in Entry /\ Load(t[n], s, i).dirty = 0 /\ Load(t[n], s, i).sb = s
        /\ Load(t[n], s, i).ino = i /\ Load(t[n], s, i).mnt_dir = NULL
        /\ Load(t[n], s, i).mnt_root = NULL
    BY <2>2, LoadEntry
  <2> DEFINE l == Load(t[n], s, i)
             w == store[v][i]
  <2>9. /\ l \in Entry /\ l.dirty = 0 /\ l.sb = s /\ l.ino = i /\ l.mnt_dir = NULL /\ l.mnt_root = NULL
        /\ w \in Vals /\ e = [l EXCEPT !.refcnt = 1, !.d = w]
    BY <2>8
  <2> HIDE DEF e, l, w
  <2>3. /\ e.refcnt = 1 /\ e.sb = s /\ e.ino = i /\ e.dirty = 0 /\ e.mnt_dir = NULL
        /\ e.mnt_root = NULL /\ e.d = w
    BY <2>9 DEF Entry
  <2>4. e \in Entry
    BY <2>9 DEF Entry
  <2>5. u \in [Slots -> Entry] /\ (\A k \in Slots \ {n} : u[k] = t[k]) /\ u[n] = e
    BY <1>0, <2>1, <2>4
  <2>6. t[n].refcnt = 0
    BY <2>1, <2>2 DEF Entry, InTab
  <2>7. /\ u[n].refcnt = t[n].refcnt + 1 /\ u[n].sb = s /\ u[n].ino = i
        /\ u[n].dirty = 0 /\ u[n].mnt_dir = NULL
        /\ u[n].mnt_root = NULL /\ u[n].d = store[v][i]
    BY <2>3, <2>5, <2>6 DEF w
  <2> QED
    BY <1>0, <1>2, <2>1, <2>5, <2>7 DEF n, u
<1> QED
  BY <1>1, <1>2

\* inode_get keeps the table right: the new reference is the caller's.
LEMMA GetKeeps ==
  ASSUME NEW t, NEW h, NEW mt, TabOK(t, h, mt), NEW s \in Supers, NEW i \in Inos, NEW v,
         CanGet(t, s, i), store[v][i] \in Vals, mt[s]
  PROVE  TabOK(GetTable(t, s, i, v), [h EXCEPT ![Got(t, s, i)] = @ + 1], mt)
<1> DEFINE n == Got(t, s, i)
           u == GetTable(t, s, i, v)
           g == [h EXCEPT ![n] = @ + 1]
<1>0. /\ n \in Slots /\ u \in [Slots -> Entry] /\ \A k \in Slots \ {n} : u[k] = t[k]
      /\ u[n].refcnt = t[n].refcnt + 1
      /\ Found(t, s, i) # {} =>
           /\ InTab(t, n)
           /\ u[n].sb = t[n].sb /\ u[n].ino = t[n].ino /\ u[n].dirty = t[n].dirty
           /\ u[n].mnt_dir = t[n].mnt_dir /\ u[n].mnt_root = t[n].mnt_root
      /\ Found(t, s, i) = {} =>
           /\ ~InTab(t, n)
           /\ u[n].sb = s /\ u[n].ino = i /\ u[n].dirty = 0
           /\ u[n].mnt_dir = NULL /\ u[n].mnt_root = NULL
  BY GotTable
<1>1. t \in [Slots -> Entry] /\ h \in [Slots -> Nat] /\ TabOwned(t, h, mt) /\ TabOnce(t)
      /\ TabLinks(t)
  BY DEF TabOK
<1>2. g \in [Slots -> Nat] /\ g[n] = h[n] + 1 /\ \A k \in Slots \ {n} : g[k] = h[k]
  BY <1>0, <1>1
<1>3. Found(t, s, i) = {} => \A m \in Slots : ~Is(t[m], s, i)
  BY DEF Found
<1> HIDE DEF n, u, g
<1>4. \A k \in Slots \ {n} : InTab(u, k) <=> InTab(t, k)
  BY <1>0 DEF InTab
<1>5. InTab(u, n) /\ t[n].refcnt \in Nat
  BY <1>0, <1>1 DEF InTab, Entry
<1>6. TabOwned(u, g, mt)
  <2> SUFFICES ASSUME NEW k \in Slots
               PROVE  /\ InTab(u, k) => mt[u[k].sb] /\ u[k].refcnt = RefsOf(u, g, k)
                      /\ ~InTab(u, k) => g[k] = 0 /\ k # NINODE /\ u[k].dirty = 0
    BY DEF TabOwned
  <2>1. CASE k # n
    <3>1. u[k] = t[k] /\ g[k] = h[k] /\ (InTab(u, k) <=> InTab(t, k))
      BY <1>0, <1>2, <1>4, <2>1
    <3> QED
      BY <1>1, <3>1 DEF TabOwned, RefsOf
  <2>2. CASE k = n /\ Found(t, s, i) # {}
    <3>1. mt[u[n].sb] /\ t[n].refcnt = RefsOf(t, h, n) /\ h[n] \in Nat
      BY <1>0, <1>1, <2>2 DEF TabOwned
    <3>2. u[n].refcnt = RefsOf(u, g, n)
      BY <1>0, <1>2, <2>2, <3>1 DEF RefsOf, OfOne
    <3> QED
      BY <1>5, <2>2, <3>1, <3>2
  <2>3. CASE k = n /\ Found(t, s, i) = {}
    <3>1. h[n] = 0 /\ n # NINODE /\ t[n].refcnt = 0
      BY <1>0, <1>1, <1>5, <2>3 DEF TabOwned, InTab
    <3>2. u[n].refcnt = RefsOf(u, g, n)
      BY <1>0, <1>2, <2>3, <3>1 DEF RefsOf, OfOne
    <3> QED
      BY <1>0, <1>5, <2>3, <3>2
  <2> QED
    BY <2>1, <2>2, <2>3
<1>7. TabOnce(u)
  <2>1. CASE Found(t, s, i) # {}
    <3>1. \A k \in Slots : u[k].sb = t[k].sb /\ u[k].ino = t[k].ino /\ (InTab(u, k) <=> InTab(t, k))
      BY <1>0, <1>4, <1>5, <2>1
    <3> QED
      BY <1>1, <3>1 DEF TabOnce
  <2>2. CASE Found(t, s, i) = {}
    <3>1. \A k \in Slots \ {n} : InTab(u, k) => u[k].sb # s \/ u[k].ino # i
      BY <1>0, <1>3, <1>4, <2>2 DEF Is, InTab
    <3>2. u[n].sb = s /\ u[n].ino = i
      BY <1>0, <2>2
    <3> QED
      BY <1>0, <1>1, <1>4, <3>1, <3>2 DEF TabOnce
  <2> QED
    BY <2>1, <2>2
<1>8. TabLinks(u)
  <2>1. CASE Found(t, s, i) # {}
    <3>1. \A k \in Slots : /\ u[k].mnt_root = t[k].mnt_root /\ u[k].mnt_dir = t[k].mnt_dir
                           /\ InTab(u, k) <=> InTab(t, k)
      BY <1>0, <1>4, <1>5, <2>1
    <3>2. \A k \in Slots : t[k].mnt_root \in Slots \cup {NULL} /\ t[k].mnt_dir \in Slots \cup {NULL}
      BY <1>1 DEF Entry
    <3> QED
      BY <1>1, <3>1, <3>2 DEF TabLinks
  <2>2. CASE Found(t, s, i) = {}
    <3>1. \A k \in Slots \ {n} : /\ u[k].mnt_root = t[k].mnt_root /\ u[k].mnt_dir = t[k].mnt_dir
                                 /\ InTab(u, k) <=> InTab(t, k)
      BY <1>0, <1>4, <2>2
    <3>2. \A k \in Slots : t[k].mnt_root \in Slots \cup {NULL} /\ t[k].mnt_dir \in Slots \cup {NULL}
      BY <1>1 DEF Entry
    <3>3. u[n].mnt_dir = NULL /\ u[n].mnt_root = NULL /\ ~InTab(t, n)
      BY <1>0, <2>2
    <3> QED
      <4>1. \A k \in Slots : InTab(u, k) /\ u[k].mnt_root # NULL =>
              InTab(u, u[k].mnt_root) /\ u[u[k].mnt_root].mnt_dir = k
        BY <1>0, <1>1, <3>1, <3>2, <3>3 DEF TabLinks
      <4>2. \A k \in Slots : InTab(u, k) /\ u[k].mnt_dir # NULL =>
              /\ InTab(u, u[k].mnt_dir) /\ u[u[k].mnt_dir].mnt_root = k
              /\ u[u[k].mnt_dir].mnt_dir = NULL
        BY <1>0, <1>1, <3>1, <3>2, <3>3 DEF TabLinks
      <4> QED
        BY <4>1, <4>2 DEF TabLinks
  <2> QED
    BY <2>1, <2>2
<1> QED
  BY <1>0, <1>2, <1>6, <1>7, <1>8 DEF TabOK, n, u, g

\* A table with the same entries in use, for the same files, is as right.
LEMMA SameTab ==
  ASSUME NEW t, NEW h, NEW mt, TabOK(t, h, mt), NEW u \in [Slots -> Entry], NEW mt2,
         \A k \in Slots : InTab(t, k) =>
           /\ mt2[t[k].sb] /\ u[k].refcnt = t[k].refcnt /\ u[k].sb = t[k].sb
           /\ u[k].ino = t[k].ino /\ u[k].mnt_dir = t[k].mnt_dir /\ u[k].mnt_root = t[k].mnt_root,
         \A k \in Slots : ~InTab(t, k) => ~InTab(u, k) /\ u[k].dirty = 0
  PROVE  TabOK(u, h, mt2)
<1>1. t \in [Slots -> Entry] /\ h \in [Slots -> Nat] /\ TabOwned(t, h, mt) /\ TabOnce(t)
      /\ TabLinks(t)
  BY DEF TabOK
<1>2. \A k \in Slots : InTab(u, k) <=> InTab(t, k)
  BY DEF InTab
<1>3. TabOwned(u, h, mt2)
  BY <1>1, <1>2 DEF TabOwned, RefsOf
<1>4. TabOnce(u)
  BY <1>1, <1>2 DEF TabOnce
<1>5. TabLinks(u)
  <2>1. \A k \in Slots : t[k].mnt_root \in Slots \cup {NULL} /\ t[k].mnt_dir \in Slots \cup {NULL}
    BY <1>1 DEF Entry
  <2>2. \A k \in Slots : InTab(u, k) =>
          InTab(t, k) /\ u[k].mnt_dir = t[k].mnt_dir /\ u[k].mnt_root = t[k].mnt_root
    BY <1>2
  <2> QED
    BY <1>1, <1>2, <2>1, <2>2 DEF TabLinks
<1> QED
  BY <1>1, <1>3, <1>4, <1>5 DEF TabOK

\* A read that fails changes an entry that is not in use.
LEMMA FailedTable ==
  ASSUME NEW t, NEW h, NEW mt, TabOK(t, h, mt), NEW s \in Supers, NEW i \in Inos
  PROVE  LET u == FailTable(t, s, i)
         IN  /\ u \in [Slots -> Entry] /\ \A k \in Slots : InTab(t, k) => u[k] = t[k]
             /\ \A k \in Slots : ~InTab(t, k) => ~InTab(u, k) /\ u[k].dirty = 0
<1> DEFINE u == FailTable(t, s, i)
           n == Max(Free(t))
<1>1. t \in [Slots -> Entry] /\ \A k \in Slots : ~InTab(t, k) => t[k].dirty = 0
  BY DEF TabOK, TabOwned
<1>2. CASE Free(t) = {}
  BY <1>1, <1>2 DEF FailTable
<1>3. CASE Free(t) # {}
  <2>1. Free(t) \subseteq 0 .. NINODE /\ NINODE \in Nat
    BY MtSlots DEF Free
  <2>2. n \in Free(t)
    BY <1>3, <2>1, GreatestOf
  <2>3. n \in Slots /\ t[n].refcnt = 0 /\ t[n] \in Entry
    BY <1>1, <2>2 DEF Free
  <2>4. u = [t EXCEPT ![n] = Load(t[n], s, i)]
    BY <1>3 DEF FailTable
  <2> DEFINE l == Load(t[n], s, i)
  <2>5. l \in Entry /\ l.refcnt = 0 /\ l.dirty = 0
    BY <2>3, LoadEntry
  <2> HIDE DEF n, u, l
  <2>6. u \in [Slots -> Entry] /\ u[n] = l /\ \A k \in Slots \ {n} : u[k] = t[k]
    BY <1>1, <2>3, <2>4, <2>5 DEF l
  <2>7. ~InTab(t, n) /\ ~InTab(u, n)
    BY <2>3, <2>5, <2>6 DEF InTab
  <2>8. \A k \in Slots : InTab(t, k) => u[k] = t[k]
    BY <2>6, <2>7
  <2>9. \A k \in Slots : ~InTab(t, k) => ~InTab(u, k) /\ u[k].dirty = 0
    BY <1>1, <2>5, <2>6, <2>7 DEF InTab
  <2> QED
    BY <2>6, <2>8, <2>9 DEF u
<1> QED
  BY <1>2, <1>3

\* The table after inode_put: one reference to the entry less.
LEMMA PutEntry ==
  ASSUME NEW t \in [Slots -> Entry], NEW n \in Slots, t[n].refcnt > 0
  PROVE  LET u == PutTable(t, n)
         IN  /\ u \in [Slots -> Entry] /\ \A k \in Slots \ {n} : u[k] = t[k]
             /\ u[n].refcnt = t[n].refcnt - 1
             /\ u[n].dirty = (IF t[n].refcnt = 1 THEN 0 ELSE t[n].dirty)
             /\ u[n].sb = t[n].sb /\ u[n].ino = t[n].ino /\ u[n].d = t[n].d
             /\ u[n].mnt_dir = t[n].mnt_dir /\ u[n].mnt_root = t[n].mnt_root
<1> DEFINE u == PutTable(t, n)
           e == [t[n] EXCEPT !.refcnt = t[n].refcnt - 1]
           f == [e EXCEPT !.dirty = IF t[n].refcnt = 1 THEN 0 ELSE e.dirty]
<1>1. t[n] \in Entry
  OBVIOUS
<1>2. e \in Entry /\ e.refcnt = t[n].refcnt - 1 /\ e.dirty = t[n].dirty
      /\ e.sb = t[n].sb /\ e.ino = t[n].ino /\ e.d = t[n].d
      /\ e.mnt_dir = t[n].mnt_dir /\ e.mnt_root = t[n].mnt_root
  BY <1>1 DEF Entry
<1>3. u = [t EXCEPT ![n] = f]
  BY <1>1 DEF PutTable, Entry
<1> HIDE DEF e, u
<1>4. f \in Entry /\ f.refcnt = e.refcnt /\ f.dirty = (IF t[n].refcnt = 1 THEN 0 ELSE e.dirty)
      /\ f.sb = e.sb /\ f.ino = e.ino /\ f.d = e.d
      /\ f.mnt_dir = e.mnt_dir /\ f.mnt_root = e.mnt_root
  BY <1>2 DEF Entry
<1> HIDE DEF f
<1>5. u \in [Slots -> Entry] /\ u[n] = f /\ \A k \in Slots \ {n} : u[k] = t[k]
  BY <1>3, <1>4
<1> QED
  BY <1>2, <1>4, <1>5 DEF u

\* inode_put keeps the table right when the reference was a program's.
LEMMA PutKeeps ==
  ASSUME NEW t, NEW h, NEW mt, TabOK(t, h, mt), NEW n \in Slots, h[n] > 0
  PROVE  TabOK(PutTable(t, n), [h EXCEPT ![n] = @ - 1], mt)
<1> DEFINE u == PutTable(t, n)
           g == [h EXCEPT ![n] = @ - 1]
<1>1. t \in [Slots -> Entry] /\ h \in [Slots -> Nat] /\ TabOwned(t, h, mt) /\ TabOnce(t)
      /\ TabLinks(t)
  BY DEF TabOK
<1>2. t[n].refcnt > 0 /\ t[n].refcnt = RefsOf(t, h, n) /\ mt[t[n].sb] /\ t[n].refcnt \in Nat
  BY <1>1 DEF TabOwned, InTab, Entry
<1>3. /\ u \in [Slots -> Entry] /\ \A k \in Slots \ {n} : u[k] = t[k]
      /\ u[n].refcnt = t[n].refcnt - 1
      /\ u[n].dirty = (IF t[n].refcnt = 1 THEN 0 ELSE t[n].dirty)
      /\ u[n].sb = t[n].sb /\ u[n].ino = t[n].ino
      /\ u[n].mnt_dir = t[n].mnt_dir /\ u[n].mnt_root = t[n].mnt_root
  BY <1>1, <1>2, PutEntry
<1>4. g \in [Slots -> Nat] /\ g[n] = h[n] - 1 /\ \A k \in Slots \ {n} : g[k] = h[k]
  BY <1>1
<1> HIDE DEF u, g
<1>5. \A k \in Slots \ {n} : InTab(u, k) <=> InTab(t, k)
  BY <1>3 DEF InTab
<1>6. InTab(t, n) /\ (InTab(u, n) => t[n].refcnt > 1)
      /\ (~InTab(u, n) => u[n].refcnt = 0 /\ t[n].refcnt = 1)
  BY <1>2, <1>3 DEF InTab
<1>7. u[n].refcnt = RefsOf(u, g, n)
  <2>1. h[n] \in Nat
    BY <1>1
  <2> QED
    BY <1>2, <1>3, <1>4, <2>1 DEF RefsOf, OfOne
<1>8. ~InTab(u, n) => /\ g[n] = 0 /\ n # NINODE /\ u[n].dirty = 0
                      /\ t[n].mnt_dir = NULL /\ t[n].mnt_root = NULL
  BY <1>1, <1>3, <1>4, <1>6, <1>7 DEF RefsOf, OfOne
<1>9. TabOwned(u, g, mt)
  <2>1. \A k \in Slots \ {n} : /\ InTab(u, k) => mt[u[k].sb] /\ u[k].refcnt = RefsOf(u, g, k)
                               /\ ~InTab(u, k) => g[k] = 0 /\ k # NINODE /\ u[k].dirty = 0
    BY <1>1, <1>3, <1>4, <1>5 DEF TabOwned, RefsOf
  <2> QED
    BY <1>2, <1>3, <1>7, <1>8, <2>1 DEF TabOwned
<1>10. TabOnce(u)
  BY <1>1, <1>3, <1>5, <1>6 DEF TabOnce
<1>11. TabLinks(u)
  <2>1. \A k \in Slots : t[k].mnt_root \in Slots \cup {NULL} /\ t[k].mnt_dir \in Slots \cup {NULL}
    BY <1>1 DEF Entry
  <2>2. \A k \in Slots : /\ u[k].mnt_dir = t[k].mnt_dir /\ u[k].mnt_root = t[k].mnt_root
                         /\ InTab(u, k) => InTab(t, k)
                         /\ k # n => (InTab(u, k) <=> InTab(t, k))
    BY <1>3, <1>5, <1>6
  <2>3. ~InTab(u, n) => \A k \in Slots : InTab(t, k) => t[k].mnt_root # n /\ t[k].mnt_dir # n
    BY <1>1, <1>8, MtSlots DEF TabLinks
  <2>4. \A k \in Slots : InTab(u, k) /\ u[k].mnt_root # NULL =>
          InTab(u, u[k].mnt_root) /\ u[u[k].mnt_root].mnt_dir = k
    BY <1>1, <2>1, <2>2, <2>3 DEF TabLinks
  <2>5. \A k \in Slots : InTab(u, k) /\ u[k].mnt_dir # NULL =>
          /\ InTab(u, u[k].mnt_dir) /\ u[u[k].mnt_dir].mnt_root = k
          /\ u[u[k].mnt_dir].mnt_dir = NULL
    BY <1>1, <2>1, <2>2, <2>3 DEF TabLinks
  <2> QED
    BY <2>4, <2>5 DEF TabLinks
<1> QED
  BY <1>3, <1>4, <1>9, <1>10, <1>11 DEF TabOK, u, g

\* umount: the root n, of which nothing is in use, and the directory it
\* covers, which no program holds, are free afterwards.
UmountOf(t, n) == PutTable(PutTable(t, n), t[n].mnt_dir)
LEMMA UmountEntries ==
  ASSUME NEW t, NEW h, NEW mt, TabOK(t, h, mt), NEW n \in Slots, InTab(t, n),
         t[n].refcnt = 1, t[n].mnt_dir # NULL, h[t[n].mnt_dir] = 0, h[NINODE] > 0
  PROVE  LET m == t[n].mnt_dir
             u == UmountOf(t, n)
         IN  /\ m \in Slots /\ m # n /\ InTab(t, m) /\ h[n] = 0 /\ n # NINODE /\ m # NINODE
             /\ t[n].mnt_root = NULL /\ t[m].mnt_dir = NULL /\ t[m].mnt_root = n
             /\ u \in [Slots -> Entry] /\ \A k \in Slots \ {n, m} : u[k] = t[k]
             /\ u[n].refcnt = 0 /\ u[m].refcnt = 0 /\ u[n].dirty = 0 /\ u[m].dirty = 0
<1> DEFINE m == t[n].mnt_dir
           w == PutTable(t, n)
           u == PutTable(w, m)
<1>1. t \in [Slots -> Entry] /\ h \in [Slots -> Nat] /\ TabOwned(t, h, mt) /\ TabOnce(t)
      /\ TabLinks(t)
  BY DEF TabOK
<1>2. m \in Slots /\ InTab(t, m) /\ t[m].mnt_root = n /\ t[m].mnt_dir = NULL
  BY <1>1 DEF TabLinks, Entry
<1>3. m # n
  BY <1>2
<1>4. h[n] \in Nat /\ h[m] = 0 /\ t[n].refcnt = RefsOf(t, h, n) /\ t[m].refcnt = RefsOf(t, h, m)
  BY <1>1, <1>2 DEF TabOwned
<1>5. h[n] = 0 /\ t[n].mnt_root = NULL /\ n # NINODE
  BY <1>4 DEF RefsOf, OfOne
<1>6. m # NINODE
  BY <1>4
<1>7. t[m].refcnt = 1
  BY <1>2, <1>4, <1>6, MtSlots DEF RefsOf, OfOne
<1>8. /\ w \in [Slots -> Entry] /\ \A k \in Slots \ {n} : w[k] = t[k]
      /\ w[n].refcnt = 0 /\ w[n].dirty = 0
  BY <1>1, PutEntry
<1> HIDE DEF w, u
<1>9. w[m] = t[m] /\ w[m].refcnt > 0
  BY <1>2, <1>3, <1>7, <1>8
<1>10. /\ u \in [Slots -> Entry] /\ \A k \in Slots \ {m} : u[k] = w[k]
       /\ u[m].refcnt = 0 /\ u[m].dirty = 0
  BY <1>2, <1>7, <1>8, <1>9, PutEntry DEF u
<1>11. u = UmountOf(t, n)
  BY DEF UmountOf, u, w
<1>12. \A k \in Slots \ {n, m} : u[k] = t[k]
  BY <1>8, <1>10
<1>13. u[n].refcnt = 0 /\ u[n].dirty = 0
  BY <1>3, <1>8, <1>10
<1> QED
  BY <1>2, <1>3, <1>5, <1>6, <1>10, <1>11, <1>12, <1>13

LEMMA UmountKeeps ==
  ASSUME NEW t, NEW h, NEW mt, TabOK(t, h, mt), mt \in [Supers -> BOOLEAN],
         NEW n \in Slots, InTab(t, n),
         t[n].refcnt = 1, t[n].mnt_dir # NULL, h[t[n].mnt_dir] = 0, h[NINODE] > 0,
         \A k \in Slots \ {n} : t[k].refcnt = 0 \/ t[k].sb # t[n].sb
  PROVE  TabOK(UmountOf(t, n), h, [mt EXCEPT ![t[n].sb] = FALSE])
<1> DEFINE m == t[n].mnt_dir
           u == UmountOf(t, n)
           g == [mt EXCEPT ![t[n].sb] = FALSE]
<1>1. t \in [Slots -> Entry] /\ h \in [Slots -> Nat] /\ TabOwned(t, h, mt) /\ TabOnce(t)
      /\ TabLinks(t)
  BY DEF TabOK
<1>2. /\ m \in Slots /\ m # n /\ InTab(t, m) /\ h[n] = 0 /\ n # NINODE /\ m # NINODE
      /\ t[n].mnt_root = NULL /\ t[m].mnt_dir = NULL /\ t[m].mnt_root = n
      /\ u \in [Slots -> Entry] /\ \A k \in Slots \ {n, m} : u[k] = t[k]
      /\ u[n].refcnt = 0 /\ u[m].refcnt = 0 /\ u[n].dirty = 0 /\ u[m].dirty = 0
  BY UmountEntries
<1>3. h[m] = 0
  OBVIOUS
<1> HIDE DEF u
<1>4. \A k \in Slots \ {n, m} : InTab(u, k) <=> InTab(t, k)
  BY <1>2 DEF InTab
<1>5. ~InTab(u, n) /\ ~InTab(u, m)
  BY <1>2 DEF InTab
<1>6. \A k \in Slots \ {n, m} : InTab(t, k) => g[t[k].sb]
  <2> SUFFICES ASSUME NEW k \in Slots \ {n, m}, InTab(t, k) PROVE g[t[k].sb]
    OBVIOUS
  <2>1. t[k].sb # t[n].sb /\ t[k].sb \in Supers /\ mt[t[k].sb]
    BY <1>1 DEF InTab, Entry, TabOwned
  <2> QED
    BY <2>1
<1> HIDE DEF g
<1>7. TabOwned(u, h, g)
  <2> SUFFICES ASSUME NEW k \in Slots
               PROVE  /\ InTab(u, k) => g[u[k].sb] /\ u[k].refcnt = RefsOf(u, h, k)
                      /\ ~InTab(u, k) => h[k] = 0 /\ k # NINODE /\ u[k].dirty = 0
    BY DEF TabOwned
  <2>1. CASE k \in {n, m}
    BY <2>1, <1>2, <1>3, <1>5
  <2>2. CASE k \notin {n, m}
    BY <2>2, <1>1, <1>2, <1>4, <1>6 DEF TabOwned, RefsOf
  <2> QED
    BY <2>1, <2>2
<1>8. TabOnce(u)
  BY <1>1, <1>2, <1>4, <1>5 DEF TabOnce
<1>9. TabLinks(u)
  <2>1. \A k \in Slots : t[k].mnt_root \in Slots \cup {NULL} /\ t[k].mnt_dir \in Slots \cup {NULL}
    BY <1>1 DEF Entry
  <2>2. \A k \in Slots \ {n, m} : InTab(t, k) =>
          /\ t[k].mnt_root # n /\ t[k].mnt_root # m /\ t[k].mnt_dir # n /\ t[k].mnt_dir # m
    BY <1>1, <1>2, MtSlots DEF TabLinks
  <2>3. \A k \in Slots : InTab(u, k) => k \notin {n, m} /\ InTab(t, k) /\ u[k] = t[k]
    BY <1>2, <1>4, <1>5
  <2>4. \A k \in Slots : k \notin {n, m} /\ InTab(t, k) => InTab(u, k) /\ u[k] = t[k]
    BY <1>2, <1>4
  <2>5. \A k \in Slots : InTab(u, k) /\ u[k].mnt_root # NULL =>
          InTab(u, u[k].mnt_root) /\ u[u[k].mnt_root].mnt_dir = k
    <3> SUFFICES ASSUME NEW k \in Slots, InTab(u, k), u[k].mnt_root # NULL
                 PROVE  InTab(u, u[k].mnt_root) /\ u[u[k].mnt_root].mnt_dir = k
      OBVIOUS
    <3> DEFINE j == t[k].mnt_root
    <3>1. k \notin {n, m} /\ InTab(t, k) /\ u[k] = t[k]
      BY <2>3
    <3>2. j \in Slots /\ j \notin {n, m} /\ InTab(t, j) /\ t[j].mnt_dir = k
      BY <1>1, <2>1, <2>2, <3>1 DEF TabLinks
    <3> QED
      BY <2>4, <3>1, <3>2
  <2>6. \A k \in Slots : InTab(u, k) /\ u[k].mnt_dir # NULL =>
          /\ InTab(u, u[k].mnt_dir) /\ u[u[k].mnt_dir].mnt_root = k
          /\ u[u[k].mnt_dir].mnt_dir = NULL
    <3> SUFFICES ASSUME NEW k \in Slots, InTab(u, k), u[k].mnt_dir # NULL
                 PROVE  /\ InTab(u, u[k].mnt_dir) /\ u[u[k].mnt_dir].mnt_root = k
                        /\ u[u[k].mnt_dir].mnt_dir = NULL
      OBVIOUS
    <3> DEFINE j == t[k].mnt_dir
    <3>1. k \notin {n, m} /\ InTab(t, k) /\ u[k] = t[k]
      BY <2>3
    <3>2. j \in Slots /\ j \notin {n, m} /\ InTab(t, j) /\ t[j].mnt_root = k /\ t[j].mnt_dir = NULL
      BY <1>1, <2>1, <2>2, <3>1 DEF TabLinks
    <3> QED
      BY <2>4, <3>1, <3>2
  <2> QED
    BY <2>5, <2>6 DEF TabLinks
<1> QED
  BY <1>1, <1>2, <1>7, <1>8, <1>9 DEF TabOK, u, g

\* mount: the references the caller has to the mount point m and to the root n
\* become the mount's.
LEMMA CoverKeeps ==
  ASSUME NEW t, NEW h, NEW mt, TabOK(t, h, mt), NEW m \in Slots, NEW n \in Slots, m # n,
         InTab(t, m), InTab(t, n), h[m] > 0, h[n] > 0,
         t[m].mnt_dir = NULL, t[m].mnt_root = NULL, t[n].mnt_dir = NULL, t[n].mnt_root = NULL,
         NEW g \in [Slots -> Nat], g[m] = h[m] - 1, g[n] = h[n] - 1,
         \A k \in Slots \ {m, n} : g[k] = h[k]
  PROVE  /\ TabOK(Cover(t, m, n), g, mt)
         /\ \A k \in Slots \ {m, n} : Cover(t, m, n)[k] = t[k]
         /\ \A k \in Slots : /\ Cover(t, m, n)[k].refcnt = t[k].refcnt
                             /\ Cover(t, m, n)[k].sb = t[k].sb /\ Cover(t, m, n)[k].ino = t[k].ino
         /\ Cover(t, m, n)[m].d = t[m].d /\ Cover(t, m, n)[m].dirty = t[m].dirty
         /\ Cover(t, m, n)[n].d = (IF FirstMount(t[n]) THEN "x" ELSE t[n].d)
         /\ Cover(t, m, n)[n].dirty = (IF FirstMount(t[n]) THEN 2 ELSE t[n].dirty)
<1> DEFINE u == Cover(t, m, n)
           e == [t[m] EXCEPT !.mnt_root = n]
           a == [t[n] EXCEPT !.mnt_dir = m]
           b == [a EXCEPT !.d = IF FirstMount(t[n]) THEN "x" ELSE t[n].d]
           c == [b EXCEPT !.dirty = IF FirstMount(t[n]) THEN 2 ELSE t[n].dirty]
<1>1. t \in [Slots -> Entry] /\ h \in [Slots -> Nat] /\ TabOwned(t, h, mt) /\ TabOnce(t)
      /\ TabLinks(t)
  BY DEF TabOK
<1>2. t[m] \in Entry /\ t[n] \in Entry
  BY <1>1
<1>3. /\ e \in Entry /\ e.refcnt = t[m].refcnt /\ e.sb = t[m].sb /\ e.ino = t[m].ino
      /\ e.dirty = t[m].dirty /\ e.d = t[m].d /\ e.mnt_dir = NULL /\ e.mnt_root = n
  BY <1>2 DEF Entry
<1>4. /\ a \in Entry /\ a.refcnt = t[n].refcnt /\ a.sb = t[n].sb /\ a.ino = t[n].ino
      /\ a.dirty = t[n].dirty /\ a.d = t[n].d /\ a.mnt_dir = m /\ a.mnt_root = NULL
  BY <1>2 DEF Entry
<1> DEFINE fd == IF FirstMount(t[n]) THEN "x" ELSE t[n].d
           fy == IF FirstMount(t[n]) THEN 2 ELSE t[n].dirty
<1>5. fd \in Vals /\ fy \in 0 .. 2
  BY <1>2 DEF Entry, Vals
<1>6. u = [t EXCEPT ![m] = e, ![n] = c]
  BY <1>1, <1>2, <1>4 DEF Cover
<1> HIDE DEF e, a, fd, fy, u
<1>7. /\ b \in Entry /\ b.refcnt = a.refcnt /\ b.sb = a.sb /\ b.ino = a.ino
      /\ b.dirty = a.dirty /\ b.d = fd /\ b.mnt_dir = m /\ b.mnt_root = NULL
  BY <1>4, <1>5 DEF Entry, fd
<1> HIDE DEF b
<1>8. /\ c \in Entry /\ c.refcnt = b.refcnt /\ c.sb = b.sb /\ c.ino = b.ino
      /\ c.dirty = fy /\ c.d = fd /\ c.mnt_dir = m /\ c.mnt_root = NULL
  BY <1>5, <1>7 DEF Entry, fy
<1> HIDE DEF c
<1>9. /\ u \in [Slots -> Entry] /\ u[m] = e /\ u[n] = c
      /\ \A k \in Slots \ {m, n} : u[k] = t[k]
  BY <1>1, <1>3, <1>6, <1>8
<1>10. /\ u[m].refcnt = t[m].refcnt /\ u[m].sb = t[m].sb /\ u[m].ino = t[m].ino
       /\ u[m].mnt_dir = NULL /\ u[m].mnt_root = n /\ u[m].d = t[m].d /\ u[m].dirty = t[m].dirty
       /\ u[n].refcnt = t[n].refcnt /\ u[n].sb = t[n].sb /\ u[n].ino = t[n].ino
       /\ u[n].mnt_dir = m /\ u[n].mnt_root = NULL /\ u[n].d = fd /\ u[n].dirty = fy
  BY <1>3, <1>4, <1>7, <1>8, <1>9
<1>11. \A k \in Slots : u[k].refcnt = t[k].refcnt /\ u[k].sb = t[k].sb /\ u[k].ino = t[k].ino
  BY <1>9, <1>10
<1>12. \A k \in Slots : InTab(u, k) <=> InTab(t, k)
  BY <1>11 DEF InTab
<1>13. TabOwned(u, g, mt)
  <2> SUFFICES ASSUME NEW k \in Slots
               PROVE  /\ InTab(u, k) => mt[u[k].sb] /\ u[k].refcnt = RefsOf(u, g, k)
                      /\ ~InTab(u, k) => g[k] = 0 /\ k # NINODE /\ u[k].dirty = 0
    BY DEF TabOwned
  <2>1. CASE k \in {n, m}
    <3>1. InTab(u, k) /\ mt[t[k].sb] /\ t[k].refcnt = RefsOf(t, h, k)
      BY <2>1, <1>1, <1>12 DEF TabOwned
    <3>2. g[k] = h[k] - 1 /\ h[k] \in Nat /\ g[k] \in Nat
      BY <2>1, <1>1
    <3>3. RefsOf(t, h, k) = RefsOf(u, g, k)
      BY <2>1, <3>2, <1>10, MtSlots DEF RefsOf, OfOne
    <3> QED
      BY <3>1, <3>3, <1>11
  <2>2. CASE k \notin {n, m}
    BY <2>2, <1>1, <1>9, <1>12 DEF TabOwned, RefsOf
  <2> QED
    BY <2>1, <2>2
<1>14. TabOnce(u)
  BY <1>1, <1>11, <1>12 DEF TabOnce
<1>15. TabLinks(u)
  <2>1. \A k \in Slots : t[k].mnt_root \in Slots \cup {NULL} /\ t[k].mnt_dir \in Slots \cup {NULL}
    BY <1>1 DEF Entry
  <2>2. \A k \in Slots : InTab(t, k) =>
          /\ t[k].mnt_root # n /\ t[k].mnt_root # m /\ t[k].mnt_dir # n /\ t[k].mnt_dir # m
    BY <1>1, MtSlots DEF TabLinks
  <2>5. \A k \in Slots : InTab(u, k) /\ u[k].mnt_root # NULL =>
          InTab(u, u[k].mnt_root) /\ u[u[k].mnt_root].mnt_dir = k
    <3> SUFFICES ASSUME NEW k \in Slots, InTab(u, k), u[k].mnt_root # NULL
                 PROVE  InTab(u, u[k].mnt_root) /\ u[u[k].mnt_root].mnt_dir = k
      OBVIOUS
    <3> DEFINE j == t[k].mnt_root
    <3>1. CASE k \notin {n, m}
      <4>1. InTab(t, k) /\ u[k] = t[k]
        BY <3>1, <1>9, <1>12
      <4>2. j \in Slots /\ j \notin {n, m} /\ InTab(t, j) /\ t[j].mnt_dir = k
        BY <1>1, <2>1, <2>2, <4>1 DEF TabLinks
      <4>3. u[j] = t[j] /\ InTab(u, j)
        BY <1>9, <1>12, <4>2
      <4> QED
        BY <4>1, <4>2, <4>3
    <3>2. CASE k = m
      BY <3>2, <1>10, <1>12
    <3>3. CASE k = n
      BY <3>3, <1>10
    <3> QED
      BY <3>1, <3>2, <3>3
  <2>6. \A k \in Slots : InTab(u, k) /\ u[k].mnt_dir # NULL =>
          /\ InTab(u, u[k].mnt_dir) /\ u[u[k].mnt_dir].mnt_root = k
          /\ u[u[k].mnt_dir].mnt_dir = NULL
    <3> SUFFICES ASSUME NEW k \in Slots, InTab(u, k), u[k].mnt_dir # NULL
                 PROVE  /\ InTab(u, u[k].mnt_dir) /\ u[u[k].mnt_dir].mnt_root = k
                        /\ u[u[k].mnt_dir].mnt_dir = NULL
      OBVIOUS
    <3> DEFINE j == t[k].mnt_dir
    <3>1. CASE k \notin {n, m}
      <4>1. InTab(t, k) /\ u[k] = t[k]
        BY <3>1, <1>9, <1>12
      <4>2. j \in Slots /\ j \notin {n, m} /\ InTab(t, j) /\ t[j].mnt_root = k /\ t[j].mnt_dir = NULL
        BY <1>1, <2>1, <2>2, <4>1 DEF TabLinks
      <4>3. u[j] = t[j] /\ InTab(u, j)
        BY <1>9, <1>12, <4>2
      <4> QED
        BY <4>1, <4>2, <4>3
    <3>2. CASE k = n
      BY <3>2, <1>10, <1>12
    <3>3. CASE k = m
      BY <3>3, <1>10
    <3> QED
      BY <3>1, <3>2, <3>3
  <2> QED
    BY <2>5, <2>6 DEF TabLinks
<1>16. TabOK(u, g, mt)
  BY <1>9, <1>13, <1>14, <1>15 DEF TabOK
<1>17. u[n].d = (IF FirstMount(t[n]) THEN "x" ELSE t[n].d)
       /\ u[n].dirty = (IF FirstMount(t[n]) THEN 2 ELSE t[n].dirty)
  BY <1>10 DEF fd, fy
<1> QED
  BY <1>9, <1>10, <1>11, <1>16, <1>17 DEF u

\* inode_get finds what was kept of the inode: in the table, or in the store.
LEMMA GotKept ==
  ASSUME NEW t, NEW h, NEW mt, TabOK(t, h, mt), NEW dv \in [Supers -> Devs],
         DevsApart(mt, dv), store \in [Devs -> [Inos -> Vals]],
         Kept(t, store, cur, dv), NEW s \in Supers, NEW i \in Inos, mt[s], CanGet(t, s, i)
  PROVE  Kept(GetTable(t, s, i, dv[s]), store, cur, dv)
<1> DEFINE n == Got(t, s, i)
           u == GetTable(t, s, i, dv[s])
<1>0. dv[s] \in Devs /\ store[dv[s]][i] \in Vals
  OBVIOUS
<1>1. /\ n \in Slots /\ u \in [Slots -> Entry] /\ \A k \in Slots \ {n} : u[k] = t[k]
      /\ u[n].refcnt = t[n].refcnt + 1
      /\ Found(t, s, i) # {} =>
           /\ InTab(t, n)
           /\ u[n].sb = t[n].sb /\ u[n].ino = t[n].ino /\ u[n].dirty = t[n].dirty
           /\ u[n].d = t[n].d
      /\ Found(t, s, i) = {} =>
           /\ ~InTab(t, n)
           /\ u[n].sb = s /\ u[n].ino = i /\ u[n].dirty = 0
           /\ u[n].d = store[dv[s]][i]
  BY <1>0, GotTable
<1>2. t \in [Slots -> Entry] /\ TabOwned(t, h, mt)
  BY DEF TabOK
<1>3. Found(t, s, i) = {} => \A m \in Slots : ~Is(t[m], s, i)
  BY DEF Found
<1>4. t[n].refcnt \in Nat
  BY <1>1, <1>2 DEF Entry
<1> HIDE DEF n, u
<1>5. \A k \in Slots \ {n} : InTab(u, k) <=> InTab(t, k)
  BY <1>1 DEF InTab
<1>6. InTab(u, n)
  BY <1>1, <1>4 DEF InTab
<1>7. CASE Found(t, s, i) # {}
  <2>1. \A k \in Slots : /\ InTab(u, k) <=> InTab(t, k)
                         /\ u[k].sb = t[k].sb /\ u[k].ino = t[k].ino /\ u[k].d = t[k].d
                         /\ u[k].dirty = t[k].dirty
    BY <1>1, <1>5, <1>6, <1>7
  <2>2. \A k \in Slots, v \in Devs, j \in Inos : Holds(u, dv, k, v, j) <=> Holds(t, dv, k, v, j)
    BY <2>1 DEF Holds
  <2> QED
    BY <2>1, <2>2 DEF Kept, u
<1>8. CASE Found(t, s, i) = {}
  <2>1. \A k \in Slots \ {n}, v \in Devs, j \in Inos :
          /\ Holds(u, dv, k, v, j) <=> Holds(t, dv, k, v, j)
          /\ u[k] = t[k]
    BY <1>1, <1>5 DEF Holds
  <2>2. \A k \in Slots : ~Holds(t, dv, k, dv[s], i)
    <3> SUFFICES ASSUME NEW k \in Slots, Holds(t, dv, k, dv[s], i) PROVE FALSE
      OBVIOUS
    <3>1. InTab(t, k) /\ dv[t[k].sb] = dv[s] /\ t[k].ino = i /\ t[k].sb \in Supers
      BY <1>2 DEF Holds, Entry
    <3>2. mt[t[k].sb]
      BY <1>2, <3>1 DEF TabOwned
    <3>3. t[k].sb = s
      BY <3>1, <3>2 DEF DevsApart
    <3> QED
      BY <1>3, <1>8, <3>1, <3>3 DEF Is, InTab
  <2>3. store[dv[s]][i] = cur[dv[s]][i]
    BY <1>0, <2>2 DEF Kept
  <2>4. \A v \in Devs, j \in Inos : Holds(u, dv, n, v, j) => v = dv[s] /\ j = i
    BY <1>1, <1>8 DEF Holds
  <2>5. \A v \in Devs, j \in Inos : ~Holds(t, dv, n, v, j)
    BY <1>1, <1>8 DEF Holds
  <2>6. \A k \in Slots, v \in Devs, j \in Inos : Holds(u, dv, k, v, j) =>
          /\ u[k].d = cur[v][j]
          /\ u[k].dirty = 0 => store[v][j] = cur[v][j]
    <3> SUFFICES ASSUME NEW k \in Slots, NEW v \in Devs, NEW j \in Inos, Holds(u, dv, k, v, j)
                 PROVE  u[k].d = cur[v][j] /\ (u[k].dirty = 0 => store[v][j] = cur[v][j])
      OBVIOUS
    <3>1. CASE k = n
      BY <3>1, <1>1, <1>8, <2>3, <2>4
    <3>2. CASE k # n
      BY <3>2, <2>1 DEF Kept
    <3> QED
      BY <3>1, <3>2
  <2>7. \A v \in Devs, j \in Inos : (\A k \in Slots : ~Holds(u, dv, k, v, j)) => store[v][j] = cur[v][j]
    BY <2>1, <2>5 DEF Kept
  <2> QED
    BY <2>6, <2>7 DEF Kept, u
<1> QED
  BY <1>7, <1>8

\* What inode_write does to one inode: every inode is written from its entry,
\* and one that cannot be written and is forgotten is as the store has it.
LEMMA WriteOne ==
  ASSUME store \in [Devs -> [Inos -> Vals]], cur \in [Devs -> [Inos -> Vals]],
         TabOK(inode, held, mounted), DevsApart(mounted, dev),
         NEW W \in SUBSET Slots, \A n \in W : InTab(inode, n), NEW L \in SUBSET W, NEW G,
         Write(inode, W, L, G)
  PROVE  /\ store' \in [Devs -> [Inos -> Vals]] /\ cur' \in [Devs -> [Inos -> Vals]]
         /\ \A v \in Devs, i \in Inos, n \in Slots : Holds(inode, dev, n, v, i) =>
              /\ store'[v][i] = (IF n \in W \ L THEN inode[n].d ELSE store[v][i])
              /\ cur'[v][i] = (IF n \in L \cap G THEN store[v][i] ELSE cur[v][i])
         /\ \A v \in Devs, i \in Inos : (\A n \in Slots : ~Holds(inode, dev, n, v, i)) =>
              store'[v][i] = store[v][i] /\ cur'[v][i] = cur[v][i]
<1> DEFINE P(n, v, i) == Id(inode, n) = <<v, i>>
           sv(v, i) == IF \E n \in W \ L : P(n, v, i)
                         THEN inode[CHOOSE n \in W \ L : P(n, v, i)].d ELSE store[v][i]
           cv(v, i) == IF \E n \in L \cap G : P(n, v, i) THEN store[v][i] ELSE cur[v][i]
<1>1. inode \in [Slots -> Entry]
  BY DEF TabOK
<1>2. \A n \in W, v \in Devs, i \in Inos : P(n, v, i) <=> Holds(inode, dev, n, v, i)
  BY DEF Id, Holds
<1>3. \A m \in W, n \in Slots, v \in Devs, i \in Inos :
        P(m, v, i) /\ Holds(inode, dev, n, v, i) => m = n
  BY <1>1, <1>2, HoldsOnce
<1>4. store' = [v \in Devs |-> [i \in Inos |-> sv(v, i)]]
      /\ cur' = [v \in Devs |-> [i \in Inos |-> cv(v, i)]]
  BY DEF Write
<1> HIDE DEF P
<1>5. ASSUME NEW v \in Devs, NEW i \in Inos
      PROVE  /\ sv(v, i) \in Vals /\ cv(v, i) \in Vals
             /\ \A n \in Slots : Holds(inode, dev, n, v, i) =>
                  /\ sv(v, i) = (IF n \in W \ L THEN inode[n].d ELSE store[v][i])
                  /\ cv(v, i) = (IF n \in L \cap G THEN store[v][i] ELSE cur[v][i])
             /\ (\A n \in Slots : ~Holds(inode, dev, n, v, i)) =>
                  sv(v, i) = store[v][i] /\ cv(v, i) = cur[v][i]
  <2> DEFINE c == CHOOSE n \in W \ L : P(n, v, i)
  <2>1. (\E n \in W \ L : P(n, v, i)) => c \in W \ L /\ P(c, v, i)
    BY Zenon
  <2> HIDE DEF c
  <2>2. sv(v, i) = IF \E n \in W \ L : P(n, v, i) THEN inode[c].d ELSE store[v][i]
    BY DEF c
  <2>3. store[v][i] \in Vals /\ cur[v][i] \in Vals
    OBVIOUS
  <2>4. c \in W \ L => inode[c].d \in Vals
    BY <1>1 DEF Entry
  <2>5. sv(v, i) \in Vals /\ cv(v, i) \in Vals
    BY <2>1, <2>2, <2>3, <2>4
  <2> HIDE DEF sv
  <2>6. \A n \in Slots : Holds(inode, dev, n, v, i) =>
          sv(v, i) = (IF n \in W \ L THEN inode[n].d ELSE store[v][i])
    BY <1>2, <1>3, <2>1, <2>2
  <2>7. \A n \in Slots : Holds(inode, dev, n, v, i) =>
          cv(v, i) = (IF n \in L \cap G THEN store[v][i] ELSE cur[v][i])
    BY <1>2, <1>3
  <2>8. (\A n \in Slots : ~Holds(inode, dev, n, v, i)) =>
          sv(v, i) = store[v][i] /\ cv(v, i) = cur[v][i]
    BY <1>2, <2>2
  <2> QED
    BY <2>5, <2>6, <2>7, <2>8
<1> HIDE DEF sv, cv
<1>6. \A v \in Devs, i \in Inos : store'[v][i] = sv(v, i) /\ cur'[v][i] = cv(v, i)
  BY <1>4
<1>7. store' \in [Devs -> [Inos -> Vals]] /\ cur' \in [Devs -> [Inos -> Vals]]
  BY <1>4, <1>5
<1> QED
  BY <1>5, <1>6, <1>7

\* After a write of W that fails for L the table is u: what is still there is
\* as it was, and is clean only if it was or is written; what has left was
\* clean, or is written, or its change is taken back with those of G.
Stays(u, W, L, G) ==
  \A n \in Slots : InTab(u, n) =>
    /\ InTab(inode, n) /\ u[n].sb = inode[n].sb /\ u[n].ino = inode[n].ino
    /\ u[n].d = inode[n].d /\ n \notin L \cap G
    /\ u[n].dirty = 0 => n \notin L /\ (n \in W \/ inode[n].dirty = 0)
Leaves(u, W, L, G) ==
  \A n \in Slots : InTab(inode, n) /\ ~InTab(u, n) =>
    /\ n \in L => n \in G
    /\ n \in W \/ inode[n].dirty = 0

\* What is written from the table, and what leaves it, is kept.
LEMMA WriteKeeps ==
  ASSUME store \in [Devs -> [Inos -> Vals]], cur \in [Devs -> [Inos -> Vals]],
         TabOK(inode, held, mounted), DevsApart(mounted, dev),
         Kept(inode, store, cur, dev),
         NEW W \in SUBSET Slots, \A n \in W : InTab(inode, n), NEW L \in SUBSET W, NEW G,
         Write(inode, W, L, G), NEW u, Stays(u, W, L, G), Leaves(u, W, L, G)
  PROVE  /\ Kept(u, store', cur', dev)
         /\ store' \in [Devs -> [Inos -> Vals]] /\ cur' \in [Devs -> [Inos -> Vals]]
<1>1. /\ store' \in [Devs -> [Inos -> Vals]] /\ cur' \in [Devs -> [Inos -> Vals]]
      /\ \A v \in Devs, i \in Inos, n \in Slots : Holds(inode, dev, n, v, i) =>
           /\ store'[v][i] = (IF n \in W \ L THEN inode[n].d ELSE store[v][i])
           /\ cur'[v][i] = (IF n \in L \cap G THEN store[v][i] ELSE cur[v][i])
      /\ \A v \in Devs, i \in Inos : (\A n \in Slots : ~Holds(inode, dev, n, v, i)) =>
           store'[v][i] = store[v][i] /\ cur'[v][i] = cur[v][i]
  BY WriteOne
<1>2. \A v \in Devs, i \in Inos, n \in Slots :
        Holds(u, dev, n, v, i) => Holds(inode, dev, n, v, i) /\ InTab(u, n)
  BY DEF Holds, Stays
<1>3. \A v \in Devs, i \in Inos, n \in Slots :
        Holds(inode, dev, n, v, i) => Holds(u, dev, n, v, i) \/ (InTab(inode, n) /\ ~InTab(u, n))
  BY DEF Holds, Stays
<1>4. \A n \in Slots, v \in Devs, i \in Inos : Holds(u, dev, n, v, i) =>
        /\ u[n].d = cur'[v][i]
        /\ u[n].dirty = 0 => store'[v][i] = cur'[v][i]
  <2> SUFFICES ASSUME NEW n \in Slots, NEW v \in Devs, NEW i \in Inos, Holds(u, dev, n, v, i)
               PROVE  u[n].d = cur'[v][i] /\ (u[n].dirty = 0 => store'[v][i] = cur'[v][i])
    OBVIOUS
  <2>1. Holds(inode, dev, n, v, i) /\ InTab(u, n)
    BY <1>2
  <2>2. inode[n].d = cur[v][i] /\ (inode[n].dirty = 0 => store[v][i] = cur[v][i])
    BY <2>1 DEF Kept
  <2>3. /\ store'[v][i] = (IF n \in W \ L THEN inode[n].d ELSE store[v][i])
        /\ cur'[v][i] = (IF n \in L \cap G THEN store[v][i] ELSE cur[v][i])
    BY <1>1, <2>1
  <2> QED
    BY <2>1, <2>2, <2>3 DEF Stays
<1>5. \A v \in Devs, i \in Inos :
        (\A n \in Slots : ~Holds(u, dev, n, v, i)) => store'[v][i] = cur'[v][i]
  <2> SUFFICES ASSUME NEW v \in Devs, NEW i \in Inos, \A n \in Slots : ~Holds(u, dev, n, v, i)
               PROVE  store'[v][i] = cur'[v][i]
    OBVIOUS
  <2>1. CASE \E n \in Slots : Holds(inode, dev, n, v, i)
    <3>1. PICK n \in Slots : Holds(inode, dev, n, v, i)
      BY <2>1
    <3>2. InTab(inode, n) /\ ~InTab(u, n)
      BY <1>3, <3>1
    <3>3. inode[n].d = cur[v][i] /\ (inode[n].dirty = 0 => store[v][i] = cur[v][i])
      BY <3>1 DEF Kept
    <3>4. /\ store'[v][i] = (IF n \in W \ L THEN inode[n].d ELSE store[v][i])
          /\ cur'[v][i] = (IF n \in L \cap G THEN store[v][i] ELSE cur[v][i])
      BY <1>1, <3>1
    <3> QED
      BY <3>2, <3>3, <3>4 DEF Leaves
  <2>2. CASE \A n \in Slots : ~Holds(inode, dev, n, v, i)
    <3>1. store'[v][i] = store[v][i] /\ cur'[v][i] = cur[v][i]
      BY <1>1, <2>2
    <3>2. store[v][i] = cur[v][i]
      BY <2>2 DEF Kept
    <3> QED
      BY <3>1, <3>2
  <2> QED
    BY <2>1, <2>2
<1> QED
  BY <1>1, <1>4, <1>5 DEF Kept

\* What has just been read is not changed.
LEMMA GotDirty ==
  ASSUME NEW t, NEW h, NEW mt, TabOK(t, h, mt), NEW s \in Supers, NEW i \in Inos, NEW v,
         CanGet(t, s, i), store[v][i] \in Vals, NEW r, DirtyRw(t, r)
  PROVE  DirtyRw(GetTable(t, s, i, v), r)
<1> DEFINE n == Got(t, s, i)
           u == GetTable(t, s, i, v)
<1>1. /\ n \in Slots /\ \A k \in Slots \ {n} : u[k] = t[k]
      /\ Found(t, s, i) # {} => InTab(t, n) /\ u[n].sb = t[n].sb /\ u[n].dirty = t[n].dirty
      /\ Found(t, s, i) = {} => u[n].dirty = 0
  BY GotTable
<1> HIDE DEF n, u
<1>2. \A k \in Slots : InTab(u, k) /\ u[k].dirty > 0 =>
        InTab(t, k) /\ u[k].sb = t[k].sb /\ u[k].dirty = t[k].dirty
  <2> SUFFICES ASSUME NEW k \in Slots, InTab(u, k), u[k].dirty > 0
               PROVE  InTab(t, k) /\ u[k].sb = t[k].sb /\ u[k].dirty = t[k].dirty
    OBVIOUS
  <2>1. CASE k # n
    BY <1>1, <2>1 DEF InTab
  <2>2. CASE k = n
    BY <1>1, <2>2
  <2> QED
    BY <2>1, <2>2
<1> QED
  BY <1>2 DEF DirtyRw, u

\* A directory a path may start from is in use.
LEMMA FromUsed ==
  ASSUME MtInv, NEW c \in From
  PROVE  InTab(inode, c) /\ mounted[inode[c].sb]
<1>1. /\ inode \in [Slots -> Entry] /\ held \in [Slots -> Nat] /\ c \in Slots
      /\ TabOwned(inode, held, mounted) /\ TabLinks(inode)
  BY DEF MtInv, TabOK, From
<1>2. \A n \in Slots : held[n] > 0 => InTab(inode, n)
  BY <1>1 DEF TabOwned
<1>3. InTab(inode, c)
  BY <1>1, <1>2, MtSlots DEF From, TabLinks
<1> QED
  BY <1>1, <1>3 DEF TabOwned

\* One inode in the table is changed, its entry is not clean any more.
LEMMA ChangeKept ==
  ASSUME NEW t, NEW h, NEW mt, TabOK(t, h, mt), NEW dv \in [Supers -> Devs], DevsApart(mt, dv),
         NEW st, NEW cu \in [Devs -> [Inos -> Vals]], Kept(t, st, cu, dv),
         NEW u, NEW n \in Slots, InTab(t, n), u[n].dirty # 0,
         \A j \in Slots : /\ u[j].refcnt = t[j].refcnt /\ u[j].sb = t[j].sb /\ u[j].ino = t[j].ino
                          /\ j # n => u[j].d = t[j].d /\ u[j].dirty = t[j].dirty
  PROVE  Kept(u, st, [cu EXCEPT ![dv[t[n].sb]][t[n].ino] = u[n].d], dv)
<1> DEFINE v == dv[t[n].sb]
           i == t[n].ino
           c == [cu EXCEPT ![v][i] = u[n].d]
<1>1. t \in [Slots -> Entry] /\ v \in Devs /\ i \in Inos
  BY DEF TabOK, Entry
<1>2. c[v][i] = u[n].d /\ \A w \in Devs, j \in Inos : <<w, j>> # <<v, i>> => c[w][j] = cu[w][j]
  BY <1>1
<1> HIDE DEF c
<1>3. \A j \in Slots, w \in Devs, m \in Inos : Holds(u, dv, j, w, m) <=> Holds(t, dv, j, w, m)
  BY DEF Holds, InTab
<1>4. Holds(t, dv, n, v, i)
  BY <1>1 DEF Holds
<1> HIDE DEF v, i
<1>5. ASSUME NEW j \in Slots, NEW w \in Devs, NEW m \in Inos, Holds(u, dv, j, w, m)
      PROVE  u[j].d = c[w][m] /\ (u[j].dirty = 0 => st[w][m] = c[w][m])
  <2>1. CASE j = n
    <3>1. w = v /\ m = i
      BY <1>3, <1>4, <1>5, <2>1 DEF Holds
    <3> QED
      BY <1>2, <2>1, <3>1
  <2>2. CASE j # n
    <3>1. Holds(t, dv, j, w, m)
      BY <1>3, <1>5
    <3>2. <<w, m>> = <<v, i>> => Holds(t, dv, j, v, i)
      BY <3>1
    <3>3. <<w, m>> # <<v, i>>
      BY <1>1, <1>4, <2>2, <3>2, HoldsOnce
    <3>4. t[j].d = cu[w][m] /\ (t[j].dirty = 0 => st[w][m] = cu[w][m])
      BY <3>1 DEF Kept
    <3> QED
      BY <1>2, <2>2, <3>3, <3>4
  <2> QED
    BY <2>1, <2>2
<1>6. ASSUME NEW w \in Devs, NEW m \in Inos, \A j \in Slots : ~Holds(u, dv, j, w, m)
      PROVE  st[w][m] = c[w][m]
  <2>1. \A j \in Slots : ~Holds(t, dv, j, w, m)
    BY <1>3, <1>6
  <2>2. <<w, m>> # <<v, i>>
    BY <1>4, <2>1
  <2>3. st[w][m] = cu[w][m]
    BY <2>1 DEF Kept
  <2> QED
    BY <1>2, <2>2, <2>3
<1> QED
  BY <1>5, <1>6 DEF Kept, c, v, i

\* An entry that is clean is let go of.
LEMMA LeaveKept ==
  ASSUME NEW t, NEW st, NEW cu, NEW dv, Kept(t, st, cu, dv), NEW r, DirtyRw(t, r),
         NEW u, NEW n \in Slots, InTab(t, n), \A k \in Slots \ {n} : u[k] = t[k],
         u[n].sb = t[n].sb, u[n].ino = t[n].ino, u[n].d = t[n].d,
         InTab(u, n) => u[n].dirty = t[n].dirty, ~InTab(u, n) => t[n].dirty = 0
  PROVE  Kept(u, st, cu, dv) /\ DirtyRw(u, r)
<1>1. \A k \in Slots : InTab(u, k) => InTab(t, k) /\ u[k].sb = t[k].sb /\ u[k].ino = t[k].ino
                                      /\ u[k].d = t[k].d /\ u[k].dirty = t[k].dirty
  BY DEF InTab
<1>2. \A k \in Slots, v \in Devs, i \in Inos : Holds(u, dv, k, v, i) =>
        Holds(t, dv, k, v, i) /\ u[k].d = t[k].d /\ u[k].dirty = t[k].dirty
  BY <1>1 DEF Holds
<1>3. \A k \in Slots, v \in Devs, i \in Inos : Holds(t, dv, k, v, i) /\ ~Holds(u, dv, k, v, i) =>
        t[k].dirty = 0
  BY DEF Holds, InTab
<1>4. ASSUME NEW v \in Devs, NEW i \in Inos, \A k \in Slots : ~Holds(u, dv, k, v, i)
      PROVE  st[v][i] = cu[v][i]
  <2>1. CASE \E k \in Slots : Holds(t, dv, k, v, i)
    <3>1. PICK k \in Slots : Holds(t, dv, k, v, i)
      BY <2>1
    <3>2. t[k].dirty = 0
      BY <1>3, <1>4, <3>1
    <3> QED
      BY <3>1, <3>2 DEF Kept
  <2>2. CASE \A k \in Slots : ~Holds(t, dv, k, v, i)
    BY <2>2 DEF Kept
  <2> QED
    BY <2>1, <2>2
<1>5. ASSUME NEW k \in Slots, NEW v \in Devs, NEW i \in Inos, Holds(u, dv, k, v, i)
      PROVE  u[k].d = cu[v][i] /\ (u[k].dirty = 0 => st[v][i] = cu[v][i])
  BY <1>2, <1>5 DEF Kept
<1>6. Kept(u, st, cu, dv)
  BY <1>4, <1>5 DEF Kept
<1> QED
  BY <1>1, <1>6 DEF DirtyRw

\* An entry of super[] that is not mounted is filled in.
LEMMA OtherSuper ==
  ASSUME NEW t, NEW h, NEW mt, TabOK(t, h, mt), NEW s \in Supers, ~mt[s],
         NEW dv \in [Supers -> Devs], NEW v \in Devs, NEW st, NEW cu, Kept(t, st, cu, dv),
         NEW r \in [Supers -> BOOLEAN], NEW x \in BOOLEAN, DirtyRw(t, r)
  PROVE  /\ Kept(t, st, cu, [dv EXCEPT ![s] = v]) /\ DirtyRw(t, [r EXCEPT ![s] = x])
         /\ \A k \in Slots : InTab(t, k) => t[k].sb # s
<1>1. t \in [Slots -> Entry] /\ TabOwned(t, h, mt)
  BY DEF TabOK
<1>2. \A k \in Slots : InTab(t, k) => t[k].sb # s /\ t[k].sb \in Supers
  BY <1>1 DEF TabOwned, Entry
<1> DEFINE e == [dv EXCEPT ![s] = v]
           q == [r EXCEPT ![s] = x]
<1>3. \A k \in Supers \ {s} : e[k] = dv[k] /\ (q[k] <=> r[k])
  OBVIOUS
<1> HIDE DEF e, q
<1>4. \A k \in Slots, w \in Devs, i \in Inos : Holds(t, e, k, w, i) <=> Holds(t, dv, k, w, i)
  BY <1>2, <1>3 DEF Holds
<1>5. Kept(t, st, cu, e)
  BY <1>4 DEF Kept
<1>6. DirtyRw(t, q)
  BY <1>2, <1>3 DEF DirtyRw
<1> QED
  BY <1>2, <1>5, <1>6 DEF e, q

----------------------------------------------------------------------------
(* The steps.                                                               *)

\* The invariant after a step that leaves no panic.
LEMMA MtInvNext ==
  ASSUME mounted' \in [Supers -> BOOLEAN], ro' \in [Supers -> BOOLEAN],
         dev' \in [Supers -> Devs], freemap' \in [Supers -> BOOLEAN],
         store' \in [Devs -> [Inos -> Vals]], cur' \in [Devs -> [Inos -> Vals]],
         panicked' \in {"", "no freemap", "have freemap"},
         TabOK(inode', held', mounted'), held'[NINODE] > 0,
         DevsApart(mounted', dev'), Kept(inode', store', cur', dev'), DirtyRw(inode', ro')
  PROVE  MtInv'
BY DEF MtInv

\* inode_write meets no file system that is read-only.
LEMMA NoneReadOnly ==
  ASSUME MtInv, NEW W \in SUBSET Slots, \A n \in W : inode[n].dirty > 0
  PROVE  ~Panics(inode, W) /\ \A n \in W : InTab(inode, n)
<1>1. \A n \in W : InTab(inode, n)
  <2>1. inode \in [Slots -> Entry] /\ TabOwned(inode, held, mounted)
    BY DEF MtInv, TabOK
  <2> QED
    BY <2>1 DEF TabOwned
<1> QED
  BY <1>1 DEF MtInv, DirtyRw, Panics

LEMMA MtPanicKeeps ==
  ASSUME MtInv, NEW msg \in {"no freemap", "have freemap"}, Panic(msg)
  PROVE  MtInv'
BY DEF MtInv, Panic, superv

LEMMA LookupKeeps ==
  ASSUME MtInv, NEW c \in Slots, NEW i \in Inos, Lookup(c, i)
  PROVE  MtInv'
<1> DEFINE s == inode[c].sb
           n == Got(inode, s, i)
<1>1. /\ TabOK(inode, held, mounted) /\ inode \in [Slots -> Entry] /\ held \in [Slots -> Nat]
      /\ dev \in [Supers -> Devs] /\ store \in [Devs -> [Inos -> Vals]]
  BY DEF MtInv, TabOK
<1>2. s \in Supers /\ dev[s] \in Devs /\ store[dev[s]][i] \in Vals
  BY <1>1 DEF Entry
<1>3. c \in From /\ CanGet(inode, s, i) /\ inode' = GetTable(inode, s, i, dev[s])
      /\ held' = [held EXCEPT ![n] = @ + 1]
      /\ UNCHANGED <<superv, store, cur, panicked>>
  BY DEF Lookup
<1>4. mounted[s]
  BY <1>1, <1>3, FromUsed
<1>5. TabOK(inode', held', mounted')
  BY <1>1, <1>2, <1>3, <1>4, GetKeeps DEF superv
<1>6. Kept(inode', store', cur', dev')
  BY <1>1, <1>2, <1>3, <1>4, GotKept DEF superv, MtInv
<1>7. DirtyRw(inode', ro')
  BY <1>1, <1>2, <1>3, <1>4, GotDirty DEF superv, MtInv
<1>8. n \in Slots
  BY <1>1, <1>3, GotSlot
<1>9. held'[NINODE] > 0
  <2>1. held[NINODE] > 0 /\ NINODE \in Slots
    BY MtSlots DEF MtInv
  <2> HIDE DEF n
  <2>2. held' = [held EXCEPT ![n] = held[n] + 1] /\ held[NINODE] \in Nat /\ held[n] \in Nat
    BY <1>1, <1>3, <1>8, <2>1
  <2> QED
    BY <1>1, <1>8, <2>1, <2>2
<1> QED
  BY <1>3, <1>5, <1>6, <1>7, <1>9, MtInvNext DEF MtInv, superv

\* A change of entries that are not in use loses nothing.
LEMMA SameKept ==
  ASSUME NEW t, NEW u, \A k \in Slots : InTab(t, k) => u[k] = t[k],
         \A k \in Slots : ~InTab(t, k) => ~InTab(u, k),
         NEW st, NEW cu, NEW dv, Kept(t, st, cu, dv), NEW r, DirtyRw(t, r)
  PROVE  Kept(u, st, cu, dv) /\ DirtyRw(u, r)
<1>1. \A k \in Slots : (InTab(u, k) <=> InTab(t, k)) /\ (InTab(u, k) => u[k] = t[k])
  BY DEF InTab
<1>2. \A k \in Slots, v \in Devs, i \in Inos : Holds(u, dv, k, v, i) <=> Holds(t, dv, k, v, i)
  BY <1>1 DEF Holds
<1>3. \A k \in Slots, v \in Devs, i \in Inos : Holds(u, dv, k, v, i) => u[k] = t[k]
  BY <1>1 DEF Holds
<1> QED
  BY <1>1, <1>2, <1>3 DEF Kept, DirtyRw

\* The greater of two numbers.
LEMMA GreaterOf ==
  ASSUME NEW a \in 0 .. 2, NEW k \in {1, 2}
  PROVE  Max({a, k}) \in 1 .. 2
<1>1. {a, k} \subseteq 0 .. 2 /\ {a, k} # {}
  OBVIOUS
<1>2. Max({a, k}) \in {a, k} /\ \A x \in {a, k} : x <= Max({a, k})
  BY <1>1, GreatestOf
<1> QED
  BY <1>2

LEMMA LookupFailsKeeps ==
  ASSUME MtInv, NEW c \in Slots, NEW i \in Inos, LookupFails(c, i)
  PROVE  MtInv'
<1> DEFINE s == inode[c].sb
           u == FailTable(inode, s, i)
<1>1. TabOK(inode, held, mounted) /\ inode \in [Slots -> Entry] /\ TabOwned(inode, held, mounted)
  BY DEF MtInv, TabOK
<1>2. s \in Supers
  BY <1>1 DEF Entry
<1>3. inode' = u /\ UNCHANGED <<superv, held, store, cur, panicked>>
  BY DEF LookupFails
<1>4. /\ u \in [Slots -> Entry] /\ \A k \in Slots : InTab(inode, k) => u[k] = inode[k]
      /\ \A k \in Slots : ~InTab(inode, k) => ~InTab(u, k) /\ u[k].dirty = 0
  BY <1>1, <1>2, FailedTable
<1> HIDE DEF u
<1>5. TabOK(u, held, mounted)
  BY <1>1, <1>4, SameTab DEF TabOwned
<1>6. Kept(u, store, cur, dev) /\ DirtyRw(u, ro)
  BY <1>4, SameKept DEF MtInv
<1> QED
  BY <1>3, <1>5, <1>6, MtInvNext DEF MtInv, superv

LEMMA ReleaseKeeps ==
  ASSUME MtInv, NEW n \in Slots, Release(n)
  PROVE  MtInv'
<1> DEFINE W == IF Flushed(inode, n) THEN {n} ELSE {}
           u == PutTable(inode, n)
<1>1. /\ TabOK(inode, held, mounted) /\ inode \in [Slots -> Entry] /\ held \in [Slots -> Nat]
      /\ TabOwned(inode, held, mounted)
  BY DEF MtInv, TabOK
<1>2. W \in SUBSET Slots /\ \A k \in W : inode[k].dirty > 0
  BY DEF Flushed
<1>3. ~Panics(inode, W) /\ \A k \in W : InTab(inode, k)
  BY <1>2, NoneReadOnly
<1>4. /\ held[n] > (IF n = NINODE THEN 1 ELSE 0)
      /\ held' = [held EXCEPT ![n] = @ - 1] /\ inode' = u
      /\ UNCHANGED <<superv, panicked>>
  BY <1>3 DEF Release
<1>5. PICK L \in SUBSET W : Write(inode, W, L, {n})
  BY <1>3 DEF Release
<1>6. held[n] > 0 /\ held[n] \in Nat
  BY <1>1, <1>4
<1>7. TabOK(u, held', mounted)
  BY <1>1, <1>4, <1>6, PutKeeps
<1>8. InTab(inode, n) /\ inode[n].refcnt \in Nat /\ inode[n].dirty \in 0 .. 2
  BY <1>1, <1>6 DEF TabOwned, Entry
<1>9. /\ u \in [Slots -> Entry] /\ \A k \in Slots \ {n} : u[k] = inode[k]
      /\ u[n].refcnt = inode[n].refcnt - 1
      /\ u[n].dirty = (IF inode[n].refcnt = 1 THEN 0 ELSE inode[n].dirty)
      /\ u[n].sb = inode[n].sb /\ u[n].ino = inode[n].ino /\ u[n].d = inode[n].d
  BY <1>1, <1>8, PutEntry DEF InTab
<1>10. (n \in W <=> inode[n].refcnt = 1 /\ inode[n].dirty > 0) /\ \A k \in W : k = n
  BY DEF Flushed
<1> HIDE DEF u, W
<1>11. /\ InTab(u, n) <=> inode[n].refcnt # 1
       /\ \A k \in Slots \ {n} : InTab(u, k) <=> InTab(inode, k)
  BY <1>8, <1>9 DEF InTab
<1>12. \A k \in Slots : InTab(u, k) =>
         /\ InTab(inode, k) /\ u[k].sb = inode[k].sb /\ u[k].ino = inode[k].ino
         /\ u[k].d = inode[k].d /\ k \notin L \cap {n} /\ u[k].dirty = inode[k].dirty
         /\ u[k].dirty = 0 => k \notin L /\ (k \in W \/ inode[k].dirty = 0)
  <2> SUFFICES ASSUME NEW k \in Slots, InTab(u, k)
               PROVE  /\ InTab(inode, k) /\ u[k].sb = inode[k].sb /\ u[k].ino = inode[k].ino
                      /\ u[k].d = inode[k].d /\ k \notin W /\ u[k].dirty = inode[k].dirty
    OBVIOUS
  <2>1. CASE k = n
    BY <2>1, <1>8, <1>9, <1>10, <1>11
  <2>2. CASE k # n
    BY <2>2, <1>9, <1>10, <1>11
  <2> QED
    BY <2>1, <2>2
<1>13. \A k \in Slots : InTab(inode, k) /\ ~InTab(u, k) =>
         (k \in L => k \in {n}) /\ (k \in W \/ inode[k].dirty = 0)
  BY <1>8, <1>10, <1>11
<1>14. /\ Kept(u, store', cur', dev)
       /\ store' \in [Devs -> [Inos -> Vals]] /\ cur' \in [Devs -> [Inos -> Vals]]
  <2>1. /\ store \in [Devs -> [Inos -> Vals]] /\ cur \in [Devs -> [Inos -> Vals]]
        /\ TabOK(inode, held, mounted) /\ DevsApart(mounted, dev) /\ Kept(inode, store, cur, dev)
    BY DEF MtInv
  <2>2. Stays(u, W, L, {n})
    BY <1>12 DEF Stays
  <2>3. Leaves(u, W, L, {n})
    BY <1>13 DEF Leaves
  <2> QED
    BY <1>2, <1>3, <1>5, <2>1, <2>2, <2>3, WriteKeeps
<1>15. DirtyRw(u, ro)
  BY <1>12 DEF DirtyRw, MtInv
<1>16. held'[NINODE] > 0
  <2>1. held[NINODE] > 0 /\ NINODE \in Slots
    BY MtSlots DEF MtInv
  <2>2. held' = [held EXCEPT ![n] = held[n] - 1] /\ held[NINODE] \in Nat
    BY <1>1, <1>4, <2>1
  <2> QED
    BY <1>1, <1>4, <1>6, <2>1, <2>2
<1> QED
  BY <1>4, <1>7, <1>14, <1>15, <1>16, MtInvNext DEF MtInv, superv

LEMMA ModifyKeeps ==
  ASSUME MtInv, NEW n \in Slots, NEW x \in Vals, NEW k \in {1, 2}, Modify(n, x, k)
  PROVE  MtInv'
<1> DEFINE y == Max({inode[n].dirty, k})
           e == [inode[n] EXCEPT !.d = x]
           f == [e EXCEPT !.dirty = y]
           v == dev[inode[n].sb]
           i == inode[n].ino
<1>1. /\ TabOK(inode, held, mounted) /\ inode \in [Slots -> Entry] /\ held \in [Slots -> Nat]
      /\ TabOwned(inode, held, mounted) /\ dev \in [Supers -> Devs]
      /\ cur \in [Devs -> [Inos -> Vals]]
  BY DEF MtInv, TabOK
<1>2. /\ held[n] > 0 /\ ~ro[inode[n].sb]
      /\ inode' = [inode EXCEPT ![n].d = x, ![n].dirty = Max({@, k})]
      /\ cur' = [cur EXCEPT ![v][i] = x]
      /\ UNCHANGED <<superv, held, store, panicked>>
  BY DEF Modify, MayModify
<1>3. inode[n] \in Entry /\ InTab(inode, n) /\ v \in Devs /\ i \in Inos
      /\ inode[n].dirty \in 0 .. 2
  BY <1>1, <1>2 DEF TabOwned, Entry
<1>4. y \in 1 .. 2
  BY <1>3, GreaterOf
<1>5. /\ e \in Entry /\ e.refcnt = inode[n].refcnt /\ e.sb = inode[n].sb /\ e.ino = inode[n].ino
      /\ e.dirty = inode[n].dirty /\ e.mnt_dir = inode[n].mnt_dir
      /\ e.mnt_root = inode[n].mnt_root /\ e.d = x
  BY <1>3 DEF Entry
<1>6. inode' = [inode EXCEPT ![n] = f]
  BY <1>1, <1>2, <1>3, <1>5 DEF Entry
<1> HIDE DEF e, y
<1>7. /\ f \in Entry /\ f.refcnt = e.refcnt /\ f.sb = e.sb /\ f.ino = e.ino
      /\ f.dirty = y /\ f.mnt_dir = e.mnt_dir /\ f.mnt_root = e.mnt_root /\ f.d = x
  BY <1>4, <1>5 DEF Entry
<1> HIDE DEF f
<1>8. inode' \in [Slots -> Entry] /\ inode'[n] = f /\ \A j \in Slots \ {n} : inode'[j] = inode[j]
  BY <1>1, <1>6, <1>7
<1>9. \A j \in Slots : /\ inode'[j].refcnt = inode[j].refcnt /\ inode'[j].sb = inode[j].sb
                       /\ inode'[j].ino = inode[j].ino /\ inode'[j].mnt_dir = inode[j].mnt_dir
                       /\ inode'[j].mnt_root = inode[j].mnt_root
  BY <1>5, <1>7, <1>8
<1>10. \A j \in Slots : InTab(inode', j) <=> InTab(inode, j)
  BY <1>9 DEF InTab
<1>11. \A j \in Slots : ~InTab(inode, j) => inode'[j].dirty = 0
  BY <1>1, <1>3, <1>8 DEF TabOwned
<1>12. TabOK(inode', held, mounted)
  <2>1. \A j \in Slots : InTab(inode, j) =>
          /\ mounted[inode[j].sb] /\ inode'[j].refcnt = inode[j].refcnt
          /\ inode'[j].sb = inode[j].sb /\ inode'[j].ino = inode[j].ino
          /\ inode'[j].mnt_dir = inode[j].mnt_dir /\ inode'[j].mnt_root = inode[j].mnt_root
    BY <1>1, <1>9 DEF TabOwned
  <2>2. \A j \in Slots : ~InTab(inode, j) => ~InTab(inode', j) /\ inode'[j].dirty = 0
    BY <1>10, <1>11
  <2> QED
    BY <1>1, <1>8, <2>1, <2>2, SameTab
<1>13. cur' \in [Devs -> [Inos -> Vals]]
  BY <1>1, <1>2, <1>3
<1>14. /\ \A j \in Slots :
            /\ inode'[j].refcnt = inode[j].refcnt
            /\ inode'[j].sb = inode[j].sb /\ inode'[j].ino = inode[j].ino
            /\ j # n => inode'[j].d = inode[j].d /\ inode'[j].dirty = inode[j].dirty
       /\ inode'[n].d = x /\ inode'[n].dirty # 0
  BY <1>4, <1>7, <1>8, <1>9
<1>15. Kept(inode', store, [cur EXCEPT ![dev[inode[n].sb]][inode[n].ino] = inode'[n].d], dev)
  <2>1. DevsApart(mounted, dev) /\ Kept(inode, store, cur, dev)
    BY DEF MtInv
  <2> QED
    BY <1>1, <1>3, <1>14, <2>1, ChangeKept, ZenonT(60)
<1>16. Kept(inode', store, cur', dev)
  BY <1>2, <1>14, <1>15
<1>17. DirtyRw(inode', ro)
  <2>1. \A j \in Slots \ {n} : inode'[j] = inode[j] /\ (InTab(inode', j) => InTab(inode, j))
    BY <1>8, <1>10
  <2>2. ~ro[inode'[n].sb]
    BY <1>2, <1>9
  <2> QED
    BY <2>1, <2>2 DEF DirtyRw, MtInv
<1> QED
  BY <1>2, <1>12, <1>13, <1>16, <1>17, MtInvNext DEF MtInv, superv

\* The entry is written.
LEMMA CleanEntry ==
  ASSUME NEW e \in Entry
  PROVE  LET f == [e EXCEPT !.dirty = 0]
         IN  /\ f \in Entry /\ f.refcnt = e.refcnt /\ f.sb = e.sb /\ f.ino = e.ino /\ f.d = e.d
             /\ f.mnt_dir = e.mnt_dir /\ f.mnt_root = e.mnt_root /\ f.dirty = 0
BY DEF Entry

\* The table u after the entries of X have been written.
Cleaned(u, X) == [k \in Slots |-> IF k \in X THEN [u[k] EXCEPT !.dirty = 0] ELSE u[k]]
LEMMA CleanedTable ==
  ASSUME NEW u, NEW h, NEW mt, TabOK(u, h, mt), NEW X \in SUBSET Slots
  PROVE  LET w == Cleaned(u, X)
         IN  /\ TabOK(w, h, mt)
             /\ \A k \in Slots :
                  /\ w[k].refcnt = u[k].refcnt /\ w[k].sb = u[k].sb /\ w[k].ino = u[k].ino
                  /\ w[k].d = u[k].d
                  /\ w[k].dirty = IF k \in X THEN 0 ELSE u[k].dirty
<1> DEFINE w == Cleaned(u, X)
<1>1. u \in [Slots -> Entry] /\ TabOwned(u, h, mt)
  BY DEF TabOK
<1>2. w = [k \in Slots |-> IF k \in X THEN [u[k] EXCEPT !.dirty = 0] ELSE u[k]]
  BY DEF Cleaned
<1>3. ASSUME NEW k \in Slots
      PROVE  /\ w[k] \in Entry /\ w[k].refcnt = u[k].refcnt /\ w[k].sb = u[k].sb
             /\ w[k].ino = u[k].ino /\ w[k].d = u[k].d /\ w[k].mnt_dir = u[k].mnt_dir
             /\ w[k].mnt_root = u[k].mnt_root
             /\ w[k].dirty = IF k \in X THEN 0 ELSE u[k].dirty
  <2>1. u[k] \in Entry
    BY <1>1
  <2>2. CASE k \in X
    <3> DEFINE f == [u[k] EXCEPT !.dirty = 0]
    <3>1. w[k] = f
      BY <1>2, <2>2
    <3>2. /\ f \in Entry /\ f.refcnt = u[k].refcnt /\ f.sb = u[k].sb /\ f.ino = u[k].ino
          /\ f.d = u[k].d /\ f.mnt_dir = u[k].mnt_dir /\ f.mnt_root = u[k].mnt_root /\ f.dirty = 0
      BY <2>1, CleanEntry
    <3> HIDE DEF f, w
    <3> QED
      BY <2>2, <3>1, <3>2
  <2>3. CASE k \notin X
    BY <1>2, <2>1, <2>3
  <2> QED
    BY <2>2, <2>3
<1> HIDE DEF w
<1>4. w \in [Slots -> Entry]
  <2>1. w = [k \in Slots |-> w[k]]
    BY <1>2
  <2> QED
    BY <1>3, <2>1
<1>5. \A k \in Slots : InTab(u, k) =>
        /\ mt[u[k].sb] /\ w[k].refcnt = u[k].refcnt /\ w[k].sb = u[k].sb
        /\ w[k].ino = u[k].ino /\ w[k].mnt_dir = u[k].mnt_dir /\ w[k].mnt_root = u[k].mnt_root
  BY <1>1, <1>3 DEF TabOwned
<1>6. \A k \in Slots : ~InTab(u, k) => ~InTab(w, k) /\ w[k].dirty = 0
  <2> SUFFICES ASSUME NEW k \in Slots, ~InTab(u, k) PROVE ~InTab(w, k) /\ w[k].dirty = 0
    OBVIOUS
  <2>1. u[k].dirty = 0
    BY <1>1 DEF TabOwned
  <2> QED
    BY <1>3, <2>1 DEF InTab
<1>7. TabOK(w, h, mt)
  BY <1>4, <1>5, <1>6, SameTab
<1> QED
  BY <1>3, <1>7 DEF w

LEMMA SyncKeeps ==
  ASSUME MtInv, NEW level \in {1, 2}, Sync(level)
  PROVE  MtInv'
<1> DEFINE W == {n \in Slots : inode[n].dirty >= level}
<1>1. /\ TabOK(inode, held, mounted) /\ inode \in [Slots -> Entry]
      /\ store \in [Devs -> [Inos -> Vals]] /\ cur \in [Devs -> [Inos -> Vals]]
      /\ DevsApart(mounted, dev) /\ Kept(inode, store, cur, dev)
  BY DEF MtInv, TabOK
<1>2. W \in SUBSET Slots /\ \A k \in Slots : k \in W <=> inode[k].dirty >= level
  OBVIOUS
<1>3. \A k \in Slots : inode[k].dirty \in 0 .. 2
  BY <1>1 DEF Entry
<1>4. \A k \in W : inode[k].dirty > 0
  BY <1>2, <1>3
<1>5. ~Panics(inode, W) /\ \A k \in W : InTab(inode, k)
  BY <1>2, <1>4, NoneReadOnly
<1>6. CASE Panic("no freemap")
  BY <1>6, MtPanicKeeps
<1>7. CASE ~Panic("no freemap")
  <2>1. PICK L \in SUBSET W :
          /\ Write(inode, W, L, {})
          /\ inode' = [n \in Slots |-> IF n \in W \ L THEN [inode[n] EXCEPT !.dirty = 0] ELSE inode[n]]
    BY <1>5, <1>7 DEF Sync
  <2>2. UNCHANGED <<superv, held, panicked>>
    BY <1>5, <1>7 DEF Sync
  <2> DEFINE u == Cleaned(inode, W \ L)
  <2>3. inode' = u
    BY <2>1 DEF Cleaned
  <2>4. W \ L \in SUBSET Slots
    BY <1>2
  <2>5. /\ TabOK(u, held, mounted)
        /\ \A k \in Slots :
             /\ u[k].refcnt = inode[k].refcnt /\ u[k].sb = inode[k].sb /\ u[k].ino = inode[k].ino
             /\ u[k].d = inode[k].d
             /\ u[k].dirty = IF k \in W \ L THEN 0 ELSE inode[k].dirty
    BY <1>1, <2>4, CleanedTable
  <2> HIDE DEF u, W
  <2>6. \A k \in Slots : InTab(u, k) <=> InTab(inode, k)
    BY <2>5 DEF InTab
  <2>7. Stays(u, W, L, {})
    BY <1>4, <2>5, <2>6 DEF Stays
  <2>8. Leaves(u, W, L, {})
    BY <2>6 DEF Leaves
  <2>9. /\ Kept(u, store', cur', dev)
        /\ store' \in [Devs -> [Inos -> Vals]] /\ cur' \in [Devs -> [Inos -> Vals]]
    BY <1>1, <1>2, <1>5, <2>1, <2>7, <2>8, WriteKeeps
  <2>10. DirtyRw(u, ro)
    <3>1. \A k \in Slots : InTab(u, k) /\ u[k].dirty > 0 =>
            InTab(inode, k) /\ inode[k].dirty > 0 /\ u[k].sb = inode[k].sb
      BY <2>5, <2>6
    <3> QED
      BY <3>1 DEF DirtyRw, MtInv
  <2> QED
    BY <2>2, <2>3, <2>5, <2>9, <2>10, MtInvNext DEF MtInv, superv
<1> QED
  BY <1>6, <1>7

LEMMA ReadWriteKeeps ==
  ASSUME MtInv, ReadWrite
  PROVE  MtInv'
<1> DEFINE s == inode[NINODE].sb
<1>1. CASE Panic("have freemap")
  BY <1>1, MtPanicKeeps
<1>2. CASE ~Panic("have freemap")
  <2>1. /\ freemap' = [freemap EXCEPT ![s] = TRUE] /\ ro' = [ro EXCEPT ![s] = FALSE]
        /\ UNCHANGED <<mounted, dev, inode, held, store, cur, panicked>>
    BY <1>2 DEF ReadWrite
  <2>2. ro \in [Supers -> BOOLEAN] /\ freemap \in [Supers -> BOOLEAN] /\ inode \in [Slots -> Entry]
    BY DEF MtInv, TabOK
  <2> HIDE DEF s
  <2>3. \A k \in Supers : ro'[k] => ro[k]
    BY <2>1, <2>2
  <2>4. DirtyRw(inode, ro')
    <3>1. \A k \in Slots : inode[k].sb \in Supers
      BY <2>2 DEF Entry
    <3> QED
      BY <2>3, <3>1 DEF DirtyRw, MtInv
  <2>5. ro' \in [Supers -> BOOLEAN] /\ freemap' \in [Supers -> BOOLEAN]
    BY <2>1, <2>2
  <2> QED
    BY <2>1, <2>4, <2>5, MtInvNext DEF MtInv
<1> QED
  BY <1>1, <1>2

LEMMA UmountStepKeeps ==
  ASSUME MtInv, BusyDirs = FALSE, NEW n \in Slots, DoUmount(n)
  PROVE  MtInv'
<1> DEFINE s == inode[n].sb
           m == inode[n].mnt_dir
           W == {k \in Slots : inode[k].dirty > 0}
           u == UmountOf(inode, n)
<1>1. /\ TabOK(inode, held, mounted) /\ inode \in [Slots -> Entry]
      /\ mounted \in [Supers -> BOOLEAN] /\ freemap \in [Supers -> BOOLEAN]
      /\ store \in [Devs -> [Inos -> Vals]] /\ cur \in [Devs -> [Inos -> Vals]]
      /\ DevsApart(mounted, dev) /\ Kept(inode, store, cur, dev) /\ held[NINODE] > 0
  BY DEF MtInv, TabOK
<1>2. W \in SUBSET Slots /\ \A k \in Slots : k \in W <=> inode[k].dirty > 0
  OBVIOUS
<1>3. ~Panics(inode, W) /\ \A k \in W : InTab(inode, k)
  BY <1>2, NoneReadOnly
<1>4. /\ InTab(inode, n) /\ inode[n].refcnt = 1 /\ m # NULL /\ held[m] = 0
      /\ \A k \in Slots \ {n} : inode[k].refcnt = 0 \/ inode[k].sb # s
  <2>1. m # NULL /\ Idle(n) /\ (BusyDirs \/ held[m] = 0)
    BY Zenon DEF DoUmount
  <2> QED
    BY <2>1 DEF Idle, InTab
<1>5. CASE Panic("no freemap")
  BY <1>5, MtPanicKeeps
<1>6. CASE ~Panic("no freemap")
  <2>1. u = Uncover(n)
    BY DEF UmountOf, Uncover
  <2>2. PICK L \in SUBSET W :
          /\ Write(inode, W, L, Free(u))
          /\ inode' = [k \in Slots |-> IF k \in W \ L THEN [u[k] EXCEPT !.dirty = 0] ELSE u[k]]
    <3>1. \E L \in SUBSET W :
            /\ Write(inode, W, L, Free(Uncover(n)))
            /\ inode' = [k \in Slots |-> IF k \in W \ L THEN [Uncover(n)[k] EXCEPT !.dirty = 0]
                                                         ELSE Uncover(n)[k]]
      BY <1>3, <1>6, Zenon DEF DoUmount
    <3> QED
      BY <2>1, <3>1, Zenon
  <2>3. /\ mounted' = [mounted EXCEPT ![s] = FALSE] /\ freemap' = [freemap EXCEPT ![s] = FALSE]
        /\ UNCHANGED <<ro, dev, held, panicked>>
    BY <1>3, <1>6 DEF DoUmount
  <2>4. TabOK(u, held, mounted')
    BY <1>1, <1>4, <2>3, UmountKeeps
  <2>5. /\ m \in Slots /\ m # n
        /\ u \in [Slots -> Entry] /\ \A k \in Slots \ {n, m} : u[k] = inode[k]
        /\ u[n].refcnt = 0 /\ u[m].refcnt = 0 /\ u[n].dirty = 0 /\ u[m].dirty = 0
    BY <1>1, <1>4, UmountEntries
  <2> DEFINE w == Cleaned(u, W \ L)
  <2>6. inode' = w
    BY <2>2 DEF Cleaned
  <2>7. W \ L \in SUBSET Slots
    BY <1>2
  <2> HIDE DEF u, W, m, s
  <2>8. /\ TabOK(w, held, mounted')
        /\ \A k \in Slots :
             /\ w[k].refcnt = u[k].refcnt /\ w[k].sb = u[k].sb /\ w[k].ino = u[k].ino
             /\ w[k].d = u[k].d
             /\ w[k].dirty = IF k \in W \ L THEN 0 ELSE u[k].dirty
    BY <2>4, <2>7, CleanedTable
  <2> HIDE DEF w
  <2>9. \A k \in Slots : InTab(w, k) =>
          /\ k \notin {n, m} /\ u[k] = inode[k] /\ InTab(inode, k)
          /\ k \notin Free(u) /\ w[k].sb = inode[k].sb /\ w[k].ino = inode[k].ino
          /\ w[k].d = inode[k].d
          /\ w[k].dirty = IF k \in W \ L THEN 0 ELSE inode[k].dirty
    <3> SUFFICES ASSUME NEW k \in Slots, InTab(w, k)
                 PROVE  /\ k \notin {n, m} /\ u[k] = inode[k] /\ InTab(inode, k) /\ k \notin Free(u)
      BY <2>8
    <3>1. u[k].refcnt > 0
      BY <2>8 DEF InTab
    <3>2. k \notin {n, m} /\ u[k] = inode[k]
      BY <2>5, <3>1
    <3> QED
      BY <3>1, <3>2 DEF InTab, Free
  <2>10. \A k \in Slots : InTab(inode, k) /\ ~InTab(w, k) => k \in {n, m}
    BY <2>5, <2>8 DEF InTab
  <2>11. Stays(w, W, L, Free(u))
    BY <1>2, <2>9 DEF Stays
  <2>12. Leaves(w, W, L, Free(u))
    <3>1. n \in Free(u) /\ m \in Free(u)
      BY <2>5 DEF Free
    <3>2. \A k \in Slots : k \in W \/ inode[k].dirty = 0
      <4>1. \A k \in Slots : inode[k].dirty \in 0 .. 2
        BY <1>1 DEF Entry
      <4> QED
        BY <1>2, <4>1
    <3> QED
      BY <2>10, <3>1, <3>2 DEF Leaves
  <2>13. /\ Kept(w, store', cur', dev)
         /\ store' \in [Devs -> [Inos -> Vals]] /\ cur' \in [Devs -> [Inos -> Vals]]
    BY <1>1, <1>2, <1>3, <2>2, <2>11, <2>12, WriteKeeps
  <2>14. DirtyRw(w, ro)
    <3>1. \A k \in Slots : InTab(w, k) /\ w[k].dirty > 0 =>
            InTab(inode, k) /\ inode[k].dirty > 0 /\ w[k].sb = inode[k].sb
      BY <2>9
    <3> QED
      BY <3>1 DEF DirtyRw, MtInv
  <2>15. mounted' \in [Supers -> BOOLEAN] /\ freemap' \in [Supers -> BOOLEAN]
         /\ \A k \in Supers : mounted'[k] => mounted[k]
    BY <1>1, <2>3
  <2>16. DevsApart(mounted', dev)
    BY <1>1, <2>15 DEF DevsApart
  <2> QED
    BY <1>1, <2>3, <2>6, <2>8, <2>13, <2>14, <2>15, <2>16, MtInvNext DEF MtInv
<1> QED
  BY <1>5, <1>6

\* The mount point of do_mount: the table t has one more reference to entry m.
LEMMA PointGot ==
  ASSUME MtInv, NEW c \in Slots, NEW i \in Inos, At(c, i)
  PROVE  LET m == Point(c, i)
             t == PointTable(c, i)
         IN  /\ m \in Slots /\ InTab(t, m) /\ (t[m].refcnt = 1 => t[m].dirty = 0)
             /\ TabOK(t, [held EXCEPT ![m] = @ + 1], mounted)
             /\ Kept(t, store, cur, dev) /\ DirtyRw(t, ro)
<1> DEFINE s == inode[c].sb
           m == Got(inode, s, i)
           t == GetTable(inode, s, i, dev[s])
<1>1. /\ TabOK(inode, held, mounted) /\ inode \in [Slots -> Entry] /\ held \in [Slots -> Nat]
      /\ dev \in [Supers -> Devs] /\ store \in [Devs -> [Inos -> Vals]]
      /\ DevsApart(mounted, dev) /\ Kept(inode, store, cur, dev) /\ DirtyRw(inode, ro)
  BY DEF MtInv, TabOK
<1>2. s \in Supers /\ dev[s] \in Devs /\ store[dev[s]][i] \in Vals
  BY <1>1 DEF Entry
<1>3. c \in From /\ CanGet(inode, s, i)
  BY DEF At
<1>4. mounted[s]
  BY <1>1, <1>3, FromUsed
<1>5. TabOK(t, [held EXCEPT ![m] = @ + 1], mounted)
  BY <1>1, <1>2, <1>3, <1>4, GetKeeps
<1>6. Kept(t, store, cur, dev)
  BY <1>1, <1>2, <1>3, <1>4, GotKept
<1>7. DirtyRw(t, ro)
  BY <1>1, <1>2, <1>3, <1>4, GotDirty
<1>8. /\ m \in Slots /\ t[m].refcnt = inode[m].refcnt + 1
      /\ Found(inode, s, i) # {} => InTab(inode, m)
      /\ Found(inode, s, i) = {} => t[m].dirty = 0
  BY <1>1, <1>2, <1>3, GotTable
<1>9. inode[m].refcnt \in Nat
  BY <1>1, <1>8 DEF Entry
<1>10. InTab(t, m) /\ (t[m].refcnt = 1 => t[m].dirty = 0)
  BY <1>8, <1>9 DEF InTab
<1>11. m = Point(c, i) /\ t = PointTable(c, i)
  BY DEF Point, PointTable
<1> QED
  BY <1>5, <1>6, <1>7, <1>8, <1>10, <1>11

LEMMA MountFailsKeeps ==
  ASSUME MtInv, NEW c \in Slots, NEW i \in Inos, NEW v \in Devs, NEW r \in BOOLEAN,
         MountFails(c, i, v, r)
  PROVE  MtInv'
<1> DEFINE m == Point(c, i)
           t == PointTable(c, i)
           h == [held EXCEPT ![m] = @ + 1]
<1>1. PICK s \in SuperFor(v) :
        /\ inode' = PutTable(FailTable(t, s, ROOT), m)
        /\ dev' = [dev EXCEPT ![s] = v] /\ ro' = [ro EXCEPT ![s] = r]
        /\ freemap' = [freemap EXCEPT ![s] = @ \/ ~r]
  BY Zenon DEF MountFails
<1>2. At(c, i) /\ UNCHANGED <<mounted, held, store, cur, panicked>>
  BY DEF MountFails
<1>3. s \in Supers /\ ~mounted[s] /\ ROOT \in Inos
  BY MountAssumption DEF SuperFor, MountAssumption
<1>4. /\ m \in Slots /\ InTab(t, m) /\ (t[m].refcnt = 1 => t[m].dirty = 0)
      /\ TabOK(t, h, mounted) /\ Kept(t, store, cur, dev) /\ DirtyRw(t, ro)
  BY <1>2, PointGot
<1>5. /\ dev \in [Supers -> Devs] /\ ro \in [Supers -> BOOLEAN] /\ freemap \in [Supers -> BOOLEAN]
      /\ held \in [Slots -> Nat] /\ DevsApart(mounted, dev)
  BY DEF MtInv, TabOK
<1> DEFINE w == FailTable(t, s, ROOT)
           u == PutTable(w, m)
<1> HIDE DEF m, t
<1>6. /\ w \in [Slots -> Entry] /\ \A k \in Slots : InTab(t, k) => w[k] = t[k]
      /\ \A k \in Slots : ~InTab(t, k) => ~InTab(w, k) /\ w[k].dirty = 0
  BY <1>3, <1>4, FailedTable
<1> HIDE DEF w
<1>7. Kept(t, store, cur, dev') /\ DirtyRw(t, ro')
  BY <1>1, <1>3, <1>4, <1>5, OtherSuper
<1>8. Kept(w, store, cur, dev') /\ DirtyRw(w, ro')
  BY <1>6, <1>7, SameKept
<1>9. TabOK(w, h, mounted)
  <2>1. \A k \in Slots : InTab(t, k) =>
          /\ mounted[t[k].sb] /\ w[k].refcnt = t[k].refcnt /\ w[k].sb = t[k].sb
          /\ w[k].ino = t[k].ino /\ w[k].mnt_dir = t[k].mnt_dir /\ w[k].mnt_root = t[k].mnt_root
    BY <1>4, <1>6 DEF TabOK, TabOwned
  <2> QED
    BY <1>4, <1>6, <2>1, SameTab
<1>10. h[m] > 0 /\ [h EXCEPT ![m] = @ - 1] = held
  <2>1. h = [held EXCEPT ![m] = held[m] + 1] /\ held[m] \in Nat
    BY <1>4, <1>5
  <2>2. h \in [Slots -> Nat] /\ h[m] = held[m] + 1 /\ \A k \in Slots \ {m} : h[k] = held[k]
    BY <1>4, <1>5, <2>1
  <2> DEFINE g == [h EXCEPT ![m] = h[m] - 1]
  <2> HIDE DEF h
  <2>3. g \in [Slots -> Nat] /\ \A k \in Slots : g[k] = held[k]
    BY <1>4, <2>1, <2>2
  <2>4. g = held
    BY <1>5, <2>3
  <2> QED
    BY <2>1, <2>2, <2>4
<1> HIDE DEF h
<1>11. TabOK(u, held, mounted)
  BY <1>4, <1>9, <1>10, PutKeeps
<1>12. w[m] = t[m] /\ InTab(w, m) /\ w[m].refcnt > 0 /\ w[m].refcnt \in Nat
  BY <1>4, <1>6 DEF InTab, Entry
<1>13. /\ u \in [Slots -> Entry] /\ \A k \in Slots \ {m} : u[k] = w[k]
       /\ u[m].refcnt = w[m].refcnt - 1
       /\ u[m].dirty = (IF w[m].refcnt = 1 THEN 0 ELSE w[m].dirty)
       /\ u[m].sb = w[m].sb /\ u[m].ino = w[m].ino /\ u[m].d = w[m].d
  BY <1>4, <1>6, <1>12, PutEntry
<1> HIDE DEF u
<1>14. InTab(u, m) => u[m].dirty = w[m].dirty
  BY <1>12, <1>13 DEF InTab
<1>15. ~InTab(u, m) => w[m].dirty = 0
  BY <1>4, <1>12, <1>13 DEF InTab
<1>16. Kept(u, store, cur, dev') /\ DirtyRw(u, ro')
  BY <1>4, <1>8, <1>12, <1>13, <1>14, <1>15, LeaveKept
<1>17. /\ dev' \in [Supers -> Devs] /\ ro' \in [Supers -> BOOLEAN]
       /\ freemap' \in [Supers -> BOOLEAN] /\ \A k \in Supers \ {s} : dev'[k] = dev[k]
  BY <1>1, <1>3, <1>5
<1>18. DevsApart(mounted, dev')
  BY <1>3, <1>5, <1>17 DEF DevsApart
<1>19. inode' = u
  BY <1>1 DEF u, w
<1> QED
  BY <1>2, <1>11, <1>16, <1>17, <1>18, <1>19, MtInvNext DEF MtInv

LEMMA DoMountKeeps ==
  ASSUME MtInv, NEW c \in Slots, NEW i \in Inos, NEW v \in Devs, NEW r \in BOOLEAN,
         DoMount(c, i, v, r)
  PROVE  MtInv'
<1> DEFINE m == Point(c, i)
           t == PointTable(c, i)
           h == [held EXCEPT ![m] = @ + 1]
<1>1. PICK s \in SuperFor(v) :
        LET n == Got(t, s, ROOT)
            u == GetTable(t, s, ROOT, v)
        IN  /\ MayCover(t, m) /\ CanGet(t, s, ROOT)
            /\ inode' = Cover(u, m, n)
            /\ mounted' = [mounted EXCEPT ![s] = TRUE]
            /\ dev' = [dev EXCEPT ![s] = v]
            /\ ro' = [ro EXCEPT ![s] = r /\ ~FirstMount(u[n])]
            /\ freemap' = [freemap EXCEPT ![s] = @ \/ ~r]
            /\ cur' = IF FirstMount(u[n]) THEN [cur EXCEPT ![v][ROOT] = "x"] ELSE cur
  BY Zenon DEF DoMount
<1>2. At(c, i) /\ UNCHANGED <<held, store, panicked>>
  BY DEF DoMount
<1>3. /\ s \in Supers /\ ~mounted[s] /\ ROOT \in Inos
      /\ \A k \in Supers : ~(mounted[k] /\ dev[k] = v)
  BY MountAssumption DEF SuperFor, MountAssumption
<1>4. /\ m \in Slots /\ InTab(t, m)
      /\ TabOK(t, h, mounted) /\ Kept(t, store, cur, dev) /\ DirtyRw(t, ro)
  BY <1>2, PointGot
<1>5. /\ dev \in [Supers -> Devs] /\ ro \in [Supers -> BOOLEAN] /\ freemap \in [Supers -> BOOLEAN]
      /\ mounted \in [Supers -> BOOLEAN] /\ store \in [Devs -> [Inos -> Vals]]
      /\ cur \in [Devs -> [Inos -> Vals]] /\ held \in [Slots -> Nat] /\ DevsApart(mounted, dev)
      /\ held[NINODE] > 0
  BY DEF MtInv, TabOK
<1> DEFINE n == Got(t, s, ROOT)
           u == GetTable(t, s, ROOT, v)
           g == [h EXCEPT ![n] = @ + 1]
           w == Cover(u, m, n)
<1>6. /\ MayCover(t, m) /\ CanGet(t, s, ROOT)
      /\ inode' = w
      /\ mounted' = [mounted EXCEPT ![s] = TRUE]
      /\ dev' = [dev EXCEPT ![s] = v]
      /\ ro' = [ro EXCEPT ![s] = r /\ ~FirstMount(u[n])]
      /\ freemap' = [freemap EXCEPT ![s] = @ \/ ~r]
      /\ cur' = IF FirstMount(u[n]) THEN [cur EXCEPT ![v][ROOT] = "x"] ELSE cur
  BY <1>1
<1> HIDE DEF m, t
<1>7. /\ Kept(t, store, cur, dev') /\ \A k \in Slots : InTab(t, k) => t[k].sb # s
  BY <1>3, <1>4, <1>5, <1>6, OtherSuper
<1>8. /\ mounted' \in [Supers -> BOOLEAN] /\ dev' \in [Supers -> Devs]
      /\ ro' \in [Supers -> BOOLEAN] /\ freemap' \in [Supers -> BOOLEAN]
      /\ mounted'[s] /\ dev'[s] = v
      /\ \A k \in Supers \ {s} : /\ mounted'[k] <=> mounted[k]
                                 /\ dev'[k] = dev[k] /\ (ro'[k] <=> ro[k])
  BY <1>3, <1>5, <1>6
<1>20. FirstMount(u[n]) => ~ro'[s]
  BY <1>3, <1>5, <1>6
<1>9. DevsApart(mounted', dev')
  BY <1>3, <1>5, <1>8 DEF DevsApart
<1>10. TabOK(t, h, mounted')
  <2>1. t \in [Slots -> Entry] /\ TabOwned(t, h, mounted)
    BY <1>4 DEF TabOK
  <2>2. \A k \in Slots : InTab(t, k) => mounted'[t[k].sb]
    BY <1>7, <1>8, <2>1 DEF TabOwned, Entry
  <2>3. \A k \in Slots : ~InTab(t, k) => t[k].dirty = 0
    BY <2>1 DEF TabOwned
  <2> QED
    BY <1>4, <2>1, <2>2, <2>3, SameTab
<1>11. DirtyRw(t, ro')
  <2>1. t \in [Slots -> Entry]
    BY <1>4 DEF TabOK
  <2>2. \A k \in Slots : InTab(t, k) => t[k].sb \in Supers \ {s}
    BY <1>7, <2>1 DEF Entry
  <2> QED
    BY <1>4, <1>8, <2>2 DEF DirtyRw
<1>12. store[v][ROOT] \in Vals
  BY <1>3, <1>5
<1>27. h \in [Slots -> Nat] /\ h[m] = held[m] + 1 /\ \A k \in Slots \ {m} : h[k] = held[k]
  BY <1>4, <1>5
<1> HIDE DEF h
<1>13. TabOK(u, g, mounted')
  BY <1>3, <1>6, <1>8, <1>10, <1>12, GetKeeps
<1>14. Kept(u, store, cur, dev')
  BY <1>3, <1>5, <1>6, <1>7, <1>8, <1>9, <1>10, GotKept
<1>15. DirtyRw(u, ro')
  BY <1>3, <1>6, <1>10, <1>11, <1>12, GotDirty
<1>16. Found(t, s, ROOT) = {}
  BY <1>7 DEF Found, Is, InTab
<1>17. /\ n \in Slots /\ u \in [Slots -> Entry] /\ \A k \in Slots \ {n} : u[k] = t[k]
       /\ ~InTab(t, n) /\ u[n].refcnt = t[n].refcnt + 1
       /\ u[n].sb = s /\ u[n].ino = ROOT /\ u[n].dirty = 0
       /\ u[n].mnt_dir = NULL /\ u[n].mnt_root = NULL
  BY <1>3, <1>6, <1>10, <1>12, <1>16, GotTable
<1>18. m # n /\ u[m] = t[m] /\ u[m].mnt_dir = NULL /\ u[m].mnt_root = NULL /\ InTab(u, m)
  BY <1>4, <1>6, <1>17 DEF MayCover, InTab
<1>19. InTab(u, n)
  <2>1. t[n].refcnt \in Nat
    BY <1>4, <1>17 DEF TabOK, Entry
  <2> QED
    BY <1>17, <2>1 DEF InTab
<1> HIDE DEF n, u
<1>21. /\ g[m] = held[m] + 1 /\ g[n] = held[n] + 1
       /\ \A k \in Slots \ {m, n} : held[k] = g[k]
  BY <1>4, <1>17, <1>18, <1>27
<1> HIDE DEF g
<1>22. g[m] > 0 /\ g[n] > 0 /\ held[m] = g[m] - 1 /\ held[n] = g[n] - 1
  <2>1. held[m] \in Nat /\ held[n] \in Nat
    BY <1>4, <1>5, <1>17
  <2> QED
    BY <1>21, <2>1
<1>23. /\ TabOK(w, held, mounted')
       /\ \A k \in Slots \ {m, n} : w[k] = u[k]
       /\ \A k \in Slots : w[k].refcnt = u[k].refcnt /\ w[k].sb = u[k].sb /\ w[k].ino = u[k].ino
       /\ w[m].d = u[m].d /\ w[m].dirty = u[m].dirty
       /\ w[n].d = (IF FirstMount(u[n]) THEN "x" ELSE u[n].d)
       /\ w[n].dirty = (IF FirstMount(u[n]) THEN 2 ELSE u[n].dirty)
  <2>1. held \in [Slots -> Nat] /\ m \in Slots /\ n \in Slots
    BY <1>4, <1>5, <1>17
  <2>2. u[n].mnt_dir = NULL /\ u[n].mnt_root = NULL
    BY <1>17
  <2>3. \A k \in Slots \ {m, n} : held[k] = g[k]
    BY <1>21
  <2> HIDE DEF w
  <2> QED
    BY <1>13, <1>18, <1>19, <1>22, <2>1, <2>2, <2>3, CoverKeeps DEF w
<1> HIDE DEF w
<1>24. \A k \in Slots : /\ w[k].refcnt = u[k].refcnt /\ w[k].sb = u[k].sb /\ w[k].ino = u[k].ino
                        /\ k # n => w[k].d = u[k].d /\ w[k].dirty = u[k].dirty
  BY <1>23
<1>25. Kept(w, store, cur', dev') /\ cur' \in [Devs -> [Inos -> Vals]]
  <2>1. CASE FirstMount(u[n])
    <3>1. Kept(w, store, [cur EXCEPT ![dev'[u[n].sb]][u[n].ino] = w[n].d], dev')
      <4>1. n \in Slots /\ cur \in [Devs -> [Inos -> Vals]] /\ dev' \in [Supers -> Devs]
        BY <1>5, <1>8, <1>17
      <4>2. w[n].dirty # 0
        BY <1>23, <2>1
      <4> QED
        BY <1>9, <1>13, <1>14, <1>19, <1>24, <4>1, <4>2, ChangeKept
    <3>2. dev'[u[n].sb] = v /\ u[n].ino = ROOT /\ w[n].d = "x"
      BY <1>8, <1>17, <1>23, <2>1
    <3>3. cur' = [cur EXCEPT ![v][ROOT] = "x"]
      BY <1>6, <2>1
    <3> QED
      BY <1>3, <1>5, <3>1, <3>2, <3>3 DEF Vals
  <2>2. CASE ~FirstMount(u[n])
    <3>1. cur' = cur
      BY <1>6, <2>2
    <3>2. \A k \in Slots : w[k].d = u[k].d /\ w[k].dirty = u[k].dirty
      BY <1>23, <1>24, <2>2
    <3>3. \A k \in Slots, x \in Devs, j \in Inos : Holds(w, dev', k, x, j) <=> Holds(u, dev', k, x, j)
      BY <1>24 DEF Holds, InTab
    <3>4. Kept(w, store, cur, dev')
      BY <1>14, <3>2, <3>3 DEF Kept
    <3> QED
      BY <1>5, <3>1, <3>4
  <2> QED
    BY <2>1, <2>2
<1>26. DirtyRw(w, ro')
  <2> SUFFICES ASSUME NEW k \in Slots, InTab(w, k), w[k].dirty > 0 PROVE ~ro'[w[k].sb]
    BY DEF DirtyRw
  <2>1. CASE k # n
    <3>1. InTab(u, k) /\ u[k].dirty > 0 /\ w[k].sb = u[k].sb
      BY <1>24, <2>1 DEF InTab
    <3> QED
      BY <1>15, <3>1 DEF DirtyRw
  <2>2. CASE k = n
    BY <1>17, <1>20, <1>23, <2>2
  <2> QED
    BY <2>1, <2>2
<1> QED
  BY <1>2, <1>5, <1>6, <1>8, <1>9, <1>23, <1>25, <1>26, MtInvNext DEF MtInv

LEMMA MtInitInv == Init => MtInv
<1> SUFFICES ASSUME Init PROVE MtInv
  OBVIOUS
<1> DEFINE dy == IF rootdev \in Blank THEN 2 ELSE 0
           e == [Empty EXCEPT !.refcnt = 3, !.d = "x", !.dirty = dy]
<1>0. NINODE \in Slots /\ 1 \in Supers /\ rootdev \in Devs /\ ROOT \in Inos /\ NULL \notin Slots
  BY MtSlots, MountAssumption DEF MountAssumption, Supers
<1>1. Empty \in Entry /\ Empty.refcnt = 0 /\ Empty.dirty = 0
  BY <1>0 DEF Empty, Entry, Vals
<1>2. /\ e \in Entry /\ e.refcnt = 3 /\ e.sb = 1 /\ e.ino = ROOT /\ e.dirty = dy
      /\ e.mnt_dir = NULL /\ e.mnt_root = NULL /\ e.d = "x"
  <2> DEFINE f == [refcnt |-> 3, sb |-> 1, ino |-> ROOT, dirty |-> dy,
                   mnt_dir |-> NULL, mnt_root |-> NULL, d |-> "x"]
  <2> DEFINE e1 == [Empty EXCEPT !.refcnt = 3]
             e2 == [e1 EXCEPT !.d = "x"]
  <2>4. e1 = [refcnt |-> 3, sb |-> 1, ino |-> ROOT, dirty |-> 0,
              mnt_dir |-> NULL, mnt_root |-> NULL, d |-> "blank"]
    BY DEF Empty
  <2> HIDE DEF e1
  <2>5. e2 = [refcnt |-> 3, sb |-> 1, ino |-> ROOT, dirty |-> 0,
              mnt_dir |-> NULL, mnt_root |-> NULL, d |-> "x"]
    BY <2>4
  <2>6. e = [e2 EXCEPT !.dirty = dy]
    BY DEF e1
  <2> HIDE DEF e2, dy
  <2>1. e = f
    BY <2>5, <2>6
  <2> USE DEF dy
  <2>2. dy \in 0 .. 2
    OBVIOUS
  <2> HIDE DEF e, dy
  <2>3. f \in Entry
    BY <1>0, <2>2 DEF Entry, Vals
  <2> QED
    BY <2>1, <2>3
<1>3. PICK r \in BOOLEAN :
        /\ ro = [s \in Supers |-> s = 1 /\ r /\ rootdev \notin Blank]
        /\ freemap = [s \in Supers |-> s = 1 /\ ~r]
  BY DEF Init
<1>4. /\ mounted = [s \in Supers |-> s = 1] /\ dev = [s \in Supers |-> rootdev]
      /\ store = [v \in Devs |-> [i \in Inos |->
                    IF v \in Blank /\ i = ROOT THEN "blank" ELSE "x"]]
      /\ cur = [v \in Devs |-> [i \in Inos |->
                  IF v \in Blank \ {rootdev} /\ i = ROOT THEN "blank" ELSE "x"]]
      /\ inode = [n \in Slots |-> IF n = NINODE THEN e ELSE Empty]
      /\ held = [n \in Slots |-> IF n = NINODE THEN 2 ELSE 0]
      /\ panicked = ""
  BY DEF Init
<1> HIDE DEF e
<1>5. /\ mounted \in [Supers -> BOOLEAN] /\ ro \in [Supers -> BOOLEAN]
      /\ dev \in [Supers -> Devs] /\ freemap \in [Supers -> BOOLEAN]
      /\ store \in [Devs -> [Inos -> Vals]] /\ cur \in [Devs -> [Inos -> Vals]]
  BY <1>0, <1>3, <1>4 DEF Vals
<1>6. inode \in [Slots -> Entry] /\ held \in [Slots -> Nat] /\ held[NINODE] = 2
  BY <1>0, <1>1, <1>2, <1>4
<1>7. inode[NINODE] = e /\ \A n \in Slots \ {NINODE} : inode[n] = Empty /\ held[n] = 0
  BY <1>0, <1>4
<1>8. InTab(inode, NINODE) /\ \A n \in Slots \ {NINODE} : ~InTab(inode, n) /\ inode[n].dirty = 0
  BY <1>1, <1>2, <1>7 DEF InTab
<1>9. TabOK(inode, held, mounted)
  <2>1. mounted[inode[NINODE].sb] /\ inode[NINODE].refcnt = RefsOf(inode, held, NINODE)
      <3>1. mounted[1]
      BY <1>0, <1>4
    <3>2. inode[NINODE].sb = 1 /\ inode[NINODE].refcnt = 3
          /\ inode[NINODE].mnt_dir = NULL /\ inode[NINODE].mnt_root = NULL
      BY <1>2, <1>7
    <3> QED
      BY <1>6, <3>1, <3>2 DEF RefsOf, OfOne
  <2>2. TabOwned(inode, held, mounted)
    BY <1>7, <1>8, <2>1 DEF TabOwned
  <2>3. TabOnce(inode) /\ TabLinks(inode)
    BY <1>2, <1>7, <1>8 DEF TabOnce, TabLinks
  <2> QED
    BY <1>6, <2>2, <2>3 DEF TabOK
<1>10. DevsApart(mounted, dev)
  BY <1>4 DEF DevsApart
<1>11. \A v \in Devs, i \in Inos :
         /\ Holds(inode, dev, NINODE, v, i) <=> v = rootdev /\ i = ROOT
         /\ \A n \in Slots : Holds(inode, dev, n, v, i) => n = NINODE
  BY <1>0, <1>2, <1>4, <1>7, <1>8 DEF Holds
<1>12. cur[rootdev][ROOT] = "x" /\ (e.dirty = 0 => store[rootdev][ROOT] = "x")
  <2>1. cur[rootdev][ROOT] = "x"
    BY <1>0, <1>4
  <2>2. e.dirty = 0 => rootdev \notin Blank
    BY <1>2
  <2>3. rootdev \notin Blank => store[rootdev][ROOT] = "x"
    BY <1>0, <1>4
  <2> QED
    BY <2>1, <2>2, <2>3
<1>13. \A v \in Devs, i \in Inos : ~(v = rootdev /\ i = ROOT) => store[v][i] = cur[v][i]
  BY <1>4
<1>14. Kept(inode, store, cur, dev)
  BY <1>0, <1>2, <1>7, <1>11, <1>12, <1>13 DEF Kept
<1>15. DirtyRw(inode, ro)
  <2>1. e.dirty > 0 => ~ro[1]
    <3>1. ro[1] => rootdev \notin Blank
      BY <1>0, <1>3
    <3>2. e.dirty > 0 => rootdev \in Blank
      BY <1>2
    <3> QED
      BY <3>1, <3>2
  <2> QED
    BY <1>2, <1>7, <1>8, <2>1 DEF DirtyRw
<1>16. held[NINODE] > 0
  BY <1>6
<1>17. panicked \in {"", "no freemap", "have freemap"}
  BY DEF Init
<1> QED
  BY <1>5, <1>9, <1>10, <1>14, <1>15, <1>16, <1>17 DEF MtInv

LEMMA MtNextKeeps ==
  ASSUME MtInv, BusyDirs = FALSE, [Next]_vars
  PROVE  MtInv'
<1>0. CASE UNCHANGED vars
  BY <1>0 DEF vars, superv, MtInv
<1>1. ASSUME NEW c \in Slots, NEW i \in Inos, Lookup(c, i) \/ LookupFails(c, i)
      PROVE  MtInv'
  BY <1>1, LookupKeeps, LookupFailsKeeps
<1>2. ASSUME NEW n \in Slots, Release(n) \/ DoUmount(n) PROVE MtInv'
  BY <1>2, ReleaseKeeps, UmountStepKeeps
<1>3. ASSUME NEW n \in Slots, NEW x \in Vals \ {"blank"}, NEW k \in {1, 2}, Modify(n, x, k)
      PROVE  MtInv'
  BY <1>3, ModifyKeeps
<1>4. ASSUME NEW c \in Slots, NEW i \in Inos, NEW v \in Devs, NEW r \in BOOLEAN,
             DoMount(c, i, v, r) \/ MountFails(c, i, v, r)
      PROVE  MtInv'
  BY <1>4, DoMountKeeps, MountFailsKeeps
<1>5. ASSUME NEW c \in Slots, NEW i \in Inos, NEW v \in Devs, MountPanics(c, i, v) PROVE MtInv'
  BY <1>5, MtPanicKeeps DEF MountPanics
<1>6. ASSUME NEW level \in {1, 2}, Sync(level) PROVE MtInv'
  BY <1>6, SyncKeeps
<1>7. CASE ReadWrite
  BY <1>7, ReadWriteKeeps
<1> QED
  BY <1>0, <1>1, <1>2, <1>3, <1>4, <1>5, <1>6, <1>7 DEF Next

\* In a table that is right the references are those of the property.
LEMMA MtInvRefs ==
  ASSUME MtInv
  PROVE  RefsExact
<1>1. /\ inode \in [Slots -> Entry] /\ held \in [Slots -> Nat]
      /\ TabOwned(inode, held, mounted) /\ TabLinks(inode)
  BY DEF MtInv, TabOK
<1> SUFFICES ASSUME NEW n \in Slots
             PROVE  inode[n].refcnt = held[n] + Cardinality({p \in Mounts : p[1] = n})
                      + Cardinality({p \in Mounts : p[2] = n}) + (IF n = NINODE THEN 1 ELSE 0)
  BY DEF RefsExact
<1> DEFINE d == inode[n].mnt_dir
           r == inode[n].mnt_root
<1>2. \A k \in Slots : Used(k) <=> InTab(inode, k)
  BY DEF Used, InTab
<1>3. {p \in Mounts : p[2] = n} = IF InTab(inode, n) /\ d # NULL THEN {<<d, n>>} ELSE {}
  <2>1. ASSUME NEW p, p \in Mounts, p[2] = n PROVE p = <<d, n>> /\ InTab(inode, n) /\ d # NULL
    BY <1>2, <2>1, MtSlots DEF Mounts
  <2>2. InTab(inode, n) /\ d # NULL => <<d, n>> \in Mounts
    <3>1. d \in Slots \cup {NULL}
      BY <1>1 DEF Entry
    <3> QED
      BY <1>2, <3>1 DEF Mounts
  <2> QED
    BY <2>1, <2>2
<1>4. {p \in Mounts : p[1] = n} = IF InTab(inode, n) /\ r # NULL THEN {<<n, r>>} ELSE {}
  <2>1. ASSUME NEW p, p \in Mounts, p[1] = n PROVE p = <<n, r>> /\ InTab(inode, n) /\ r # NULL
    <3>1. p \in Slots \X Slots /\ InTab(inode, p[2]) /\ inode[p[2]].mnt_dir = n
      BY <1>2, <2>1 DEF Mounts
    <3>2. InTab(inode, n) /\ r = p[2]
      BY <1>1, <3>1, MtSlots DEF TabLinks
    <3> QED
      BY <2>1, <3>1, <3>2, MtSlots
  <2>2. InTab(inode, n) /\ r # NULL => <<n, r>> \in Mounts
    <3>1. r \in Slots \cup {NULL}
      BY <1>1 DEF Entry
    <3>2. InTab(inode, n) /\ r # NULL => InTab(inode, r) /\ inode[r].mnt_dir = n
      BY <1>1 DEF TabLinks
    <3> QED
      BY <1>2, <3>1, <3>2 DEF Mounts
  <2> QED
    BY <2>1, <2>2
<1>5. /\ Cardinality({p \in Mounts : p[2] = n}) = IF InTab(inode, n) /\ d # NULL THEN 1 ELSE 0
      /\ Cardinality({p \in Mounts : p[1] = n}) = IF InTab(inode, n) /\ r # NULL THEN 1 ELSE 0
  <2>1. \A x : Cardinality({x}) = 1
    BY FS_Singleton
  <2>2. Cardinality({}) = 0
    BY FS_EmptySet
  <2> QED
    BY <1>3, <1>4, <2>1, <2>2
<1>6. CASE InTab(inode, n)
  <2>1. inode[n].refcnt = RefsOf(inode, held, n) /\ held[n] \in Nat
    BY <1>1, <1>6 DEF TabOwned
  <2> QED
    BY <1>5, <1>6, <2>1 DEF RefsOf, OfOne
<1>7. CASE ~InTab(inode, n)
  <2>1. held[n] = 0 /\ n # NINODE /\ inode[n].refcnt = 0
    BY <1>1, <1>7 DEF TabOwned, InTab, Entry
  <2> QED
    BY <1>5, <1>7, <2>1
<1> QED
  BY <1>6, <1>7

\* The inode table (inode_get and inode_put of inode.c, do_mount, do_umount and
\* sync of mount.c): for any number of devices, mounts, entries and inode
\* numbers, no inode is in the table twice, every reference to an entry is a
\* program's or a mount's, and mount points and mounted roots come in pairs,
\* when umount is only called on a directory no program holds.
THEOREM InodesCorrect == ASSUME BusyDirs = FALSE PROVE Spec => []InodesExact
<1>1. Init => MtInv
  BY MtInitInv
<1>2. MtInv /\ [Next]_vars => MtInv'
  BY MtNextKeeps
<1>3. MtInv => InodesExact
  <2> SUFFICES ASSUME MtInv PROVE InodesExact
    OBVIOUS
  <2>1. /\ TabOK(inode, held, mounted) /\ TabOwned(inode, held, mounted) /\ TabOnce(inode)
        /\ TabLinks(inode)
    BY DEF MtInv, TabOK
  <2>2. \A n \in Slots : Used(n) <=> InTab(inode, n)
    BY DEF Used, InTab
  <2>3. TypeOK
    BY DEF MtInv, TabOK, TypeOK
  <2>4. OneInode
    BY <2>1, <2>2 DEF OneInode, TabOwned, TabOnce
  <2>5. MountLinks
    <3>1. \A n \in Slots : inode[n].mnt_root \in Slots \cup {NULL}
      BY DEF MtInv, TabOK, Entry
    <3> QED
      BY <2>1, <2>2, <3>1 DEF MountLinks, TabLinks
  <2> QED
    BY <2>3, <2>4, <2>5, MtInvRefs DEF InodesExact
<1> QED
  BY <1>1, <1>2, <1>3, PTL DEF Spec

\* When every root inode has been written once, a writable file system has its
\* free map: mount finds no root that it must make, which is the one case in
\* which a file system mounted read-only becomes writable.
BfInv ==
  /\ \A v \in Devs, i \in Inos : store[v][i] # "blank" /\ cur[v][i] # "blank"
  /\ \A s \in Supers : mounted[s] /\ ~ro[s] => freemap[s]
  /\ panicked # "no freemap"

\* What is written had a value.
LEMMA WriteNotBlank ==
  ASSUME MtInv, BfInv, NEW W \in SUBSET Slots, \A k \in W : InTab(inode, k),
         NEW L \in SUBSET W, NEW G, Write(inode, W, L, G)
  PROVE  \A v \in Devs, i \in Inos : store'[v][i] # "blank" /\ cur'[v][i] # "blank"
<1>1. /\ store \in [Devs -> [Inos -> Vals]] /\ cur \in [Devs -> [Inos -> Vals]]
      /\ TabOK(inode, held, mounted) /\ DevsApart(mounted, dev) /\ Kept(inode, store, cur, dev)
  BY DEF MtInv
<1>2. /\ store' \in [Devs -> [Inos -> Vals]] /\ cur' \in [Devs -> [Inos -> Vals]]
      /\ \A v \in Devs, i \in Inos, n \in Slots : Holds(inode, dev, n, v, i) =>
           /\ store'[v][i] = (IF n \in W \ L THEN inode[n].d ELSE store[v][i])
           /\ cur'[v][i] = (IF n \in L \cap G THEN store[v][i] ELSE cur[v][i])
      /\ \A v \in Devs, i \in Inos : (\A n \in Slots : ~Holds(inode, dev, n, v, i)) =>
           store'[v][i] = store[v][i] /\ cur'[v][i] = cur[v][i]
  BY <1>1, WriteOne
<1> SUFFICES ASSUME NEW v \in Devs, NEW i \in Inos
             PROVE  store'[v][i] # "blank" /\ cur'[v][i] # "blank"
  OBVIOUS
<1>3. store[v][i] # "blank" /\ cur[v][i] # "blank"
  BY DEF BfInv
<1>4. CASE \E n \in Slots : Holds(inode, dev, n, v, i)
  <2>1. PICK n \in Slots : Holds(inode, dev, n, v, i)
    BY <1>4
  <2>2. inode[n].d = cur[v][i]
    BY <1>1, <2>1 DEF Kept
  <2>3. /\ store'[v][i] = (IF n \in W \ L THEN inode[n].d ELSE store[v][i])
        /\ cur'[v][i] = (IF n \in L \cap G THEN store[v][i] ELSE cur[v][i])
    BY <1>2, <2>1
  <2> QED
    BY <1>3, <2>2, <2>3
<1>5. CASE \A n \in Slots : ~Holds(inode, dev, n, v, i)
  <2>1. store'[v][i] = store[v][i] /\ cur'[v][i] = cur[v][i]
    BY <1>2, <1>5
  <2> QED
    BY <1>3, <2>1
<1> QED
  BY <1>4, <1>5

LEMMA BfNextKeeps ==
  ASSUME MtInv, BfInv, BusyDirs = FALSE, [Next]_vars
  PROVE  BfInv'
<1>m. /\ mounted \in [Supers -> BOOLEAN] /\ ro \in [Supers -> BOOLEAN]
      /\ freemap \in [Supers -> BOOLEAN] /\ inode \in [Slots -> Entry]
      /\ TabOK(inode, held, mounted) /\ TabOwned(inode, held, mounted)
      /\ dev \in [Supers -> Devs] /\ store \in [Devs -> [Inos -> Vals]]
      /\ cur \in [Devs -> [Inos -> Vals]]
  BY DEF MtInv, TabOK
<1>0. ASSUME UNCHANGED <<mounted, ro, freemap, store, cur>>, panicked' # "no freemap"
      PROVE  BfInv'
  BY <1>0 DEF BfInv
<1>z. panicked # "no freemap"
  BY DEF BfInv
<1>1. CASE UNCHANGED vars
  BY <1>0, <1>1, <1>z DEF vars, superv
<1>2. ASSUME NEW c \in Slots, NEW i \in Inos, Lookup(c, i) \/ LookupFails(c, i)
      PROVE  BfInv'
  BY <1>0, <1>2, <1>z DEF Lookup, LookupFails, superv
<1>3. ASSUME NEW n \in Slots, Release(n) PROVE BfInv'
  <2> DEFINE W == IF Flushed(inode, n) THEN {n} ELSE {}
  <2>1. W \in SUBSET Slots /\ \A k \in W : inode[k].dirty > 0
    BY DEF Flushed
  <2>2. ~Panics(inode, W) /\ \A k \in W : InTab(inode, k)
    BY <2>1, NoneReadOnly
  <2>3. UNCHANGED <<superv, panicked>> /\ \E L \in SUBSET W : Write(inode, W, L, {n})
    BY <1>3, <2>2 DEF Release
  <2>4. \A v \in Devs, i \in Inos : store'[v][i] # "blank" /\ cur'[v][i] # "blank"
    BY <2>1, <2>2, <2>3, WriteNotBlank
  <2> QED
    BY <2>3, <2>4 DEF BfInv, superv
<1>4. ASSUME NEW n \in Slots, DoUmount(n) PROVE BfInv'
  <2> DEFINE s == inode[n].sb
             W == {k \in Slots : inode[k].dirty > 0}
  <2>1. W \in SUBSET Slots /\ \A k \in W : inode[k].dirty > 0
    OBVIOUS
  <2>2. ~Panics(inode, W) /\ \A k \in W : InTab(inode, k)
    BY <2>1, NoneReadOnly
  <2>9. Idle(n)
    BY <1>4, Zenon DEF DoUmount
  <2>3. InTab(inode, n)
    BY <2>9 DEF Idle, InTab
  <2>4. ~MapMissing(s)
    BY <1>m, <2>3 DEF TabOwned, Entry, BfInv, MapMissing
  <2>5. /\ mounted' = [mounted EXCEPT ![s] = FALSE] /\ freemap' = [freemap EXCEPT ![s] = FALSE]
        /\ UNCHANGED <<ro, panicked>>
    BY <1>4, <2>2, <2>4 DEF DoUmount
  <2>6. \E L \in SUBSET W : Write(inode, W, L, Free(Uncover(n)))
    BY <1>4, <2>2, <2>4, Zenon DEF DoUmount
  <2>7. \A v \in Devs, i \in Inos : store'[v][i] # "blank" /\ cur'[v][i] # "blank"
    BY <2>1, <2>2, <2>6, WriteNotBlank
  <2>8. \A k \in Supers : mounted'[k] /\ ~ro'[k] => freemap'[k]
    <3> SUFFICES ASSUME NEW k \in Supers, mounted'[k], ~ro'[k] PROVE freemap'[k]
      OBVIOUS
    <3> HIDE DEF s
    <3>1. k # s /\ mounted[k] /\ ~ro[k]
      BY <1>m, <2>5
    <3> QED
      BY <1>m, <2>5, <3>1 DEF BfInv
  <2> QED
    BY <1>z, <2>5, <2>7, <2>8 DEF BfInv
<1>5. ASSUME NEW n \in Slots, NEW x \in Vals \ {"blank"}, NEW k \in {1, 2}, Modify(n, x, k)
      PROVE  BfInv'
  <2>1. /\ cur' = [cur EXCEPT ![dev[inode[n].sb]][inode[n].ino] = x]
        /\ UNCHANGED <<superv, store, panicked>>
    BY <1>5 DEF Modify
  <2>2. dev[inode[n].sb] \in Devs /\ inode[n].ino \in Inos
    BY <1>m DEF Entry
  <2>3. \A v \in Devs, i \in Inos : cur'[v][i] # "blank"
    BY <1>m, <2>1, <2>2 DEF BfInv
  <2> QED
    BY <2>1, <2>3 DEF BfInv, superv
<1>6. ASSUME NEW c \in Slots, NEW i \in Inos, NEW v \in Devs, NEW r \in BOOLEAN,
             DoMount(c, i, v, r)
      PROVE  BfInv'
  <2> DEFINE m == Point(c, i)
             t == PointTable(c, i)
  <2>1. PICK s \in SuperFor(v) :
          LET n == Got(t, s, ROOT)
              u == GetTable(t, s, ROOT, v)
          IN  /\ CanGet(t, s, ROOT)
              /\ mounted' = [mounted EXCEPT ![s] = TRUE]
              /\ ro' = [ro EXCEPT ![s] = r /\ ~FirstMount(u[n])]
              /\ freemap' = [freemap EXCEPT ![s] = @ \/ ~r]
              /\ cur' = IF FirstMount(u[n]) THEN [cur EXCEPT ![v][ROOT] = "x"] ELSE cur
    BY <1>6, Zenon DEF DoMount
  <2>2. At(c, i) /\ UNCHANGED <<store, panicked>>
    BY <1>6 DEF DoMount
  <2>3. s \in Supers /\ ~mounted[s] /\ ROOT \in Inos
    BY MountAssumption DEF SuperFor, MountAssumption
  <2>4. /\ TabOK(t, [held EXCEPT ![m] = @ + 1], mounted)
        /\ Kept(t, store, cur, dev) /\ DirtyRw(t, ro)
    BY <2>2, PointGot
  <2> DEFINE n == Got(t, s, ROOT)
             u == GetTable(t, s, ROOT, v)
  <2>5. \A k \in Slots : InTab(t, k) => t[k].sb # s
    BY <1>m, <2>3, <2>4, OtherSuper
  <2> HIDE DEF m
  <2>6. CanGet(t, s, ROOT) /\ Found(t, s, ROOT) = {}
    BY <2>1, <2>5 DEF Found, Is, InTab
  <2>7. u[n].d = store[v][ROOT]
    BY <1>m, <2>3, <2>4, <2>6, GotTable
  <2>8. ~FirstMount(u[n])
    BY <2>3, <2>7 DEF FirstMount, BfInv
  <2>9. /\ mounted' = [mounted EXCEPT ![s] = TRUE]
        /\ ro' = [ro EXCEPT ![s] = r /\ ~FirstMount(u[n])]
        /\ freemap' = [freemap EXCEPT ![s] = freemap[s] \/ ~r]
        /\ cur' = cur
    BY <1>m, <2>1, <2>3, <2>8
  <2> HIDE DEF n, u, t
  <2>10. \A k \in Supers : mounted'[k] /\ ~ro'[k] => freemap'[k]
    <3> SUFFICES ASSUME NEW k \in Supers, mounted'[k], ~ro'[k] PROVE freemap'[k]
      OBVIOUS
    <3>1. CASE k = s
      BY <3>1, <1>m, <2>3, <2>8, <2>9
    <3>2. CASE k # s
      <4>1. mounted[k] /\ ~ro[k] /\ (freemap'[k] <=> freemap[k])
        BY <3>2, <1>m, <2>9
      <4> QED
        BY <4>1 DEF BfInv
    <3> QED
      BY <3>1, <3>2
  <2> QED
    BY <1>z, <2>2, <2>9, <2>10 DEF BfInv
<1>7. ASSUME NEW c \in Slots, NEW i \in Inos, NEW v \in Devs, NEW r \in BOOLEAN,
             MountFails(c, i, v, r)
      PROVE  BfInv'
  <2>1. PICK s \in SuperFor(v) :
          /\ ro' = [ro EXCEPT ![s] = r]
          /\ freemap' = [freemap EXCEPT ![s] = @ \/ ~r]
    BY <1>7, Zenon DEF MountFails
  <2>2. UNCHANGED <<mounted, store, cur, panicked>>
    BY <1>7 DEF MountFails
  <2>3. s \in Supers /\ ~mounted[s]
    BY DEF SuperFor
  <2>4. \A k \in Supers : mounted[k] => (ro'[k] <=> ro[k]) /\ (freemap'[k] <=> freemap[k])
    BY <1>m, <2>1, <2>3
  <2> QED
    BY <1>z, <2>2, <2>4 DEF BfInv
<1>8. ASSUME NEW c \in Slots, NEW i \in Inos, NEW v \in Devs, MountPanics(c, i, v) PROVE BfInv'
  BY <1>0, <1>8 DEF MountPanics, Panic, superv
<1>9. ASSUME NEW level \in {1, 2}, Sync(level) PROVE BfInv'
  <2> DEFINE W == {n \in Slots : inode[n].dirty >= level}
  <2>1. W \in SUBSET Slots /\ \A k \in W : inode[k].dirty > 0
    BY <1>m, SMTT(60) DEF Entry
  <2>2. ~Panics(inode, W) /\ \A k \in W : InTab(inode, k)
    BY <2>1, NoneReadOnly
  <2>3. \A s \in Supers : mounted[s] => ~MapMissing(s)
    BY DEF MapMissing, BfInv
  <2>4. UNCHANGED <<superv, panicked>> /\ \E L \in SUBSET W : Write(inode, W, L, {})
    BY <1>9, <2>2, <2>3 DEF Sync
  <2>5. \A v \in Devs, i \in Inos : store'[v][i] # "blank" /\ cur'[v][i] # "blank"
    BY <2>1, <2>2, <2>4, WriteNotBlank
  <2> QED
    BY <2>4, <2>5 DEF BfInv, superv
<1>10. CASE ReadWrite
  <2>1. CASE Panic("have freemap")
    BY <1>0, <2>1 DEF Panic, superv
  <2>2. CASE ~Panic("have freemap")
    <3> DEFINE s == inode[NINODE].sb
    <3>1. /\ freemap' = [freemap EXCEPT ![s] = TRUE] /\ ro' = [ro EXCEPT ![s] = FALSE]
          /\ UNCHANGED <<mounted, store, cur, panicked>>
      BY <1>10, <2>2 DEF ReadWrite
    <3> HIDE DEF s
    <3>2. \A k \in Supers : freemap[k] => freemap'[k]
      BY <1>m, <3>1
    <3>3. \A k \in Supers : ~ro'[k] => ~ro[k] \/ freemap'[k]
      BY <1>m, <3>1
    <3> QED
      BY <1>z, <3>1, <3>2, <3>3 DEF BfInv
  <2> QED
    BY <2>1, <2>2
<1> QED
  BY <1>1, <1>2, <1>3, <1>4, <1>5, <1>6, <1>7, <1>8, <1>9, <1>10 DEF Next

\* inode_write, inode_put and the syncs: for any number of devices, mounts,
\* entries and inode numbers, a change of an inode is in its entry or has
\* reached the device unless its write was reported to fail, and neither
\* inode_write nor save_freemap panics, when every root inode has been written
\* once and umount is only called on a directory no program holds.
THEOREM ChangesCorrect == ASSUME BusyDirs = FALSE, Blank = {} PROVE Spec => []ChangesKept
<1>1. Init => MtInv /\ BfInv
  <2> SUFFICES ASSUME Init PROVE BfInv
    BY MtInitInv
  <2>1. \A v \in Devs, i \in Inos : store[v][i] # "blank" /\ cur[v][i] # "blank"
    BY DEF Init
  <2>2. \A s \in Supers : mounted[s] /\ ~ro[s] => freemap[s]
    BY DEF Init
  <2>3. panicked # "no freemap"
    BY DEF Init
  <2> QED
    BY <2>1, <2>2, <2>3 DEF BfInv
<1>2. MtInv /\ BfInv /\ [Next]_vars => (MtInv /\ BfInv)'
  BY MtNextKeeps, BfNextKeeps
<1>3. MtInv /\ BfInv => ChangesKept
  <2> SUFFICES ASSUME MtInv, BfInv PROVE ChangesKept
    OBVIOUS
  <2>1. NoPanic
    BY DEF MtInv, BfInv, NoPanic
  <2>2. \A n \in Slots, v \in Devs, i \in Inos :
          Holds(inode, dev, n, v, i) <=> Used(n) /\ dev[inode[n].sb] = v /\ inode[n].ino = i
    BY DEF Holds, InTab, Used
  <2>4. Kept(inode, store, cur, dev)
    BY DEF MtInv
  <2>5. ASSUME NEW v \in Devs, NEW i \in Inos, NEW n \in Slots,
               Used(n), dev[inode[n].sb] = v, inode[n].ino = i
        PROVE  inode[n].d = cur[v][i]
    BY <2>2, <2>4, <2>5 DEF Kept
  <2>6. ASSUME NEW v \in Devs, NEW i \in Inos,
               ~\E n \in Slots : Used(n) /\ dev[inode[n].sb] = v /\ inode[n].ino = i
        PROVE  store[v][i] = cur[v][i]
    BY <2>2, <2>4, <2>6 DEF Kept
  <2>3. NothingLost
    BY <2>5, <2>6 DEF NothingLost
  <2> QED
    BY <2>1, <2>3 DEF ChangesKept
<1> QED
  BY <1>1, <1>2, <1>3, PTL DEF Spec
=============================================================================
