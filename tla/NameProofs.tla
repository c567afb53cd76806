----------------------------- MODULE NameProofs -----------------------------
(* A file system stays whole, for any number of inodes, names and blocks.     *)
(* Names: no name leads to a freed inode, nothing is out of reach,            *)
(* directories are a tree and every link is counted, as long as no directory  *)
(* is moved from one parent to another.  FileBlocks: no block has two owners, *)
(* none is lost or counted wrong, and a file reads as what was written to it, *)
(* as long as no file is long enough for a map of maps.                       *)
EXTENDS Names, FileBlocks, FiniteSetTheorems, WellFoundedInduction, NaturalsInduction, TLAPS

----------------------------------------------------------------------------
(* The inductive invariant, about any tables k (kind), n (nlink), e (ent),   *)
(* u (up), s (strays) and h (nmHeld), because inode_put works on tables in    *)
(* the middle of a call.                                                    *)

One(c) == IF c THEN 1 ELSE 0

NamesOf(e, i) == {p \in NmInos \X Entries : e[p[1]][p[2]] = i}
Leads(k, e, d, x) == e[d][x] # none /\ k[e[d][x]] = "dir"
SubsOf(k, e, d)  == {x \in Entries : Leads(k, e, d, x)}

EntTable == [NmInos -> [Entries -> NmInos \cup {none}]]
Types(k, n, e, u, s) ==
  /\ k \in [NmInos -> {"free", "reg", "dir"}] /\ n \in [NmInos -> Int]
  /\ e \in EntTable /\ u \in [NmInos -> NmInos] /\ s \in [NmInos -> Nat]

\* Only directories have entries, and a free inode has no links and no names.
Kinds(k, n, e, u, s) ==
  /\ k[root] = "dir" /\ u[root] = root
  /\ \A i \in NmInos : k[i] # "dir" => e[i] = NoEntries
  /\ \A i \in NmInos : k[i] = "free" => n[i] = 0 /\ s[i] = 0
  /\ \A d \in NmInos, x \in Entries : e[d][x] # none => k[e[d][x]] # "free" /\ e[d][x] # d

\* A directory has one name, in the directory above it, or has lost it in a
\* rename that failed half way.
OneName(k, e, u, s) ==
  /\ \A d, c \in NmInos, x, y \in Entries :
       Leads(k, e, d, x) /\ e[d][x] = e[c][y] => d = c /\ x = y
  /\ \A d \in NmInos, x \in Entries : Leads(k, e, d, x) => e[d][x] # root /\ u[e[d][x]] = d
  /\ \A i \in NmInos \ {root} : k[i] = "dir" => s[u[i]] > 0 \/ \E x \in Entries : e[u[i]][x] = i

\* A set that the names of directories do not lead out of.
DirClosed(k, e, s, T) ==
  /\ root \in T /\ \A i \in NmInos : s[i] > 0 => i \in T
  /\ \A d \in T, x \in Entries : Leads(k, e, d, x) => e[d][x] \in T
Reached(k, e, s) ==
  \A T \in SUBSET NmInos : DirClosed(k, e, s, T) => \A i \in NmInos : k[i] = "dir" => i \in T

LinksOf(k, e, s, i) ==
  Cardinality(NamesOf(e, i)) + s[i] + (IF k[i] = "dir" THEN 1 + Cardinality(SubsOf(k, e, i)) ELSE 0)
    + One(i = root)
Counted(k, n, e, s) == \A i \in NmInos : k[i] # "free" => n[i] = LinksOf(k, e, s, i)

InvOf(k, n, e, u, s) ==
  /\ Types(k, n, e, u, s) /\ Kinds(k, n, e, u, s) /\ OneName(k, e, u, s)
  /\ Reached(k, e, s) /\ Counted(k, n, e, s)

\* What is in use is not free, and what is not in use and has no link is.
UseOf(k, n, h) ==
  /\ h \in [NmInos -> Nat]
  /\ \A i \in NmInos : h[i] > 0 => k[i] # "free"
  /\ \A i \in NmInos \ {root} : k[i] # "free" => n[i] > 0 \/ h[i] > 0

NmInv == InvOf(kind, nlink, ent, up, strays) /\ UseOf(kind, nlink, nmHeld)

----------------------------------------------------------------------------
(* Counting.                                                                *)

\* A finite set whose elements change at most at x.
LEMMA NmDiffer ==
  ASSUME NEW S, IsFiniteSet(S), NEW A \in SUBSET S, NEW B \in SUBSET S, NEW x,
         A \ {x} = B \ {x}
  PROVE  /\ Cardinality(A) \in Nat /\ Cardinality(B) \in Nat
         /\ Cardinality(B) = Cardinality(A) - One(x \in A) + One(x \in B)
         /\ x \in A => Cardinality(A) > 0
<1>1. IsFiniteSet(A) /\ IsFiniteSet(B)
  BY FS_Subset
<1>2. Cardinality(A) \in Nat /\ Cardinality(B) \in Nat
  BY <1>1, FS_CardinalityType
<1>3. ASSUME NEW T \in {A, B}
      PROVE  Cardinality(T \ {x}) = Cardinality(T) - One(x \in T)
  <2>1. IsFiniteSet(T) /\ Cardinality(T) \in Nat
    BY <1>1, <1>2
  <2>2. Cardinality(T \ {x}) = IF x \in T THEN Cardinality(T) - 1 ELSE Cardinality(T)
    BY <2>1, FS_RemoveElement, Zenon
  <2> QED
    BY <2>1, <2>2 DEF One
<1>4. x \in A => Cardinality(A) # 0
  BY <1>1, FS_EmptySet
<1>5. Cardinality(A \ {x}) = Cardinality(B \ {x})
  OBVIOUS
<1>6. Cardinality(A) - One(x \in A) = Cardinality(B) - One(x \in B)
  BY <1>3, <1>5
<1>7. One(x \in A) \in Nat /\ One(x \in B) \in Nat
  BY DEF One
<1> QED
  BY <1>2, <1>4, <1>6, <1>7

\* The table e with v as the entry x of d.
SetEntry(e, d, x, v, f) ==
  /\ f \in EntTable
  /\ \A c \in NmInos, y \in Entries : f[c][y] = IF c = d /\ y = x THEN v ELSE e[c][y]

LEMMA SetsEntry ==
  ASSUME NEW e \in EntTable, NEW d \in NmInos, NEW x \in Entries, NEW v \in NmInos \cup {none}
  PROVE  SetEntry(e, d, x, v, [e EXCEPT ![d][x] = v])
  BY DEF SetEntry, EntTable

LEMMA SetRow ==
  ASSUME NEW e \in EntTable, NEW d \in NmInos, NEW x \in Entries, NEW v, NEW f, SetEntry(e, d, x, v, f),
         NEW j \in NmInos, j # d
  PROVE  f[j] = e[j]
<1>1. \A y \in Entries : f[j][y] = e[j][y]
  BY DEF SetEntry
<1>2. f[j] \in [Entries -> NmInos \cup {none}] /\ e[j] \in [Entries -> NmInos \cup {none}]
  BY DEF SetEntry, EntTable
<1> QED
  BY <1>1, <1>2

LEMMA CountsType ==
  ASSUME NEW e \in EntTable, NEW k, NEW i \in NmInos
  PROVE  /\ Cardinality(NamesOf(e, i)) \in Nat /\ Cardinality(SubsOf(k, e, i)) \in Nat
         /\ Cardinality(NamesOf(e, i)) = 0 => \A d \in NmInos, x \in Entries : e[d][x] # i
         /\ (\A d \in NmInos, x \in Entries : e[d][x] # i) => Cardinality(NamesOf(e, i)) = 0
         /\ Cardinality(SubsOf(k, e, i)) = 0 <=> \A x \in Entries : ~Leads(k, e, i, x)
<1>1. IsFiniteSet(NmInos \X Entries) /\ IsFiniteSet(Entries)
  BY NamesAssumption, FS_Product
<1>2. IsFiniteSet(NamesOf(e, i)) /\ IsFiniteSet(SubsOf(k, e, i))
  BY <1>1, FS_Subset DEF NamesOf, SubsOf
<1>3. /\ Cardinality(NamesOf(e, i)) = 0 <=> NamesOf(e, i) = {}
      /\ Cardinality(SubsOf(k, e, i)) = 0 <=> SubsOf(k, e, i) = {}
  BY <1>2, FS_EmptySet
<1>4. ASSUME NamesOf(e, i) = {}, NEW d \in NmInos, NEW x \in Entries
      PROVE  e[d][x] # i
  <2>1. <<d, x>> \notin NamesOf(e, i)
    BY <1>4
  <2> QED
    BY <2>1 DEF NamesOf
<1>5. (\A d \in NmInos, x \in Entries : e[d][x] # i) => NamesOf(e, i) = {}
  BY DEF NamesOf
<1>6. SubsOf(k, e, i) = {} <=> \A x \in Entries : ~Leads(k, e, i, x)
  BY DEF SubsOf
<1> QED
  BY <1>2, <1>3, <1>4, <1>5, <1>6, FS_CardinalityType

\* What a new entry does to the names of an inode ...
NamesLaw(e, d, x, v, f, i) ==
  Cardinality(NamesOf(f, i)) = Cardinality(NamesOf(e, i)) - (IF e[d][x] = i THEN 1 ELSE 0)
                                 + (IF v = i THEN 1 ELSE 0)
LEMMA NamesChange ==
  ASSUME NEW e \in EntTable, NEW d \in NmInos, NEW x \in Entries, NEW v \in NmInos \cup {none},
         NEW f, SetEntry(e, d, x, v, f), NEW i \in NmInos
  PROVE  NamesLaw(e, d, x, v, f, i)
<1>1. IsFiniteSet(NmInos \X Entries)
  BY NamesAssumption, FS_Product
<1> DEFINE A == NamesOf(e, i)
           B == NamesOf(f, i)
<1>2. A \in SUBSET (NmInos \X Entries) /\ B \in SUBSET (NmInos \X Entries)
  BY DEF NamesOf
<1>3. A \ {<<d, x>>} = B \ {<<d, x>>}
  <2>1. ASSUME NEW p \in NmInos \X Entries, p # <<d, x>>
        PROVE  p \in A <=> p \in B
    <3>1. PICK c \in NmInos, y \in Entries : p = <<c, y>>
      OBVIOUS
    <3>2. f[c][y] = e[c][y]
      BY <2>1, <3>1 DEF SetEntry
    <3> QED
      BY <3>1, <3>2 DEF NamesOf
  <2> QED
    BY <1>2, <2>1
<1>4. <<d, x>> \in A <=> e[d][x] = i
  BY DEF NamesOf
<1>5. <<d, x>> \in B <=> v = i
  <2>1. f[d][x] = v
    BY DEF SetEntry
  <2> QED
    BY <2>1 DEF NamesOf
<1> HIDE DEF A, B
<1>6. Cardinality(B) = Cardinality(A) - One(<<d, x>> \in A) + One(<<d, x>> \in B)
  BY <1>1, <1>2, <1>3, NmDiffer
<1>7. Cardinality(B) = Cardinality(A) - (IF e[d][x] = i THEN 1 ELSE 0) + (IF v = i THEN 1 ELSE 0)
  BY <1>4, <1>5, <1>6 DEF One
<1> QED
  BY <1>7 DEF A, B, NamesLaw

\* ... and to the subdirectories of a directory.
IsSub(k, v) == v # none /\ k[v] = "dir"
SubsLaw(k, e, d, x, v, f, i) ==
  Cardinality(SubsOf(k, f, i)) = Cardinality(SubsOf(k, e, i))
    - (IF i = d /\ IsSub(k, e[d][x]) THEN 1 ELSE 0) + (IF i = d /\ IsSub(k, v) THEN 1 ELSE 0)
LEMMA SubsChange ==
  ASSUME NEW e \in EntTable, NEW d \in NmInos, NEW x \in Entries, NEW v \in NmInos \cup {none},
         NEW f, SetEntry(e, d, x, v, f), NEW k, NEW i \in NmInos
  PROVE  SubsLaw(k, e, d, x, v, f, i)
<1> DEFINE A == SubsOf(k, e, i)
           B == SubsOf(k, f, i)
<1>1. A \in SUBSET Entries /\ B \in SUBSET Entries /\ IsFiniteSet(Entries)
  BY NamesAssumption DEF SubsOf
<1>2. A \ {x} = B \ {x}
  <2>1. ASSUME NEW y \in Entries, y # x
        PROVE  f[i][y] = e[i][y]
    BY <2>1 DEF SetEntry
  <2>2. ASSUME NEW y \in Entries, y # x
        PROVE  y \in A <=> y \in B
    BY <2>1, <2>2 DEF SubsOf, Leads
  <2> QED
    BY <1>1, <2>2
<1>3. x \in A <=> IsSub(k, e[i][x])
  BY DEF SubsOf, Leads, IsSub
<1>4. x \in B <=> IsSub(k, f[i][x])
  BY DEF SubsOf, Leads, IsSub
<1>5. f[i][x] = IF i = d THEN v ELSE e[i][x]
  BY DEF SetEntry
<1> HIDE DEF A, B
<1>6. Cardinality(A) \in Nat /\ Cardinality(B) = Cardinality(A) - One(x \in A) + One(x \in B)
  BY <1>1, <1>2, NmDiffer
<1>7. Cardinality(B) = Cardinality(A) - (IF i = d /\ IsSub(k, e[d][x]) THEN 1 ELSE 0)
                                      + (IF i = d /\ IsSub(k, v) THEN 1 ELSE 0)
  <2>1. CASE i = d
    BY <1>3, <1>4, <1>5, <1>6, <2>1 DEF One
  <2>2. CASE i # d
    BY <1>3, <1>4, <1>5, <1>6, <2>2 DEF One
  <2> QED
    BY <2>1, <2>2
<1> QED
  BY <1>7 DEF A, B, SubsLaw

\* The kind of an inode without a name says nothing about anybody's subdirectories.
SameSubs(k2, k, e) ==
  /\ \A d \in NmInos, x \in Entries : Leads(k2, e, d, x) <=> Leads(k, e, d, x)
  /\ \A d \in NmInos : SubsOf(k2, e, d) = SubsOf(k, e, d)
LEMMA SubsKind ==
  ASSUME NEW e \in EntTable, NEW k, NEW k2, NEW S,
         \A d \in NmInos, x \in Entries : e[d][x] \notin S,
         \A j \in NmInos \ S : k2[j] = k[j]
  PROVE  SameSubs(k2, k, e)
<1>1. ASSUME NEW d \in NmInos, NEW x \in Entries
      PROVE  Leads(k2, e, d, x) <=> Leads(k, e, d, x)
  <2>1. e[d][x] \in NmInos \cup {none} /\ e[d][x] \notin S
    BY DEF EntTable
  <2> QED
    BY <2>1 DEF Leads
<1> QED
  BY <1>1 DEF SubsOf, SameSubs

----------------------------------------------------------------------------
(* The invariant implies the properties.                                    *)

\* What a table that keeps the invariant says of one directory entry.
LEMMA EntryFacts ==
  ASSUME NEW k, NEW n, NEW e, NEW u, NEW s, InvOf(k, n, e, u, s),
         NEW d \in NmInos, NEW x \in Entries, e[d][x] # none
  PROVE  e[d][x] \in NmInos /\ k[d] = "dir" /\ k[e[d][x]] \in {"reg", "dir"} /\ e[d][x] # d
<1>1. Types(k, n, e, u, s) /\ Kinds(k, n, e, u, s)
  BY DEF InvOf
<1>2. e[d][x] \in NmInos /\ e[d][x] # d /\ k[e[d][x]] # "free"
  BY <1>1 DEF Types, Kinds, EntTable
<1>3. k[d] = "dir"
  <2>1. SUFFICES ASSUME k[d] # "dir"
                 PROVE  FALSE
    OBVIOUS
  <2>2. e[d] = NoEntries
    BY <1>1, <2>1 DEF Kinds
  <2> QED
    BY <2>2 DEF NoEntries
<1> QED
  BY <1>1, <1>2, <1>3 DEF Types

LEMMA LinksType ==
  ASSUME NEW k, NEW n, NEW e, NEW u, NEW s, InvOf(k, n, e, u, s), NEW i \in NmInos
  PROVE  /\ LinksOf(k, e, s, i) \in Nat /\ n[i] \in Nat
         /\ k[i] # "free" /\ n[i] = 0 => /\ k[i] = "reg" /\ s[i] = 0
                                        /\ \A d \in NmInos, x \in Entries : e[d][x] # i
<1>1. /\ e \in EntTable /\ s[i] \in Nat /\ k[i] \in {"free", "reg", "dir"}
      /\ k[i] = "free" => n[i] = 0
      /\ k[i] # "free" => n[i] = LinksOf(k, e, s, i)
  BY DEF InvOf, Types, Kinds, Counted
<1> DEFINE A == Cardinality(NamesOf(e, i))
           B == Cardinality(SubsOf(k, e, i))
<1>2. A \in Nat /\ B \in Nat /\ (A = 0 => \A d \in NmInos, x \in Entries : e[d][x] # i)
  BY <1>1, CountsType
<1>3. LinksOf(k, e, s, i) = A + s[i] + (IF k[i] = "dir" THEN 1 + B ELSE 0) + One(i = root)
  BY DEF LinksOf
<1>4. One(i = root) \in Nat
  BY DEF One
<1> HIDE DEF A, B
<1>5. LinksOf(k, e, s, i) \in Nat
  BY <1>1, <1>2, <1>3, <1>4
<1>6. LinksOf(k, e, s, i) = 0 => k[i] # "dir" /\ s[i] = 0 /\ A = 0
  BY <1>1, <1>2, <1>3, <1>4
<1> QED
  BY <1>1, <1>2, <1>5, <1>6

LEMMA InvReach ==
  ASSUME NamesAssumption, NmInv
  PROVE  NothingUnreachable
<1> DEFINE S == {root} \cup Held \cup {j \in NmInos : strays[j] > 0}
<1>1. SUFFICES ASSUME NEW i \in NmInos, kind[i] # "free",
                      NEW T \in SUBSET NmInos, S \subseteq T, NmClosed(T)
               PROVE  i \in T
  BY DEF NothingUnreachable, NmFrom
<1>2. InvOf(kind, nlink, ent, up, strays) /\ UseOf(kind, nlink, nmHeld)
  BY DEF NmInv
<1>3. ASSUME NEW d \in T, NEW x \in Entries, ent[d][x] # none
      PROVE  ent[d][x] \in T
  <2>1. d \in NmInos
    OBVIOUS
  <2>2. kind[d] = "dir"
    BY <1>2, <1>3, <2>1, EntryFacts
  <2> QED
    BY <1>1, <1>3, <2>2 DEF NmClosed, IsDir
<1>4. DirClosed(kind, ent, strays, T)
  BY <1>1, <1>3 DEF DirClosed, Leads
<1>5. \A j \in NmInos : kind[j] = "dir" => j \in T
  BY <1>2, <1>4 DEF InvOf, Reached
<1>6. CASE kind[i] = "dir"
  BY <1>5, <1>6
<1>7. CASE nmHeld[i] > 0 \/ strays[i] > 0 \/ i = root
  BY <1>1, <1>7 DEF Held
<1>8. CASE kind[i] # "dir" /\ ~(nmHeld[i] > 0 \/ strays[i] > 0 \/ i = root)
  <2>1. nlink[i] > 0
    BY <1>1, <1>2, <1>8 DEF UseOf
  <2>2. /\ nlink[i] = LinksOf(kind, ent, strays, i) /\ strays[i] \in Nat /\ ent \in EntTable
    BY <1>1, <1>2 DEF InvOf, Counted, Types
  <2>3. Cardinality(NamesOf(ent, i)) \in Nat
    BY <2>2, CountsType
  <2>4. Cardinality(NamesOf(ent, i)) # 0
    BY <1>8, <2>1, <2>2, <2>3 DEF LinksOf, One
  <2>5. PICK d \in NmInos, x \in Entries : ent[d][x] = i
    BY <2>2, <2>4, CountsType
  <2>6. ent[d][x] # none
    BY <2>5, NamesAssumption DEF NamesAssumption
  <2>7. kind[d] = "dir"
    BY <1>2, <2>6, EntryFacts
  <2> QED
    BY <1>3, <1>5, <2>5, <2>6, <2>7
<1> QED
  BY <1>6, <1>7, <1>8

LEMMA InvExact ==
  ASSUME NmInv
  PROVE  NamesExact
<1>1. InvOf(kind, nlink, ent, up, strays) /\ UseOf(kind, nlink, nmHeld)
  BY DEF NmInv
<1>2. /\ Types(kind, nlink, ent, up, strays) /\ Kinds(kind, nlink, ent, up, strays)
      /\ OneName(kind, ent, up, strays) /\ Counted(kind, nlink, ent, strays)
  BY <1>1 DEF InvOf
<1>3. NmTypeOK
  <2>1. \A i \in NmInos : nlink[i] \in Nat
    BY <1>1, LinksType
  <2> QED
    BY <1>1, <1>2, <2>1 DEF NmTypeOK, Types, UseOf, EntTable
<1>4. NoDangling
  BY <1>1, <1>2 DEF NoDangling, Kinds, UseOf, Held
<1>5. ASSUME NEW i \in NmInos
      PROVE  Named(i) = NamesOf(ent, i) /\ Subdirs(i) = SubsOf(kind, ent, i)
  <2>1. ASSUME NEW p \in NmInos \X Entries, ent[p[1]][p[2]] = i
        PROVE  IsDir(p[1])
    <3>1. p[1] \in NmInos /\ p[2] \in Entries /\ ent[p[1]][p[2]] # none
      BY <2>1, NamesAssumption DEF NamesAssumption
    <3> QED
      BY <1>1, <3>1, EntryFacts DEF IsDir
  <2> QED
    BY <2>1 DEF Named, NamesOf, Subdirs, SubsOf, Leads, IsDir
<1>6. NlinkExact
  BY <1>2, <1>5 DEF NlinkExact, Counted, LinksOf, One, IsDir
<1>7. Tree
  <2>1. SUFFICES ASSUME NEW i \in NmInos, kind[i] = "dir"
                 PROVE  /\ Cardinality(NamesOf(ent, i)) <= 1
                        /\ i = root => NamesOf(ent, i) = {}
                        /\ \A p \in NamesOf(ent, i) : up[i] = p[1]
    BY <1>5 DEF Tree, IsDir
  <2>2. \A p \in NamesOf(ent, i) : /\ p[1] \in NmInos /\ p[2] \in Entries /\ p = <<p[1], p[2]>>
                                   /\ Leads(kind, ent, p[1], p[2]) /\ ent[p[1]][p[2]] = i
    BY <2>1, NamesAssumption DEF NamesOf, Leads, NamesAssumption
  <2>3. \A p, q \in NamesOf(ent, i) : p = q
    BY <1>2, <2>2 DEF OneName
  <2>4. \A p \in NamesOf(ent, i) : i # root /\ up[i] = p[1]
    BY <1>2, <2>2 DEF OneName
  <2>5. Cardinality(NamesOf(ent, i)) <= 1
    <3>1. CASE NamesOf(ent, i) = {}
      BY <3>1, FS_EmptySet
    <3>2. CASE NamesOf(ent, i) # {}
      <4>1. PICK p : p \in NamesOf(ent, i)
        BY <3>2
      <4>2. NamesOf(ent, i) = {p}
        BY <2>3, <4>1
      <4> QED
        BY <4>2, FS_Singleton
    <3> QED
      BY <3>1, <3>2
  <2> QED
    BY <2>4, <2>5
<1> QED
  BY <1>3, <1>4, <1>6, <1>7, InvReach, NamesAssumption DEF NamesExact, LinksExact

----------------------------------------------------------------------------
(* inode_put at the end of a call.                                          *)

GoneOf(k, n, h) == {i \in NmInos \ {root} : k[i] # "free" /\ n[i] = 0 /\ h[i] = 0}

LEMMA PutKeeps ==
  ASSUME NEW k, NEW n, NEW e, NEW u, NEW s, InvOf(k, n, e, u, s),
         NEW h \in [NmInos -> Nat], \A i \in NmInos : h[i] > 0 => k[i] # "free",
         NEW k2, k2 = [i \in NmInos |-> IF i \in GoneOf(k, n, h) THEN "free" ELSE k[i]],
         NEW e2, e2 = [i \in NmInos |-> IF i \in GoneOf(k, n, h) THEN NoEntries ELSE e[i]]
  PROVE  InvOf(k2, n, e2, u, s) /\ UseOf(k2, n, h)
<1> DEFINE G == GoneOf(k, n, h)
<1>1. /\ Types(k, n, e, u, s) /\ Kinds(k, n, e, u, s) /\ OneName(k, e, u, s)
      /\ Reached(k, e, s) /\ Counted(k, n, e, s)
  BY DEF InvOf
<1>2. \A i \in G : /\ i \in NmInos /\ i # root /\ n[i] = 0 /\ h[i] = 0 /\ k[i] = "reg" /\ s[i] = 0
                   /\ \A d \in NmInos, x \in Entries : e[d][x] # i
  BY LinksType DEF GoneOf
<1>3. e2 = e
  <2>1. ASSUME NEW i \in NmInos
        PROVE  e2[i] = e[i]
    BY <1>1, <1>2 DEF Kinds
  <2> QED
    BY <1>1, <2>1 DEF Types, EntTable
<1>4. \A i \in NmInos : k2[i] = IF i \in G THEN "free" ELSE k[i]
  OBVIOUS
<1>5. Types(k2, n, e, u, s)
  BY <1>1 DEF Types
<1>6. \A i \in NmInos : k2[i] = "dir" <=> k[i] = "dir"
  BY <1>2, <1>4
<1>7. /\ \A d \in NmInos, x \in Entries : e[d][x] \notin G
      /\ \A j \in NmInos \ G : k2[j] = k[j]
  BY <1>2, <1>4
<1>8. /\ \A d \in NmInos, x \in Entries : Leads(k2, e, d, x) <=> Leads(k, e, d, x)
      /\ \A d \in NmInos : SubsOf(k2, e, d) = SubsOf(k, e, d)
  <2>1. e \in EntTable
    BY <1>1 DEF Types
  <2> HIDE DEF G
  <2>2. SameSubs(k2, k, e)
    BY <1>7, <2>1, SubsKind
  <2> QED
    BY <2>2 DEF SameSubs
<1> HIDE DEF G
<1>9. Kinds(k2, n, e, u, s)
  <2>1. k2[root] = "dir" /\ u[root] = root
    BY <1>1, <1>6, NamesAssumption DEF Kinds, NamesAssumption
  <2>2. ASSUME NEW i \in NmInos
        PROVE  /\ k2[i] # "dir" => e[i] = NoEntries
               /\ k2[i] = "free" => n[i] = 0 /\ s[i] = 0
    BY <1>1, <1>2, <1>4, <1>6 DEF Kinds
  <2>3. ASSUME NEW d \in NmInos, NEW x \in Entries, e[d][x] # none
        PROVE  k2[e[d][x]] # "free" /\ e[d][x] # d
    <3>1. e[d][x] \in NmInos /\ e[d][x] # d /\ k[e[d][x]] # "free"
      BY <1>1, <2>3 DEF Kinds, Types, EntTable
    <3> QED
      BY <1>7, <3>1
  <2> QED
    BY <2>1, <2>2, <2>3 DEF Kinds
<1>10. OneName(k2, e, u, s)
  BY <1>1, <1>6, <1>8 DEF OneName
<1>11. Reached(k2, e, s)
  <2>1. ASSUME NEW T \in SUBSET NmInos, DirClosed(k2, e, s, T)
        PROVE  DirClosed(k, e, s, T)
    BY <1>8, <2>1 DEF DirClosed
  <2> QED
    BY <1>1, <1>6, <2>1 DEF Reached
<1>12. Counted(k2, n, e, s)
  BY <1>1, <1>4, <1>6, <1>8 DEF Counted, LinksOf
<1>13. UseOf(k2, n, h)
  <2>1. ASSUME NEW i \in NmInos, h[i] > 0
        PROVE  k2[i] # "free"
    BY <1>2, <1>4, <2>1
  <2>2. ASSUME NEW i \in NmInos \ {root}, k2[i] # "free"
        PROVE  n[i] > 0 \/ h[i] > 0
    <3>1. i \notin G /\ k[i] # "free"
      BY <1>4, <2>2
    <3>2. n[i] # 0 \/ h[i] # 0
      BY <3>1 DEF G, GoneOf
    <3>3. n[i] \in Nat /\ h[i] \in Nat
      BY LinksType
    <3> QED
      BY <3>2, <3>3
  <2> QED
    BY <2>1, <2>2 DEF UseOf
<1> QED
  BY <1>3, <1>5, <1>9, <1>10, <1>11, <1>12, <1>13 DEF InvOf

\* A step that ends with inode_put of the tables k, n and e keeps the invariant.
LEMMA PutStep ==
  ASSUME NEW k, NEW n, NEW e, InvOf(k, n, e, up', strays'), Put(k, n, e),
         nmHeld' \in [NmInos -> Nat], \A i \in NmInos : nmHeld'[i] > 0 => k[i] # "free"
  PROVE  NmInv'
<1>1. Gone(k, n) = GoneOf(k, n, nmHeld')
  BY DEF Gone, GoneOf
<1>2. /\ kind' = [i \in NmInos |-> IF i \in GoneOf(k, n, nmHeld') THEN "free" ELSE k[i]]
      /\ ent' = [i \in NmInos |-> IF i \in GoneOf(k, n, nmHeld') THEN NoEntries ELSE e[i]]
      /\ nlink' = n
  BY <1>1 DEF Put
<1>3. InvOf(kind', n, ent', up', strays') /\ UseOf(kind', n, nmHeld')
  BY <1>2, PutKeeps
<1> QED
  BY <1>2, <1>3 DEF NmInv

----------------------------------------------------------------------------
(* The steps calls are made of, for any tables.                             *)

Plus(n, i, c) == [n EXCEPT ![i] = @ + c]

LEMMA PlusType ==
  ASSUME NEW n \in [NmInos -> Int], NEW i \in NmInos, NEW c \in Int
  PROVE  /\ Plus(n, i, c) \in [NmInos -> Int]
         /\ \A j \in NmInos : Plus(n, i, c)[j] = IF j = i THEN n[j] + c ELSE n[j]
  BY DEF Plus

\* The parts of an invariant that is to be shown, without the counts.
LEMMA InvParts ==
  ASSUME NEW k, NEW n, NEW e, NEW u, NEW s, InvOf(k, n, e, u, s)
  PROVE  /\ k \in [NmInos -> {"free", "reg", "dir"}] /\ n \in [NmInos -> Int]
         /\ e \in EntTable /\ u \in [NmInos -> NmInos] /\ s \in [NmInos -> Nat]
         /\ Kinds(k, n, e, u, s) /\ OneName(k, e, u, s)
         /\ Reached(k, e, s) /\ Counted(k, n, e, s)
         /\ \A i \in NmInos : Cardinality(NamesOf(e, i)) \in Nat /\ Cardinality(SubsOf(k, e, i)) \in Nat
  BY CountsType DEF InvOf, Types

\* A regular file gets one more name.
LEMMA LinkName ==
  ASSUME NEW k, NEW n, NEW e, NEW u, NEW s, InvOf(k, n, e, u, s),
         NEW d \in NmInos, NEW x \in Entries, k[d] = "dir", e[d][x] = none,
         NEW i \in NmInos, k[i] = "reg", NEW f, SetEntry(e, d, x, i, f)
  PROVE  InvOf(k, Plus(n, i, 1), f, u, s)
<1> DEFINE m == Plus(n, i, 1)
<1>1. /\ k \in [NmInos -> {"free", "reg", "dir"}] /\ n \in [NmInos -> Int]
      /\ e \in EntTable /\ u \in [NmInos -> NmInos] /\ s \in [NmInos -> Nat]
      /\ Kinds(k, n, e, u, s) /\ OneName(k, e, u, s)
      /\ Reached(k, e, s) /\ Counted(k, n, e, s)
      /\ \A j \in NmInos : Cardinality(NamesOf(e, j)) \in Nat /\ Cardinality(SubsOf(k, e, j)) \in Nat
  BY InvParts
<1>2. m \in [NmInos -> Int] /\ \A j \in NmInos : m[j] = IF j = i THEN n[j] + 1 ELSE n[j]
  BY <1>1 DEF Plus
<1>3. f \in EntTable /\ \A c \in NmInos, y \in Entries : f[c][y] = IF c = d /\ y = x THEN i ELSE e[c][y]
  BY DEF SetEntry
<1> HIDE DEF m
<1>4. ASSUME NEW c \in NmInos, NEW y \in Entries
      PROVE  Leads(k, f, c, y) <=> Leads(k, e, c, y)
  BY <1>3, <1>4 DEF Leads
<1>5. Types(k, m, f, u, s)
  BY <1>1, <1>2, <1>3 DEF Types
<1>6. Kinds(k, m, f, u, s)
  <2>1. ASSUME NEW j \in NmInos, k[j] # "dir"
        PROVE  f[j] = NoEntries
    <3>1. f[j] = e[j]
      BY <1>1, <2>1, SetRow
    <3> QED
      BY <1>1, <2>1, <3>1 DEF Kinds
  <2>2. ASSUME NEW c \in NmInos, NEW y \in Entries, f[c][y] # none
        PROVE  k[f[c][y]] # "free" /\ f[c][y] # c
    BY <1>1, <1>3, <2>2 DEF Kinds
  <2> QED
    BY <1>1, <1>2, <2>1, <2>2 DEF Kinds
<1>7. OneName(k, f, u, s)
  <2>1. ASSUME NEW a \in NmInos, NEW c \in NmInos, NEW y \in Entries, NEW z \in Entries,
               Leads(k, f, a, y), f[a][y] = f[c][z]
        PROVE  a = c /\ y = z
    <3>1. Leads(k, e, a, y) /\ f[a][y] = e[a][y] /\ f[c][z] # i
      BY <1>3, <1>4, <2>1 DEF Leads
    <3>2. e[a][y] = e[c][z]
      BY <1>3, <2>1, <3>1
    <3>3. OneName(k, e, u, s)
      BY <1>1
    <3> QED
      BY <3>1, <3>2, <3>3 DEF OneName
  <2>2. ASSUME NEW a \in NmInos, NEW y \in Entries, Leads(k, f, a, y)
        PROVE  f[a][y] # root /\ u[f[a][y]] = a
    <3>1. Leads(k, e, a, y) /\ f[a][y] = e[a][y]
      BY <1>3, <1>4, <2>2 DEF Leads
    <3> QED
      BY <1>1, <3>1 DEF OneName
  <2>3. ASSUME NEW j \in NmInos \ {root}, k[j] = "dir", ~(s[u[j]] > 0)
        PROVE  \E y \in Entries : f[u[j]][y] = j
    <3>1. PICK y \in Entries : e[u[j]][y] = j
      BY <1>1, <2>3 DEF OneName
    <3>2. u[j] \in NmInos /\ j # none
      BY <1>1, NamesAssumption DEF NamesAssumption
    <3>3. f[u[j]][y] = j
      BY <1>3, <3>1, <3>2
    <3> QED
      BY <3>3
  <2> QED
    BY <2>1, <2>2, <2>3 DEF OneName
<1>8. Reached(k, f, s)
  <2>1. ASSUME NEW T \in SUBSET NmInos, DirClosed(k, f, s, T)
        PROVE  DirClosed(k, e, s, T)
    BY <1>3, <1>4, <2>1 DEF DirClosed, Leads
  <2> QED
    BY <1>1, <2>1 DEF Reached
<1>9. ASSUME NEW j \in NmInos, k[j] # "free"
      PROVE  m[j] = LinksOf(k, f, s, j)
  <2>1. NamesLaw(e, d, x, i, f, j)
    BY <1>1, NamesChange
  <2>2. SubsOf(k, f, j) = SubsOf(k, e, j)
    BY <1>4 DEF SubsOf
  <2>3. n[j] = LinksOf(k, e, s, j)
    BY <1>1, <1>9 DEF Counted
  <2>4. none # j
    BY NamesAssumption DEF NamesAssumption
  <2>5. Cardinality(NamesOf(f, j)) = Cardinality(NamesOf(e, j)) + One(i = j)
    BY <1>1, <2>1, <2>4 DEF One, NamesLaw
  <2> QED
    BY <1>1, <1>2, <2>2, <2>3, <2>5 DEF LinksOf, One
<1> QED
  BY <1>5, <1>6, <1>7, <1>8, <1>9 DEF InvOf, Counted, m

\* The links a name less in d counts for its inode o and, for ".." in o, for d.
LessLinks(k, n, d, o, m) ==
  /\ m \in [NmInos -> Int]
  /\ \A j \in NmInos : m[j] = n[j] - One(j = o) - One(j = d /\ k[o] = "dir")

\* An inode loses a name; a directory only if a failed rename is to blame.
LEMMA UnlinkName ==
  ASSUME NEW k, NEW n, NEW e, NEW u, NEW s, InvOf(k, n, e, u, s),
         NEW d \in NmInos, NEW x \in Entries, e[d][x] # none,
         k[e[d][x]] = "dir" => s[e[d][x]] > 0 /\ s[d] > 0,
         NEW f, SetEntry(e, d, x, none, f),
         NEW m, LessLinks(k, n, d, e[d][x], m)
  PROVE  InvOf(k, m, f, u, s)
<1>0. PICK o : o = e[d][x]
  OBVIOUS
<1>1. /\ k \in [NmInos -> {"free", "reg", "dir"}] /\ n \in [NmInos -> Int]
      /\ e \in EntTable /\ u \in [NmInos -> NmInos] /\ s \in [NmInos -> Nat]
      /\ Kinds(k, n, e, u, s) /\ OneName(k, e, u, s)
      /\ Reached(k, e, s) /\ Counted(k, n, e, s)
      /\ \A j \in NmInos : Cardinality(NamesOf(e, j)) \in Nat /\ Cardinality(SubsOf(k, e, j)) \in Nat
  BY InvParts
<1>2. o \in NmInos /\ k[d] = "dir" /\ k[o] \in {"reg", "dir"} /\ o # d
  BY <1>0, EntryFacts
<1>3. f \in EntTable /\ \A c \in NmInos, y \in Entries : f[c][y] = IF c = d /\ y = x THEN none ELSE e[c][y]
  BY DEF SetEntry
<1>a. k[o] = "dir" => s[o] > 0 /\ s[d] > 0
  BY <1>0
<1>b. m \in [NmInos -> Int] /\ \A j \in NmInos : m[j] = n[j] - One(j = o) - One(j = d /\ k[o] = "dir")
  BY <1>0 DEF LessLinks
<1>c. e[d][x] = o
  BY <1>0
<1>4. ASSUME NEW c \in NmInos, NEW y \in Entries
      PROVE  Leads(k, f, c, y) <=> Leads(k, e, c, y) /\ ~(c = d /\ y = x)
  BY <1>3, <1>4 DEF Leads
<1>5. Types(k, m, f, u, s)
  BY <1>1, <1>3, <1>b DEF Types
<1>6. Kinds(k, m, f, u, s)
  <2>1. ASSUME NEW j \in NmInos, k[j] # "dir"
        PROVE  f[j] = NoEntries
    <3>1. f[j] = e[j]
      BY <1>1, <1>2, <2>1, SetRow
    <3> QED
      BY <1>1, <2>1, <3>1 DEF Kinds
  <2>2. ASSUME NEW c \in NmInos, NEW y \in Entries, f[c][y] # none
        PROVE  k[f[c][y]] # "free" /\ f[c][y] # c
    BY <1>1, <1>3, <2>2 DEF Kinds
  <2>3. ASSUME NEW j \in NmInos, k[j] = "free"
        PROVE  m[j] = 0 /\ s[j] = 0
    <3>1. j # o /\ j # d /\ n[j] = 0 /\ s[j] = 0
      BY <1>1, <1>2, <2>3 DEF Kinds
    <3> QED
      BY <1>b, <3>1 DEF One
  <2> QED
    BY <1>1, <2>1, <2>2, <2>3 DEF Kinds
<1>7. OneName(k, f, u, s)
  <2>1. ASSUME NEW a \in NmInos, NEW c \in NmInos, NEW y \in Entries, NEW z \in Entries,
               Leads(k, f, a, y), f[a][y] = f[c][z]
        PROVE  a = c /\ y = z
    <3>1. Leads(k, e, a, y) /\ f[a][y] = e[a][y] /\ f[c][z] # none
      BY <1>3, <1>4, <2>1 DEF Leads
    <3>2. e[a][y] = e[c][z]
      BY <1>3, <2>1, <3>1
    <3>3. OneName(k, e, u, s)
      BY <1>1
    <3> QED
      BY <3>1, <3>2, <3>3 DEF OneName
  <2>2. ASSUME NEW a \in NmInos, NEW y \in Entries, Leads(k, f, a, y)
        PROVE  f[a][y] # root /\ u[f[a][y]] = a
    <3>1. Leads(k, e, a, y) /\ f[a][y] = e[a][y]
      BY <1>3, <1>4, <2>2 DEF Leads
    <3> QED
      BY <1>1, <3>1 DEF OneName
  <2>3. ASSUME NEW j \in NmInos \ {root}, k[j] = "dir", ~(s[u[j]] > 0)
        PROVE  \E y \in Entries : f[u[j]][y] = j
    <3>1. PICK y \in Entries : e[u[j]][y] = j
      BY <1>1, <2>3 DEF OneName
    <3>2. u[j] \in NmInos /\ u[j] \in NmInos
      BY <1>1
    <3>3. ~(u[j] = d /\ y = x)
      <4>1. SUFFICES ASSUME u[j] = d, y = x
                     PROVE  FALSE
        OBVIOUS
      <4>2. j = o
        BY <1>c, <3>1, <4>1
      <4> QED
        BY <1>a, <2>3, <4>1, <4>2
    <3>4. f[u[j]][y] = j
      BY <1>3, <3>1, <3>2, <3>3
    <3> QED
      BY <3>4
  <2> QED
    BY <2>1, <2>2, <2>3 DEF OneName
<1>8. Reached(k, f, s)
  <2>1. ASSUME NEW T \in SUBSET NmInos, DirClosed(k, f, s, T)
        PROVE  DirClosed(k, e, s, T)
    <3>1. ASSUME NEW c \in T, NEW y \in Entries, Leads(k, e, c, y)
          PROVE  e[c][y] \in T
      <4>1. c \in NmInos
        OBVIOUS
      <4>2. CASE c = d /\ y = x
        <5>1. e[c][y] = o /\ k[o] = "dir"
          BY <1>c, <3>1, <4>2 DEF Leads
        <5> QED
          BY <1>2, <1>a, <2>1, <5>1 DEF DirClosed
      <4>3. CASE ~(c = d /\ y = x)
        BY <1>3, <1>4, <2>1, <3>1, <4>1, <4>3 DEF DirClosed
      <4> QED
        BY <4>2, <4>3
    <3> QED
      BY <2>1, <3>1 DEF DirClosed
  <2> QED
    BY <1>1, <2>1 DEF Reached
<1>9. ASSUME NEW j \in NmInos, k[j] # "free"
      PROVE  m[j] = LinksOf(k, f, s, j)
  <2>a. e \in EntTable /\ none \in NmInos \cup {none} /\ SetEntry(e, d, x, none, f)
    BY <1>1
  <2>1. NamesLaw(e, d, x, none, f, j)
    BY <2>a, NamesChange
  <2>2. SubsLaw(k, e, d, x, none, f, j)
    BY <2>a, SubsChange
  <2>3. n[j] = LinksOf(k, e, s, j)
    BY <1>1, <1>9 DEF Counted
  <2>4. none # j /\ none # o
    BY <1>2, NamesAssumption DEF NamesAssumption
  <2>5. Cardinality(NamesOf(f, j)) = Cardinality(NamesOf(e, j)) - One(j = o)
    BY <1>1, <1>c, <2>1, <2>4 DEF One, NamesLaw
  <2>6. Cardinality(SubsOf(k, f, j)) = Cardinality(SubsOf(k, e, j)) - One(j = d /\ k[o] = "dir")
    BY <1>1, <1>c, <2>2, <2>4 DEF One, IsSub, SubsLaw
  <2>7. m[j] = n[j] - One(j = o) - One(j = d /\ k[o] = "dir")
    BY <1>b
  <2>8. j = d => k[j] = "dir"
    BY <1>2
  <2> QED
    BY <1>1, <2>3, <2>5, <2>6, <2>7, <2>8 DEF LinksOf, One
<1> QED
  BY <1>5, <1>6, <1>7, <1>8, <1>9 DEF InvOf, Counted

\* A failed rename: a link that is counted without a name.
LEMMA StrayAdds ==
  ASSUME NEW k, NEW n, NEW e, NEW u, NEW s, InvOf(k, n, e, u, s),
         NEW i \in NmInos, k[i] # "free"
  PROVE  InvOf(k, Plus(n, i, 1), e, u, Plus(s, i, 1))
<1> DEFINE m == Plus(n, i, 1)
           t == Plus(s, i, 1)
<1>1. /\ k \in [NmInos -> {"free", "reg", "dir"}] /\ n \in [NmInos -> Int]
      /\ e \in EntTable /\ u \in [NmInos -> NmInos] /\ s \in [NmInos -> Nat]
      /\ Kinds(k, n, e, u, s) /\ OneName(k, e, u, s)
      /\ Reached(k, e, s) /\ Counted(k, n, e, s)
      /\ \A j \in NmInos : Cardinality(NamesOf(e, j)) \in Nat /\ Cardinality(SubsOf(k, e, j)) \in Nat
  BY InvParts
<1>2. /\ m \in [NmInos -> Int] /\ \A j \in NmInos : m[j] = IF j = i THEN n[j] + 1 ELSE n[j]
      /\ t \in [NmInos -> Nat] /\ \A j \in NmInos : t[j] = IF j = i THEN s[j] + 1 ELSE s[j]
  BY <1>1 DEF Plus
<1> HIDE DEF m, t
<1>3. \A j \in NmInos : s[j] > 0 => t[j] > 0
  BY <1>1, <1>2
<1>5. Types(k, m, e, u, t)
  BY <1>1, <1>2 DEF Types
<1>6. Kinds(k, m, e, u, t)
  BY <1>1, <1>2 DEF Kinds
<1>7. OneName(k, e, u, t)
  BY <1>1, <1>3 DEF OneName
<1>8. Reached(k, e, t)
  BY <1>1, <1>3 DEF Reached, DirClosed
<1>9. Counted(k, m, e, t)
  <2>1. ASSUME NEW j \in NmInos, k[j] # "free"
        PROVE  m[j] = LinksOf(k, e, t, j)
    BY <1>1, <1>2, <2>1 DEF LinksOf, Counted, One
  <2> QED
    BY <2>1 DEF Counted
<1> QED
  BY <1>5, <1>6, <1>7, <1>8, <1>9 DEF InvOf, m, t

\* A directory gets another name where it is.
LEMMA MoveDir ==
  ASSUME NEW k, NEW n, NEW e, NEW u, NEW s, InvOf(k, n, e, u, s),
         NEW d \in NmInos, NEW x \in Entries, NEW y \in Entries, NEW i \in NmInos,
         e[d][x] = i, k[i] = "dir", e[d][y] = none,
         NEW g, SetEntry(e, d, y, i, g), NEW f, SetEntry(g, d, x, none, f)
  PROVE  InvOf(k, n, f, u, s)
<1>1. /\ k \in [NmInos -> {"free", "reg", "dir"}] /\ n \in [NmInos -> Int]
      /\ e \in EntTable /\ u \in [NmInos -> NmInos] /\ s \in [NmInos -> Nat]
      /\ Kinds(k, n, e, u, s) /\ OneName(k, e, u, s)
      /\ Reached(k, e, s) /\ Counted(k, n, e, s)
      /\ \A j \in NmInos : Cardinality(NamesOf(e, j)) \in Nat /\ Cardinality(SubsOf(k, e, j)) \in Nat
  BY InvParts
<1>2. i # none
  BY NamesAssumption DEF NamesAssumption
<1>3. k[d] = "dir" /\ i # d /\ x # y
  BY <1>2, EntryFacts
<1>4. /\ f \in EntTable /\ g \in EntTable
      /\ \A c \in NmInos, z \in Entries :
           f[c][z] = IF c = d /\ z = x THEN none ELSE IF c = d /\ z = y THEN i ELSE e[c][z]
  BY DEF SetEntry
<1>5. \A c \in NmInos, z \in Entries :
        Leads(k, f, c, z) <=> \/ c = d /\ z = y
                              \/ Leads(k, e, c, z) /\ ~(c = d /\ z = x)
  BY <1>2, <1>3, <1>4 DEF Leads
<1>6. Leads(k, e, d, x)
  BY <1>2 DEF Leads
<1>7. i # root /\ u[i] = d
  BY <1>1, <1>6 DEF OneName
<1>8. \A c \in NmInos, z \in Entries : e[c][z] = i => c = d /\ z = x
  BY <1>1, <1>6 DEF OneName
<1>9. Types(k, n, f, u, s)
  BY <1>1, <1>4 DEF Types
<1>10. Kinds(k, n, f, u, s)
  <2>1. ASSUME NEW j \in NmInos, k[j] # "dir"
        PROVE  f[j] = NoEntries
    <3>1. g[j] = e[j] /\ f[j] = g[j]
      BY <1>1, <1>3, <1>4, <2>1, SetRow
    <3> QED
      BY <1>1, <2>1, <3>1 DEF Kinds
  <2>2. ASSUME NEW c \in NmInos, NEW z \in Entries, f[c][z] # none
        PROVE  k[f[c][z]] # "free" /\ f[c][z] # c
    BY <1>1, <1>3, <1>4, <2>2 DEF Kinds
  <2> QED
    BY <1>1, <2>1, <2>2 DEF Kinds
<1>11. OneName(k, f, u, s)
  <2>1. ASSUME NEW a \in NmInos, NEW c \in NmInos, NEW z \in Entries, NEW w \in Entries,
               Leads(k, f, a, z), f[a][z] = f[c][w]
        PROVE  a = c /\ z = w
    <3>1. CASE f[a][z] = i
      <4>1. ASSUME NEW b \in NmInos, NEW t \in Entries, f[b][t] = i
            PROVE  b = d /\ t = y
        <5>1. f[b][t] = IF b = d /\ t = x THEN none ELSE IF b = d /\ t = y THEN i ELSE e[b][t]
          BY <1>4
        <5> QED
          BY <1>2, <1>8, <4>1, <5>1
      <4> QED
        BY <2>1, <3>1, <4>1
    <3>2. CASE f[a][z] # i
      <4>1. Leads(k, e, a, z) /\ f[a][z] = e[a][z] /\ f[c][w] # none
        BY <1>4, <1>5, <2>1, <3>2 DEF Leads
      <4>2. e[a][z] = e[c][w]
        BY <1>4, <2>1, <3>2, <4>1
      <4>3. OneName(k, e, u, s)
        BY <1>1
      <4> QED
        BY <4>1, <4>2, <4>3 DEF OneName
    <3> QED
      BY <3>1, <3>2
  <2>2. ASSUME NEW a \in NmInos, NEW z \in Entries, Leads(k, f, a, z)
        PROVE  f[a][z] # root /\ u[f[a][z]] = a
    <3>1. CASE a = d /\ z = y
      BY <1>3, <1>4, <1>7, <3>1
    <3>2. CASE ~(a = d /\ z = y)
      <4>1. Leads(k, e, a, z) /\ f[a][z] = e[a][z]
        BY <1>4, <1>5, <2>2, <3>2
      <4> QED
        BY <1>1, <4>1 DEF OneName
    <3> QED
      BY <3>1, <3>2
  <2>3. ASSUME NEW j \in NmInos \ {root}, k[j] = "dir", ~(s[u[j]] > 0)
        PROVE  \E z \in Entries : f[u[j]][z] = j
    <3>1. CASE j = i
      <4>1. f[d][y] = i
        BY <1>3, <1>4
      <4> QED
        BY <1>7, <3>1, <4>1
    <3>2. CASE j # i
      <4>1. PICK z \in Entries : e[u[j]][z] = j
        BY <1>1, <2>3 DEF OneName
      <4>2. u[j] \in NmInos /\ j # none
        BY <1>1, NamesAssumption DEF NamesAssumption
      <4>3. f[u[j]][z] = j
        BY <1>4, <3>2, <4>1, <4>2
      <4> QED
        BY <4>3
    <3> QED
      BY <3>1, <3>2
  <2> QED
    BY <2>1, <2>2, <2>3 DEF OneName
<1>12. Reached(k, f, s)
  <2>1. ASSUME NEW T \in SUBSET NmInos, DirClosed(k, f, s, T)
        PROVE  DirClosed(k, e, s, T)
    <3>1. ASSUME NEW c \in T, NEW z \in Entries, Leads(k, e, c, z)
          PROVE  e[c][z] \in T
      <4>1. c \in NmInos
        OBVIOUS
      <4>2. CASE c = d /\ z = x
        <5>1. e[c][z] = i /\ Leads(k, f, c, y) /\ f[c][y] = i
          BY <1>3, <1>4, <1>5, <4>1, <4>2
        <5> QED
          BY <2>1, <5>1 DEF DirClosed
      <4>3. CASE ~(c = d /\ z = x)
        <5>1. Leads(k, f, c, z) /\ f[c][z] = e[c][z]
          BY <1>4, <1>5, <3>1, <4>1, <4>3 DEF Leads
        <5> QED
          BY <2>1, <5>1 DEF DirClosed
      <4> QED
        BY <4>2, <4>3
    <3> QED
      BY <2>1, <3>1 DEF DirClosed
  <2> QED
    BY <1>1, <2>1 DEF Reached
<1>13. ASSUME NEW j \in NmInos, k[j] # "free"
       PROVE  n[j] = LinksOf(k, f, s, j)
  <2>1. /\ NamesLaw(e, d, y, i, g, j) /\ SubsLaw(k, e, d, y, i, g, j)
        /\ none \in NmInos \cup {none}
    BY <1>1, NamesChange, SubsChange
  <2>2. NamesLaw(g, d, x, none, f, j) /\ SubsLaw(k, g, d, x, none, f, j)
    BY <1>4, <2>1, NamesChange, SubsChange
  <2>3. g[d][x] = i /\ none # j
    BY <1>3, NamesAssumption DEF SetEntry, NamesAssumption
  <2>4. Cardinality(NamesOf(f, j)) = Cardinality(NamesOf(e, j))
    BY <1>1, <1>2, <2>1, <2>2, <2>3 DEF NamesLaw
  <2>5. Cardinality(SubsOf(k, f, j)) = Cardinality(SubsOf(k, e, j))
    BY <1>1, <1>2, <2>1, <2>2, <2>3 DEF SubsLaw, IsSub
  <2>6. n[j] = LinksOf(k, e, s, j)
    BY <1>1, <1>13 DEF Counted
  <2> QED
    BY <2>4, <2>5, <2>6 DEF LinksOf
<1> QED
  BY <1>9, <1>10, <1>11, <1>12, <1>13 DEF InvOf, Counted

\* An empty directory becomes a plain file without its name.
LEMMA RemoveDir ==
  ASSUME NEW k, NEW n, NEW e, NEW u, NEW s, InvOf(k, n, e, u, s),
         NEW d \in NmInos, NEW x \in Entries, NEW i \in NmInos,
         e[d][x] = i, k[i] = "dir", e[i] = NoEntries,
         NEW f, SetEntry(e, d, x, none, f)
  PROVE  InvOf([k EXCEPT ![i] = "reg"], Plus(Plus(n, i, -2), d, -1), f, u, s)
<1>1. /\ k \in [NmInos -> {"free", "reg", "dir"}] /\ n \in [NmInos -> Int]
      /\ e \in EntTable /\ u \in [NmInos -> NmInos] /\ s \in [NmInos -> Nat]
      /\ Kinds(k, n, e, u, s) /\ OneName(k, e, u, s)
      /\ Reached(k, e, s) /\ Counted(k, n, e, s)
      /\ \A j \in NmInos : Cardinality(NamesOf(e, j)) \in Nat /\ Cardinality(SubsOf(k, e, j)) \in Nat
  BY InvParts
<1>2. i # none
  BY NamesAssumption DEF NamesAssumption
<1>3. k[d] = "dir" /\ i # d
  BY <1>2, EntryFacts
<1> DEFINE q == [k EXCEPT ![i] = "reg"]
           m == Plus(Plus(n, i, -2), d, -1)
<1>4. /\ q \in [NmInos -> {"free", "reg", "dir"}]
      /\ \A j \in NmInos : q[j] = IF j = i THEN "reg" ELSE k[j]
  BY <1>1
<1>5. /\ m \in [NmInos -> Int]
      /\ \A j \in NmInos : m[j] = IF j = i THEN n[j] - 2 ELSE IF j = d THEN n[j] - 1 ELSE n[j]
  BY <1>1, <1>3 DEF Plus
<1> HIDE DEF q, m
<1>6. f \in EntTable /\ \A c \in NmInos, y \in Entries : f[c][y] = IF c = d /\ y = x THEN none ELSE e[c][y]
  BY DEF SetEntry
<1>7. Leads(k, e, d, x)
  BY <1>2 DEF Leads
<1>8. i # root /\ u[i] = d
  BY <1>1, <1>7 DEF OneName
<1>9. \A c \in NmInos, z \in Entries : f[c][z] # i
  <2>1. \A c \in NmInos, z \in Entries : e[c][z] = i => c = d /\ z = x
    BY <1>1, <1>7 DEF OneName
  <2> QED
    BY <1>2, <1>6, <2>1
<1>10. \A c \in NmInos, z \in Entries :
         /\ Leads(q, f, c, z) <=> Leads(k, f, c, z)
         /\ Leads(k, f, c, z) <=> Leads(k, e, c, z) /\ ~(c = d /\ z = x)
  <2>1. ASSUME NEW c \in NmInos, NEW z \in Entries
        PROVE  Leads(q, f, c, z) <=> Leads(k, f, c, z)
    <3>1. f[c][z] \in NmInos \cup {none} /\ f[c][z] # i
      BY <1>6, <1>9 DEF EntTable
    <3> QED
      BY <1>4, <3>1 DEF Leads
  <2> QED
    BY <1>6, <2>1 DEF Leads
<1>11. f[i] = NoEntries
  BY <1>1, <1>3, SetRow
<1>12. Types(q, m, f, u, s)
  BY <1>1, <1>4, <1>5, <1>6 DEF Types
<1>13. Kinds(q, m, f, u, s)
  <2>1. ASSUME NEW j \in NmInos, q[j] # "dir"
        PROVE  f[j] = NoEntries
    <3>1. CASE j = i
      BY <1>11, <3>1
    <3>2. CASE j # i
      <4>1. k[j] # "dir" /\ j # d
        BY <1>3, <1>4, <2>1, <3>2
      <4>2. f[j] = e[j]
        BY <1>1, <4>1, SetRow
      <4> QED
        BY <1>1, <4>1, <4>2 DEF Kinds
    <3> QED
      BY <3>1, <3>2
  <2>2. ASSUME NEW c \in NmInos, NEW z \in Entries, f[c][z] # none
        PROVE  q[f[c][z]] # "free" /\ f[c][z] # c
    <3>1. f[c][z] = e[c][z] /\ f[c][z] \in NmInos /\ f[c][z] # i
      BY <1>6, <1>9, <2>2 DEF EntTable
    <3>2. k[e[c][z]] # "free" /\ e[c][z] # c
      BY <1>1, <2>2, <3>1 DEF Kinds
    <3> QED
      BY <1>4, <3>1, <3>2
  <2>3. ASSUME NEW j \in NmInos, q[j] = "free"
        PROVE  m[j] = 0 /\ s[j] = 0
    <3>1. j # i /\ j # d /\ k[j] = "free"
      BY <1>3, <1>4, <2>3
    <3> QED
      BY <1>1, <1>5, <3>1 DEF Kinds
  <2>4. q[root] = "dir" /\ u[root] = root
    BY <1>1, <1>4, <1>8, NamesAssumption DEF Kinds, NamesAssumption
  <2> QED
    BY <2>1, <2>2, <2>3, <2>4 DEF Kinds
<1>14. OneName(q, f, u, s)
  <2>1. ASSUME NEW a \in NmInos, NEW c \in NmInos, NEW z \in Entries, NEW w \in Entries,
               Leads(q, f, a, z), f[a][z] = f[c][w]
        PROVE  a = c /\ z = w
    <3>1. Leads(k, e, a, z) /\ f[a][z] = e[a][z] /\ f[c][w] # none
      BY <1>6, <1>10, <2>1 DEF Leads
    <3>2. e[a][z] = e[c][w]
      BY <1>6, <2>1, <3>1
    <3>3. OneName(k, e, u, s)
      BY <1>1
    <3> QED
      BY <3>1, <3>2, <3>3 DEF OneName
  <2>2. ASSUME NEW a \in NmInos, NEW z \in Entries, Leads(q, f, a, z)
        PROVE  f[a][z] # root /\ u[f[a][z]] = a
    <3>1. Leads(k, e, a, z) /\ f[a][z] = e[a][z]
      BY <1>6, <1>10, <2>2
    <3> QED
      BY <1>1, <3>1 DEF OneName
  <2>3. ASSUME NEW j \in NmInos \ {root}, q[j] = "dir", ~(s[u[j]] > 0)
        PROVE  \E z \in Entries : f[u[j]][z] = j
    <3>1. k[j] = "dir" /\ j # i
      BY <1>4, <2>3
    <3>2. PICK z \in Entries : e[u[j]][z] = j
      BY <1>1, <2>3, <3>1 DEF OneName
    <3>3. u[j] \in NmInos /\ ~(u[j] = d /\ z = x)
      BY <1>1, <3>1, <3>2
    <3>4. f[u[j]][z] = j
      BY <1>6, <3>2, <3>3
    <3> QED
      BY <3>4
  <2> QED
    BY <2>1, <2>2, <2>3 DEF OneName
<1>15. Reached(q, f, s)
  <2>1. ASSUME NEW T \in SUBSET NmInos, DirClosed(q, f, s, T)
        PROVE  DirClosed(k, e, s, T \cup {i})
    <3>1. ASSUME NEW c \in T \cup {i}, NEW z \in Entries, Leads(k, e, c, z)
          PROVE  e[c][z] \in T \cup {i}
      <4>1. c \in NmInos /\ c # i
        BY <3>1 DEF Leads, NoEntries
      <4>2. CASE c = d /\ z = x
        BY <4>2
      <4>3. CASE ~(c = d /\ z = x)
        <5>1. Leads(q, f, c, z) /\ f[c][z] = e[c][z] /\ c \in T
          BY <1>6, <1>10, <3>1, <4>1, <4>3
        <5> QED
          BY <2>1, <5>1 DEF DirClosed
      <4> QED
        BY <4>2, <4>3
    <3> QED
      BY <2>1, <3>1 DEF DirClosed
  <2>2. ASSUME NEW T \in SUBSET NmInos, DirClosed(q, f, s, T), NEW j \in NmInos, q[j] = "dir"
        PROVE  j \in T
    <3>1. DirClosed(k, e, s, T \cup {i}) /\ T \cup {i} \in SUBSET NmInos
      BY <2>1, <2>2
    <3>2. k[j] = "dir" /\ j # i
      BY <1>4, <2>2
    <3>3. j \in T \cup {i}
      BY <1>1, <3>1, <3>2 DEF Reached
    <3> QED
      BY <3>2, <3>3
  <2> QED
    BY <2>2 DEF Reached
<1>16. ASSUME NEW j \in NmInos, q[j] # "free"
       PROVE  m[j] = LinksOf(q, f, s, j)
  <2>1. k[j] # "free"
    BY <1>4, <1>16
  <2>2. n[j] = LinksOf(k, e, s, j)
    BY <1>1, <2>1 DEF Counted
  <2>3. none \in NmInos \cup {none} /\ none # j
    BY NamesAssumption DEF NamesAssumption
  <2>4. NamesLaw(e, d, x, none, f, j) /\ SubsLaw(k, e, d, x, none, f, j)
    BY <1>1, <2>3, NamesChange, SubsChange
  <2>5. Cardinality(NamesOf(f, j)) = Cardinality(NamesOf(e, j)) - (IF i = j THEN 1 ELSE 0)
    BY <1>1, <2>3, <2>4 DEF NamesLaw
  <2>6. Cardinality(SubsOf(k, f, j)) = Cardinality(SubsOf(k, e, j)) - (IF j = d THEN 1 ELSE 0)
    BY <1>1, <1>2, <2>4 DEF SubsLaw, IsSub
  <2>7. SubsOf(q, f, j) = SubsOf(k, f, j)
    BY <1>10 DEF SubsOf
  <2>8. Cardinality(SubsOf(k, e, i)) = 0
    <3>1. \A z \in Entries : ~Leads(k, e, i, z)
      BY DEF Leads, NoEntries
    <3> QED
      BY <1>1, <3>1, CountsType
  <2>9. CASE j = i
    BY <1>1, <1>3, <1>4, <1>5, <2>2, <2>5, <2>8, <2>9 DEF LinksOf, One
  <2>10. CASE j = d
    BY <1>1, <1>3, <1>4, <1>5, <2>2, <2>5, <2>6, <2>7, <2>10 DEF LinksOf, One
  <2>11. CASE j # i /\ j # d
    BY <1>1, <1>4, <1>5, <2>2, <2>5, <2>6, <2>7, <2>11 DEF LinksOf, One
  <2> QED
    BY <2>9, <2>10, <2>11
<1> QED
  BY <1>12, <1>13, <1>14, <1>15, <1>16 DEF InvOf, Counted, q, m

\* The free inode i becomes a file or, below d, a directory.
Born(k, n, u, d, i, q, m, v) ==
  /\ q \in [NmInos -> {"free", "reg", "dir"}] /\ m \in [NmInos -> Int] /\ v \in [NmInos -> NmInos]
  /\ q[i] # "free" /\ \A j \in NmInos \ {i} : q[j] = k[j] /\ v[j] = u[j]
  /\ m[i] = 1 + (IF q[i] = "dir" THEN 1 ELSE 0)
  /\ m[d] = n[d] + (IF q[i] = "dir" THEN 1 ELSE 0)
  /\ \A j \in NmInos \ {i, d} : m[j] = n[j]
  /\ q[i] = "dir" => v[i] = d

\* A new inode, a regular file or a directory, gets its first name.
LEMMA NewName ==
  ASSUME NEW k, NEW n, NEW e, NEW u, NEW s, InvOf(k, n, e, u, s),
         NEW d \in NmInos, NEW x \in Entries, NEW i \in NmInos,
         k[d] = "dir", e[d][x] = none, k[i] = "free",
         NEW q, NEW m, NEW v, Born(k, n, u, d, i, q, m, v),
         NEW f, SetEntry(e, d, x, i, f)
  PROVE  InvOf(q, m, f, v, s)
<1>0. /\ q \in [NmInos -> {"free", "reg", "dir"}] /\ m \in [NmInos -> Int] /\ v \in [NmInos -> NmInos]
      /\ q[i] # "free" /\ \A j \in NmInos \ {i} : q[j] = k[j] /\ v[j] = u[j]
      /\ m[i] = 1 + (IF q[i] = "dir" THEN 1 ELSE 0)
      /\ m[d] = n[d] + (IF q[i] = "dir" THEN 1 ELSE 0)
      /\ \A j \in NmInos \ {i, d} : m[j] = n[j]
      /\ q[i] = "dir" => v[i] = d
  BY DEF Born
<1>1. /\ k \in [NmInos -> {"free", "reg", "dir"}] /\ n \in [NmInos -> Int]
      /\ e \in EntTable /\ u \in [NmInos -> NmInos] /\ s \in [NmInos -> Nat]
      /\ Kinds(k, n, e, u, s) /\ OneName(k, e, u, s)
      /\ Reached(k, e, s) /\ Counted(k, n, e, s)
      /\ \A j \in NmInos : Cardinality(NamesOf(e, j)) \in Nat /\ Cardinality(SubsOf(k, e, j)) \in Nat
  BY InvParts
<1>2. i # none /\ root \in NmInos /\ none \notin NmInos
  BY NamesAssumption DEF NamesAssumption
<1>3. i # d /\ i # root
  BY <1>1 DEF Kinds
<1>4. f \in EntTable /\ \A c \in NmInos, y \in Entries : f[c][y] = IF c = d /\ y = x THEN i ELSE e[c][y]
  BY DEF SetEntry
<1>5. \A c \in NmInos, y \in Entries : e[c][y] # i
  BY <1>1, <1>2 DEF Kinds
<1>6. e[i] = NoEntries /\ s[i] = 0 /\ n[i] = 0
  BY <1>1 DEF Kinds
<1>7. \A c \in NmInos, y \in Entries :
         /\ Leads(q, e, c, y) <=> Leads(k, e, c, y)
         /\ Leads(q, f, c, y) <=> Leads(k, e, c, y) \/ (c = d /\ y = x /\ q[i] = "dir")
  <2>1. ASSUME NEW c \in NmInos, NEW y \in Entries
        PROVE  Leads(q, e, c, y) <=> Leads(k, e, c, y)
    <3>1. e[c][y] \in NmInos \cup {none} /\ e[c][y] # i
      BY <1>1, <1>5 DEF EntTable
    <3> QED
      BY <1>0, <3>1 DEF Leads
  <2>2. ASSUME NEW c \in NmInos, NEW y \in Entries
        PROVE  Leads(q, f, c, y) <=> Leads(k, e, c, y) \/ (c = d /\ y = x /\ q[i] = "dir")
    BY <1>2, <1>4, <2>1 DEF Leads
  <2> QED
    BY <2>1, <2>2
<1>8. Types(q, m, f, v, s)
  BY <1>0, <1>1, <1>4 DEF Types
<1>9. Kinds(q, m, f, v, s)
  <2>1. ASSUME NEW j \in NmInos, q[j] # "dir"
        PROVE  f[j] = NoEntries
    <3>1. j # d /\ (j = i \/ k[j] # "dir")
      BY <1>0, <1>3, <2>1
    <3>2. f[j] = e[j]
      BY <1>1, <3>1, SetRow
    <3> QED
      BY <1>1, <1>6, <3>1, <3>2 DEF Kinds
  <2>2. ASSUME NEW c \in NmInos, NEW y \in Entries, f[c][y] # none
        PROVE  q[f[c][y]] # "free" /\ f[c][y] # c
    <3>1. CASE c = d /\ y = x
      BY <1>0, <1>3, <1>4, <3>1
    <3>2. CASE ~(c = d /\ y = x)
      <4>1. f[c][y] = e[c][y] /\ e[c][y] \in NmInos /\ e[c][y] # i
        BY <1>1, <1>4, <1>5, <2>2, <3>2 DEF EntTable
      <4>2. k[e[c][y]] # "free" /\ e[c][y] # c
        BY <1>1, <2>2, <4>1 DEF Kinds
      <4> QED
        BY <1>0, <4>1, <4>2
    <3> QED
      BY <3>1, <3>2
  <2>3. ASSUME NEW j \in NmInos, q[j] = "free"
        PROVE  m[j] = 0 /\ s[j] = 0
    <3>1. j # i /\ j # d /\ k[j] = "free"
      BY <1>0, <1>3, <2>3
    <3> QED
      BY <1>0, <1>1, <3>1 DEF Kinds
  <2>4. q[root] = "dir" /\ v[root] = root
    BY <1>0, <1>1, <1>2, <1>3 DEF Kinds
  <2> QED
    BY <2>1, <2>2, <2>3, <2>4 DEF Kinds
<1>10. OneName(q, f, v, s)
  <2>1. ASSUME NEW a \in NmInos, NEW c \in NmInos, NEW y \in Entries, NEW z \in Entries,
               Leads(q, f, a, y), f[a][y] = f[c][z]
        PROVE  a = c /\ y = z
    <3>1. CASE f[a][y] = i
      <4>1. ASSUME NEW b \in NmInos, NEW t \in Entries, f[b][t] = i
            PROVE  b = d /\ t = x
        <5>1. f[b][t] = IF b = d /\ t = x THEN i ELSE e[b][t]
          BY <1>4
        <5> QED
          BY <1>5, <4>1, <5>1
      <4> QED
        BY <2>1, <3>1, <4>1
    <3>2. CASE f[a][y] # i
      <4>1. Leads(k, e, a, y) /\ f[a][y] = e[a][y]
        BY <1>4, <1>7, <2>1, <3>2
      <4>2. e[a][y] = e[c][z]
        BY <1>4, <2>1, <3>2, <4>1
      <4>3. OneName(k, e, u, s)
        BY <1>1
      <4> QED
        BY <4>1, <4>2, <4>3 DEF OneName
    <3> QED
      BY <3>1, <3>2
  <2>2. ASSUME NEW a \in NmInos, NEW y \in Entries, Leads(q, f, a, y)
        PROVE  f[a][y] # root /\ v[f[a][y]] = a
    <3>1. CASE a = d /\ y = x
      <4>1. f[a][y] = i /\ q[i] = "dir"
        BY <1>4, <2>2, <3>1 DEF Leads
      <4> QED
        BY <1>0, <1>3, <3>1, <4>1
    <3>2. CASE ~(a = d /\ y = x)
      <4>1. Leads(k, e, a, y) /\ f[a][y] = e[a][y] /\ e[a][y] \in NmInos \ {i}
        BY <1>1, <1>4, <1>5, <1>7, <2>2, <3>2 DEF EntTable, Leads
      <4>2. e[a][y] # root /\ u[e[a][y]] = a
        BY <1>1, <4>1 DEF OneName
      <4> QED
        BY <1>0, <4>1, <4>2
    <3> QED
      BY <3>1, <3>2
  <2>3. ASSUME NEW j \in NmInos \ {root}, q[j] = "dir", ~(s[v[j]] > 0)
        PROVE  \E y \in Entries : f[v[j]][y] = j
    <3>1. CASE j = i
      <4>1. v[j] = d /\ f[d][x] = i
        BY <1>0, <1>4, <2>3, <3>1
      <4> QED
        BY <3>1, <4>1
    <3>2. CASE j # i
      <4>1. k[j] = "dir" /\ v[j] = u[j] /\ u[j] \in NmInos
        BY <1>0, <1>1, <2>3, <3>2
      <4>2. PICK y \in Entries : e[u[j]][y] = j
        BY <1>1, <2>3, <4>1 DEF OneName
      <4>3. j # none
        BY <1>2
      <4>4. f[v[j]][y] = j
        BY <1>4, <4>1, <4>2, <4>3
      <4> QED
        BY <4>4
    <3> QED
      BY <3>1, <3>2
  <2> QED
    BY <2>1, <2>2, <2>3 DEF OneName
<1>11. Reached(q, f, s)
  <2>1. ASSUME NEW T \in SUBSET NmInos, DirClosed(q, f, s, T)
        PROVE  DirClosed(k, e, s, T)
    <3>1. ASSUME NEW c \in T, NEW y \in Entries, Leads(k, e, c, y)
          PROVE  e[c][y] \in T
      <4>1. c \in NmInos /\ ~(c = d /\ y = x)
        BY <3>1 DEF Leads
      <4>2. Leads(q, f, c, y) /\ f[c][y] = e[c][y]
        BY <1>4, <1>7, <3>1, <4>1
      <4> QED
        BY <2>1, <4>2 DEF DirClosed
    <3> QED
      BY <2>1, <3>1 DEF DirClosed
  <2>2. ASSUME NEW T \in SUBSET NmInos, DirClosed(q, f, s, T), NEW j \in NmInos, q[j] = "dir"
        PROVE  j \in T
    <3>1. \A c \in NmInos : k[c] = "dir" => c \in T
      BY <1>1, <2>1, <2>2 DEF Reached
    <3>2. CASE j # i
      BY <1>0, <2>2, <3>1, <3>2
    <3>3. CASE j = i
      <4>1. Leads(q, f, d, x) /\ f[d][x] = i /\ d \in T
        BY <1>2, <1>4, <2>2, <3>1, <3>3 DEF Leads
      <4> QED
        BY <2>2, <3>3, <4>1 DEF DirClosed
    <3> QED
      BY <3>2, <3>3
  <2> QED
    BY <2>2 DEF Reached
<1>12. ASSUME NEW j \in NmInos, q[j] # "free"
       PROVE  m[j] = LinksOf(q, f, s, j)
  <2>1. NamesLaw(e, d, x, i, f, j) /\ SubsLaw(q, e, d, x, i, f, j)
    BY <1>1, NamesChange, SubsChange
  <2>2. none # j
    BY <1>2
  <2>3. Cardinality(NamesOf(f, j)) = Cardinality(NamesOf(e, j)) + (IF i = j THEN 1 ELSE 0)
    BY <1>1, <2>1, <2>2 DEF NamesLaw
  <2>4. SubsOf(q, e, j) = SubsOf(k, e, j)
    BY <1>7 DEF SubsOf
  <2>5. Cardinality(SubsOf(q, f, j)) = Cardinality(SubsOf(k, e, j))
                                         + (IF j = d /\ q[i] = "dir" THEN 1 ELSE 0)
    BY <1>1, <1>2, <2>1, <2>4 DEF SubsLaw, IsSub
  <2>6. CASE j = i
    <3>1. Cardinality(NamesOf(e, i)) = 0 /\ Cardinality(SubsOf(k, e, i)) = 0
      <4>1. \A z \in Entries : ~Leads(k, e, i, z)
        BY <1>6 DEF Leads, NoEntries
      <4> QED
        BY <1>1, <1>5, <4>1, CountsType
    <3> QED
      BY <1>0, <1>3, <1>6, <2>3, <2>5, <2>6, <3>1 DEF LinksOf, One
  <2>7. CASE j # i
    <3>1. n[j] = LinksOf(k, e, s, j) /\ q[j] = k[j]
      BY <1>0, <1>1, <1>12, <2>7 DEF Counted
    <3>2. m[j] = n[j] + (IF j = d /\ q[i] = "dir" THEN 1 ELSE 0)
      BY <1>0, <1>1, <2>7
    <3> QED
      BY <1>1, <2>3, <2>5, <2>7, <3>1, <3>2 DEF LinksOf, One
  <2> QED
    BY <2>6, <2>7
<1> QED
  BY <1>8, <1>9, <1>10, <1>11, <1>12 DEF InvOf, Counted

----------------------------------------------------------------------------
(* The calls.                                                               *)

LEMMA NmInvParts ==
  ASSUME NmInv
  PROVE  /\ InvOf(kind, nlink, ent, up, strays) /\ UseOf(kind, nlink, nmHeld)
         /\ kind \in [NmInos -> {"free", "reg", "dir"}] /\ nlink \in [NmInos -> Int]
         /\ ent \in EntTable /\ up \in [NmInos -> NmInos] /\ strays \in [NmInos -> Nat]
         /\ nmHeld \in [NmInos -> Nat] /\ \A i \in NmInos : nmHeld[i] > 0 => kind[i] # "free"
         /\ \A i \in NmInos : nlink[i] \in Nat
  BY LinksType DEF NmInv, InvOf, Types, UseOf

\* A free inode has no entries: dir_creat in its parent is all that changes.
LEMMA FreeEntries ==
  ASSUME NmInv, NEW d \in NmInos, NEW n \in Entries, NEW i \in NmInos, kind[i] = "free"
  PROVE  SetEntry(ent, d, n, i, DirCreat([ent EXCEPT ![i] = NoEntries], d, n, i)) /\ nlink[i] = 0
<1>1. Kinds(kind, nlink, ent, up, strays) /\ ent \in EntTable
  BY DEF NmInv, InvOf, Types
<1>2. ent[i] = NoEntries /\ nlink[i] = 0
  BY <1>1 DEF Kinds
<1>3. [ent EXCEPT ![i] = NoEntries] = ent
  BY <1>1, <1>2 DEF EntTable
<1>4. DirCreat([ent EXCEPT ![i] = NoEntries], d, n, i) = [ent EXCEPT ![d][n] = i]
  BY <1>3 DEF DirCreat
<1> QED
  BY <1>1, <1>2, <1>4, SetsEntry

LEMMA CreatKeeps ==
  ASSUME NmInv, NEW d \in NmInos, IsDir(d), NEW n \in Entries, NEW i \in NmInos, Creat(d, n, i)
  PROVE  NmInv'
<1>1. /\ InvOf(kind, nlink, ent, up, strays) /\ UseOf(kind, nlink, nmHeld)
      /\ kind \in [NmInos -> {"free", "reg", "dir"}] /\ nlink \in [NmInos -> Int]
      /\ up \in [NmInos -> NmInos] /\ nmHeld \in [NmInos -> Nat]
  BY NmInvParts
<1>2. kind[d] = "dir" /\ ent[d][n] = none /\ kind[i] = "free"
  BY DEF Creat, IsDir
<1>3. SetEntry(ent, d, n, i, ent') /\ nlink[i] = 0
  BY <1>2, FreeEntries DEF Creat
<1>4. /\ kind' \in [NmInos -> {"free", "reg", "dir"}]
      /\ \A j \in NmInos : kind'[j] = IF j = i THEN "reg" ELSE kind[j]
      /\ nlink' \in [NmInos -> Int]
      /\ \A j \in NmInos : nlink'[j] = IF j = i THEN 1 ELSE nlink[j]
  BY <1>1 DEF Creat
<1>5. up' = up /\ nmHeld' = nmHeld /\ strays' = strays
  BY DEF Creat
<1>6. InvOf(kind', nlink', ent', up, strays)
  <2>1. kind'[i] = "reg" /\ nlink'[i] = 1 /\ nlink'[d] = nlink[d]
    BY <1>2, <1>4
  <2>2. /\ kind'[i] # "free" /\ \A j \in NmInos \ {i} : kind'[j] = kind[j]
        /\ nlink'[i] = 1 + (IF kind'[i] = "dir" THEN 1 ELSE 0)
        /\ nlink'[d] = nlink[d] + (IF kind'[i] = "dir" THEN 1 ELSE 0)
        /\ \A j \in NmInos \ {i, d} : nlink'[j] = nlink[j]
        /\ kind'[i] = "dir" => up[i] = d
    BY <1>1, <1>4, <2>1
  <2>3. Born(kind, nlink, up, d, i, kind', nlink', up)
    BY <1>1, <1>4, <2>2 DEF Born
  <2> QED
    BY <1>1, <1>2, <1>3, <2>3, NewName
<1>7. UseOf(kind', nlink', nmHeld)
  BY <1>1, <1>2, <1>4 DEF UseOf
<1> QED
  BY <1>5, <1>6, <1>7 DEF NmInv

LEMMA MkdirKeeps ==
  ASSUME NmInv, NEW d \in NmInos, IsDir(d), NEW n \in Entries, NEW i \in NmInos, Mkdir(d, n, i)
  PROVE  NmInv'
<1>1. /\ InvOf(kind, nlink, ent, up, strays) /\ UseOf(kind, nlink, nmHeld)
      /\ kind \in [NmInos -> {"free", "reg", "dir"}] /\ nlink \in [NmInos -> Int]
      /\ up \in [NmInos -> NmInos] /\ nmHeld \in [NmInos -> Nat]
      /\ \A j \in NmInos : nlink[j] \in Nat
  BY NmInvParts
<1>2. kind[d] = "dir" /\ ent[d][n] = none /\ kind[i] = "free" /\ d # i
  BY DEF Mkdir, IsDir
<1>3. SetEntry(ent, d, n, i, ent') /\ nlink[i] = 0
  BY <1>2, FreeEntries DEF Mkdir
<1>4. /\ kind' \in [NmInos -> {"free", "reg", "dir"}]
      /\ \A j \in NmInos : kind'[j] = IF j = i THEN "dir" ELSE kind[j]
      /\ up' \in [NmInos -> NmInos] /\ \A j \in NmInos : up'[j] = IF j = i THEN d ELSE up[j]
  BY <1>1 DEF Mkdir
<1>5. /\ nlink' \in [NmInos -> Int]
      /\ \A j \in NmInos : nlink'[j] = IF j = i THEN 2 ELSE IF j = d THEN nlink[j] + 1 ELSE nlink[j]
  BY <1>1, <1>2 DEF Mkdir, NewDirLinks
<1>6. nmHeld' = nmHeld /\ strays' = strays
  BY DEF Mkdir
<1>7. InvOf(kind', nlink', ent', up', strays)
  <2>1. kind'[i] = "dir" /\ nlink'[i] = 2 /\ nlink'[d] = nlink[d] + 1 /\ up'[i] = d
    BY <1>2, <1>4, <1>5
  <2>2. /\ kind'[i] # "free" /\ \A j \in NmInos \ {i} : kind'[j] = kind[j]
        /\ nlink'[i] = 1 + (IF kind'[i] = "dir" THEN 1 ELSE 0)
        /\ nlink'[d] = nlink[d] + (IF kind'[i] = "dir" THEN 1 ELSE 0)
        /\ \A j \in NmInos \ {i, d} : nlink'[j] = nlink[j]
        /\ \A j \in NmInos \ {i} : up'[j] = up[j]
        /\ kind'[i] = "dir" => up'[i] = d
    BY <1>1, <1>4, <1>5, <2>1
  <2>3. Born(kind, nlink, up, d, i, kind', nlink', up')
    BY <1>1, <1>4, <1>5, <2>2 DEF Born
  <2> QED
    BY <1>1, <1>2, <1>3, <2>3, NewName
<1>8. UseOf(kind', nlink', nmHeld)
  BY <1>1, <1>2, <1>4, <1>5 DEF UseOf
<1> QED
  BY <1>6, <1>7, <1>8 DEF NmInv

LEMMA LinkKeeps ==
  ASSUME NmInv, NEW s \in NmInos, NEW m \in Entries, NEW d \in NmInos, IsDir(d), NEW n \in Entries,
         Link(s, m, d, n)
  PROVE  NmInv'
<1>1. /\ InvOf(kind, nlink, ent, up, strays) /\ UseOf(kind, nlink, nmHeld)
      /\ nlink \in [NmInos -> Int] /\ ent \in EntTable
      /\ \A j \in NmInos : nlink[j] \in Nat
  BY NmInvParts
<1>2. PICK i \in NmInos : i = ent[s][m] /\ kind[i] = "reg"
  <2>1. ent[s][m] # none /\ kind[ent[s][m]] # "dir"
    BY DEF Link, MayLink, IsDir
  <2> QED
    BY <1>1, <2>1, EntryFacts
<1>3. kind[d] = "dir" /\ ent[d][n] = none
  BY DEF Link, IsDir
<1>4. nlink' = Plus(nlink, i, 1) /\ SetEntry(ent, d, n, i, ent')
  <2>1. ent' = [ent EXCEPT ![d][n] = i]
    BY <1>2 DEF Link, DirCreat
  <2>2. nlink' = Plus(nlink, i, 1)
    BY <1>2 DEF Link, Plus
  <2> QED
    BY <1>1, <2>1, <2>2, SetsEntry
<1>5. kind' = kind /\ up' = up /\ nmHeld' = nmHeld /\ strays' = strays
  BY DEF Link
<1>6. InvOf(kind, nlink', ent', up, strays)
  BY <1>1, <1>2, <1>3, <1>4, LinkName
<1>7. UseOf(kind, nlink', nmHeld)
  <2>1. \A j \in NmInos : nlink'[j] >= nlink[j] /\ nlink'[j] \in Int
    BY <1>1, <1>4 DEF Plus
  <2> QED
    BY <1>1, <2>1 DEF UseOf
<1> QED
  BY <1>5, <1>6, <1>7 DEF NmInv

LEMMA UnlinkKeeps ==
  ASSUME NmInv, NEW d \in NmInos, NEW n \in Entries, Unlink(d, n)
  PROVE  NmInv'
<1>1. /\ InvOf(kind, nlink, ent, up, strays) /\ nlink \in [NmInos -> Int] /\ ent \in EntTable
      /\ nmHeld \in [NmInos -> Nat] /\ \A i \in NmInos : nmHeld[i] > 0 => kind[i] # "free"
  BY NmInvParts
<1>2. PICK i \in NmInos : i = ent[d][n] /\ kind[i] = "reg" /\ ent[d][n] # none
  <2>1. ent[d][n] # none /\ kind[ent[d][n]] = "reg"
    BY DEF Unlink
  <2> QED
    BY <1>1, <2>1, EntryFacts
<1>3. up' = up /\ nmHeld' = nmHeld /\ strays' = strays
  BY DEF Unlink
<1>4. Put(kind, [nlink EXCEPT ![i] = @ - 1], [ent EXCEPT ![d][n] = none])
  BY <1>2 DEF Unlink
<1>5. LessLinks(kind, nlink, d, i, [nlink EXCEPT ![i] = @ - 1])
  BY <1>1, <1>2 DEF LessLinks, One
<1>6. SetEntry(ent, d, n, none, [ent EXCEPT ![d][n] = none])
  BY <1>1, SetsEntry
<1>7. InvOf(kind, [nlink EXCEPT ![i] = @ - 1], [ent EXCEPT ![d][n] = none], up, strays)
  BY <1>1, <1>2, <1>5, <1>6, UnlinkName
<1> QED
  BY <1>1, <1>3, <1>4, <1>7, PutStep

LEMMA RmdirKeeps ==
  ASSUME NmInv, NEW d \in NmInos, NEW n \in Entries, Rmdir(d, n)
  PROVE  NmInv'
<1>1. /\ InvOf(kind, nlink, ent, up, strays) /\ nlink \in [NmInos -> Int] /\ ent \in EntTable
      /\ kind \in [NmInos -> {"free", "reg", "dir"}]
      /\ nmHeld \in [NmInos -> Nat] /\ \A i \in NmInos : nmHeld[i] > 0 => kind[i] # "free"
  BY NmInvParts
<1>2. PICK i \in NmInos : i = ent[d][n] /\ kind[i] = "dir" /\ ent[i] = NoEntries /\ i # d
  <2>1. ent[d][n] # none /\ kind[ent[d][n]] = "dir" /\ ent[ent[d][n]] = NoEntries
    BY DEF Rmdir, IsDir, IsEmpty
  <2> QED
    BY <1>1, <2>1, EntryFacts
<1> DEFINE q == [kind EXCEPT ![i] = "reg"]
           m == Plus(Plus(nlink, i, -2), d, -1)
           f == [ent EXCEPT ![d][n] = none]
<1>3. up' = up /\ nmHeld' = nmHeld /\ strays' = strays
  BY DEF Rmdir
<1>4. DirUnlinked(d, i) = m
  BY <1>1, <1>2 DEF DirUnlinked, Plus
<1>5. Put(q, m, f)
  BY <1>2, <1>4 DEF Rmdir
<1>6. SetEntry(ent, d, n, none, f)
  BY <1>1, SetsEntry
<1>7. \A j \in NmInos : nmHeld[j] > 0 => q[j] # "free"
  BY <1>1
<1> HIDE DEF m, f
<1>8. InvOf(q, m, f, up, strays)
  BY <1>1, <1>2, <1>6, RemoveDir DEF m
<1> HIDE DEF q
<1> QED
  BY <1>1, <1>3, <1>5, <1>7, <1>8, PutStep

\* The old name goes and the new one is there, for a directory in the same parent.
LEMMA Relocate ==
  ASSUME NEW k, NEW n, NEW e, NEW u, NEW s, InvOf(k, n, e, u, s),
         NEW d1 \in NmInos, NEW n1 \in Entries, NEW d2 \in NmInos, NEW n2 \in Entries,
         NEW i \in NmInos, e[d1][n1] = i, e[d2][n2] = none, k[d2] = "dir",
         k[i] = "dir" => d1 = d2,
         NEW g, SetEntry(e, d2, n2, i, g), NEW f, SetEntry(g, d1, n1, none, f)
  PROVE  InvOf(k, n, f, u, s)
<1>1. n \in [NmInos -> Int] /\ i # none /\ none \notin NmInos
  BY InvParts, NamesAssumption DEF NamesAssumption
<1>2. k[i] \in {"reg", "dir"}
  BY <1>1, EntryFacts
<1>3. CASE k[i] = "dir"
  BY <1>3, MoveDir
<1>4. CASE k[i] = "reg"
  <2>1. InvOf(k, Plus(n, i, 1), g, u, s)
    BY <1>4, LinkName
  <2>2. g[d1][n1] = i
    BY DEF SetEntry
  <2>3. LessLinks(k, Plus(n, i, 1), d1, i, n)
    BY <1>1, <1>4 DEF LessLinks, Plus, One
  <2> QED
    BY <1>1, <1>4, <2>1, <2>2, <2>3, UnlinkName
<1> QED
  BY <1>2, <1>3, <1>4

LEMMA RenameNewKeeps ==
  ASSUME MovesDirs = FALSE, NmInv,
         NEW d1 \in NmInos, NEW n1 \in Entries, NEW d2 \in NmInos, NEW n2 \in Entries, IsDir(d2),
         NEW made \in BOOLEAN, RenameNew(d1, n1, d2, n2, made)
  PROVE  NmInv'
<1>1. /\ InvOf(kind, nlink, ent, up, strays) /\ UseOf(kind, nlink, nmHeld)
      /\ nlink \in [NmInos -> Int] /\ ent \in EntTable /\ strays \in [NmInos -> Nat]
      /\ up \in [NmInos -> NmInos]
  BY NmInvParts
<1>2. PICK i \in NmInos : /\ i = ent[d1][n1] /\ i # none /\ kind[i] \in {"reg", "dir"} /\ i # d1
                          /\ kind[d1] = "dir"
  <2>1. ent[d1][n1] # none
    BY DEF RenameNew
  <2> QED
    BY <1>1, <2>1, EntryFacts
<1>3. /\ ent[d2][n2] = none /\ kind[d2] = "dir"
      /\ kind[i] = "dir" => d1 = d2
      /\ kind' = kind /\ nlink' = nlink /\ nmHeld' = nmHeld
  BY <1>2 DEF RenameNew, IsDir
<1>4. up' = up
  <2>1. up' = Reparent(i, d2)
    BY <1>2 DEF RenameNew
  <2>2. CASE kind[i] = "dir"
    <3>1. Leads(kind, ent, d1, n1)
      BY <1>2, <2>2 DEF Leads
    <3>2. up[i] = d1
      BY <1>1, <1>2, <3>1 DEF InvOf, OneName
    <3> QED
      BY <1>1, <1>3, <2>1, <2>2, <3>2 DEF Reparent, IsDir
  <2>3. CASE kind[i] # "dir"
    BY <2>1, <2>3 DEF Reparent, IsDir
  <2> QED
    BY <2>2, <2>3
<1>5. CASE made
  <2>1. /\ strays' = strays
        /\ ent' = [[ent EXCEPT ![d2][n2] = i] EXCEPT ![d1][n1] = none]
    BY <1>2, <1>5 DEF RenameNew, Strayed, Moved, DirCreat
  <2> DEFINE g == [ent EXCEPT ![d2][n2] = i]
  <2>2. SetEntry(ent, d2, n2, i, g)
    BY <1>1, SetsEntry
  <2> HIDE DEF g
  <2>3. SetEntry(g, d1, n1, none, ent')
    <3>1. g \in EntTable /\ none \in NmInos \cup {none} /\ ent' = [g EXCEPT ![d1][n1] = none]
      BY <2>1, <2>2 DEF SetEntry, g
    <3> QED
      BY <3>1, SetsEntry
  <2>4. InvOf(kind, nlink, ent', up, strays)
    BY <1>1, <1>2, <1>3, <2>2, <2>3, Relocate
  <2> QED
    BY <1>1, <1>3, <1>4, <2>1, <2>4 DEF NmInv
<1>6. CASE ~made
  <2>1. SetEntry(ent, d1, n1, none, ent')
    <3>1. ent' = [ent EXCEPT ![d1][n1] = none] /\ none \in NmInos \cup {none}
      BY <1>2, <1>6 DEF RenameNew, Moved
    <3> QED
      BY <1>1, <3>1, SetsEntry
  <2>2. strays' = Strayed(d1, i, FALSE)
    BY <1>2, <1>6 DEF RenameNew
  <2>3. CASE kind[i] = "reg"
    <3>1. strays' = Plus(strays, i, 1)
      BY <1>1, <1>2, <2>2, <2>3 DEF Strayed, Plus, IsDir
    <3>2. InvOf(kind, Plus(nlink, i, 1), ent, up, Plus(strays, i, 1))
      BY <1>1, <2>3, StrayAdds
    <3>3. LessLinks(kind, Plus(nlink, i, 1), d1, i, nlink)
      BY <1>1, <2>3 DEF LessLinks, Plus, One
    <3>4. InvOf(kind, nlink, ent', up, Plus(strays, i, 1))
      BY <1>2, <2>1, <2>3, <3>2, <3>3, UnlinkName
    <3> QED
      BY <1>1, <1>3, <1>4, <3>1, <3>4 DEF NmInv
  <2>4. CASE kind[i] = "dir"
    <3> DEFINE m == Plus(Plus(nlink, i, 1), d1, 1)
               t == Plus(Plus(strays, i, 1), d1, 1)
    <3>1. InvOf(kind, Plus(nlink, i, 1), ent, up, Plus(strays, i, 1))
      BY <1>1, <2>4, StrayAdds
    <3>2. InvOf(kind, m, ent, up, t)
      BY <1>2, <3>1, StrayAdds
    <3>3. LessLinks(kind, m, d1, i, nlink)
      BY <1>1, <1>2, <2>4 DEF LessLinks, Plus, One
    <3>4. strays' = t /\ t[i] > 0 /\ t[d1] > 0
      <4>1. strays' = [j \in NmInos |-> IF j = i \/ j = d1 THEN strays[j] + 1 ELSE strays[j]]
        BY <2>2, <2>4 DEF Strayed, IsDir
      <4>2. t \in [NmInos -> Nat] /\ \A j \in NmInos : t[j] = strays'[j]
        <5>1. Plus(strays, i, 1) \in [NmInos -> Nat]
          BY <1>1 DEF Plus
        <5>2. \A j \in NmInos : Plus(strays, i, 1)[j] = IF j = i THEN strays[j] + 1 ELSE strays[j]
          BY <1>1 DEF Plus
        <5>3. \A j \in NmInos : t[j] = IF j = d1 THEN Plus(strays, i, 1)[j] + 1 ELSE Plus(strays, i, 1)[j]
          BY <5>1 DEF Plus
        <5>4. t \in [NmInos -> Nat]
          BY <5>1 DEF Plus
        <5> QED
          BY <1>2, <4>1, <5>2, <5>3, <5>4
      <4>3. strays' = t
        BY <4>1, <4>2
      <4>4. t[i] = strays[i] + 1 /\ t[d1] = strays[d1] + 1
        BY <4>1, <4>2
      <4> QED
        BY <1>1, <4>3, <4>4
    <3> HIDE DEF m, t
    <3>5. InvOf(kind, nlink, ent', up, t)
      BY <1>2, <2>1, <3>2, <3>3, <3>4, UnlinkName
    <3> QED
      BY <1>1, <1>3, <1>4, <3>4, <3>5 DEF NmInv
  <2> QED
    BY <1>2, <2>3, <2>4
<1> QED
  BY <1>5, <1>6

LEMMA RenameOverKeeps ==
  ASSUME MovesDirs = FALSE, NmInv,
         NEW d1 \in NmInos, NEW n1 \in Entries, NEW d2 \in NmInos, NEW n2 \in Entries, IsDir(d2),
         RenameOver(d1, n1, d2, n2)
  PROVE  NmInv'
<1>1. /\ InvOf(kind, nlink, ent, up, strays)
      /\ nlink \in [NmInos -> Int] /\ ent \in EntTable /\ up \in [NmInos -> NmInos]
      /\ nmHeld \in [NmInos -> Nat] /\ \A i \in NmInos : nmHeld[i] > 0 => kind[i] # "free"
  BY NmInvParts
<1>2. PICK i \in NmInos : i = ent[d1][n1] /\ i # none /\ kind[i] \in {"reg", "dir"}
  <2>1. ent[d1][n1] # none
    BY DEF RenameOver
  <2> QED
    BY <1>1, <2>1, EntryFacts
<1>3. PICK j \in NmInos : j = ent[d2][n2] /\ j # none /\ kind[j] = "reg" /\ i # j
  <2>1. ent[d2][n2] # none /\ kind[ent[d2][n2]] # "dir" /\ ent[d1][n1] # ent[d2][n2]
    BY DEF RenameOver, IsDir
  <2> QED
    BY <1>1, <1>2, <2>1, EntryFacts
<1>4. /\ kind[d2] = "dir" /\ (kind[i] = "dir" => d1 = d2)
      /\ nmHeld' = nmHeld /\ strays' = strays
  BY <1>2 DEF RenameOver, IsDir
<1>5. up' = up
  <2>1. up' = Reparent(i, d2)
    BY <1>2 DEF RenameOver
  <2>2. CASE kind[i] = "dir"
    <3>1. Leads(kind, ent, d1, n1)
      BY <1>2, <2>2 DEF Leads
    <3>2. up[i] = d1
      BY <1>1, <1>2, <3>1 DEF InvOf, OneName
    <3> QED
      BY <1>1, <1>4, <2>1, <2>2, <3>2 DEF Reparent, IsDir
  <2>3. CASE kind[i] # "dir"
    BY <2>1, <2>3 DEF Reparent, IsDir
  <2> QED
    BY <2>2, <2>3
<1> DEFINE n0 == [nlink EXCEPT ![j] = @ - 1]
           e0 == [ent EXCEPT ![d2][n2] = none]
           g  == [ent EXCEPT ![d2][n2] = i]
           f  == [g EXCEPT ![d1][n1] = none]
<1>6. Put(kind, n0, f)
  BY <1>2, <1>3 DEF RenameOver, Replaced, Moved, DirCreat
<1>7. SetEntry(ent, d2, n2, none, e0) /\ SetEntry(ent, d2, n2, i, g)
  BY <1>1, SetsEntry
<1>8. SetEntry(g, d1, n1, none, f)
  <2>1. g \in EntTable
    BY <1>7 DEF SetEntry
  <2> HIDE DEF g
  <2> QED
    BY <2>1, SetsEntry
<1>9. LessLinks(kind, nlink, d2, j, n0)
  BY <1>1, <1>3 DEF LessLinks, One
<1> HIDE DEF n0, e0, g, f
<1>10. InvOf(kind, n0, e0, up, strays)
  BY <1>1, <1>3, <1>7, <1>9, UnlinkName
<1>11. SetEntry(e0, d2, n2, i, g) /\ e0[d1][n1] = i /\ e0[d2][n2] = none
  BY <1>2, <1>3, <1>7 DEF SetEntry
<1>12. InvOf(kind, n0, f, up, strays)
  BY <1>2, <1>4, <1>8, <1>10, <1>11, Relocate
<1> QED
  BY <1>1, <1>4, <1>5, <1>6, <1>12, PutStep

LEMMA ReleaseKeeps ==
  ASSUME NmInv, NEW i \in NmInos, NmRelease(i)
  PROVE  NmInv'
<1>1. /\ InvOf(kind, nlink, ent, up, strays)
      /\ nmHeld \in [NmInos -> Nat] /\ \A j \in NmInos : nmHeld[j] > 0 => kind[j] # "free"
  BY NmInvParts
<1>2. up' = up /\ strays' = strays /\ Put(kind, nlink, ent)
  BY DEF NmRelease
<1>3. nmHeld' \in [NmInos -> Nat] /\ \A j \in NmInos : nmHeld'[j] > 0 => kind[j] # "free"
  BY <1>1 DEF NmRelease
<1> QED
  BY <1>1, <1>2, <1>3, PutStep

\* What a program can reach is not free.
LEMMA HoldKeeps ==
  ASSUME NmInv, NEW i \in NmInos, Hold(i)
  PROVE  NmInv'
<1>1. /\ InvOf(kind, nlink, ent, up, strays) /\ UseOf(kind, nlink, nmHeld)
      /\ ent \in EntTable /\ up \in [NmInos -> NmInos] /\ strays \in [NmInos -> Nat]
  BY NmInvParts
<1>2. Kinds(kind, nlink, ent, up, strays) /\ OneName(kind, ent, up, strays)
  BY <1>1 DEF InvOf
<1> DEFINE T == {j \in NmInos : kind[j] # "free"}
<1>3. NmClosed(T)
  <2>1. ASSUME NEW d \in T, kind[d] = "dir"
        PROVE  up[d] \in T
    <3>1. CASE d = root
      BY <1>2, <3>1 DEF Kinds
    <3>2. CASE d # root
      <4>1. d \in NmInos /\ up[d] \in NmInos /\ d # none
        BY <1>1, NamesAssumption DEF NamesAssumption
      <4>2. strays[up[d]] > 0 \/ \E x \in Entries : ent[up[d]][x] = d
        BY <1>2, <2>1, <3>2, <4>1 DEF OneName
      <4>3. CASE strays[up[d]] > 0
        BY <1>2, <4>1, <4>3 DEF Kinds
      <4>4. CASE \E x \in Entries : ent[up[d]][x] = d
        <5>1. PICK x \in Entries : ent[up[d]][x] = d
          BY <4>4
        <5>2. kind[up[d]] = "dir"
          BY <1>1, <4>1, <5>1, EntryFacts
        <5> QED
          BY <4>1, <5>2
      <4> QED
        BY <4>2, <4>3, <4>4
    <3> QED
      BY <3>1, <3>2
  <2>2. ASSUME NEW d \in T, NEW x \in Entries
        PROVE  ent[d][x] \in T \cup {none}
    BY <1>1, <1>2 DEF Kinds, EntTable
  <2> QED
    BY <2>1, <2>2 DEF NmClosed, IsDir
<1>4. {root} \cup Held \subseteq T
  BY <1>1, <1>2, NamesAssumption DEF Kinds, UseOf, Held, NamesAssumption
<1>5. i \in T
  <2>1. i \in NmFrom({root} \cup Held)
    BY DEF Hold, Accessible
  <2>2. T \in SUBSET NmInos
    OBVIOUS
  <2> HIDE DEF T
  <2> QED
    BY <1>3, <1>4, <2>1, <2>2 DEF NmFrom
<1>6. /\ kind' = kind /\ nlink' = nlink /\ ent' = ent /\ up' = up /\ strays' = strays
      /\ nmHeld' = [nmHeld EXCEPT ![i] = @ + 1]
  BY DEF Hold
<1>7. UseOf(kind, nlink, nmHeld')
  BY <1>1, <1>5, <1>6 DEF UseOf
<1> QED
  BY <1>1, <1>6, <1>7 DEF NmInv

----------------------------------------------------------------------------
\* mkfs makes an empty root.
LEMMA NmStarts ==
  ASSUME NmInit
  PROVE  NmInv
<1>1. /\ kind = [i \in NmInos |-> IF i = root THEN "dir" ELSE "free"]
      /\ nlink = [i \in NmInos |-> IF i = root THEN 2 ELSE 0]
      /\ ent = [i \in NmInos |-> NoEntries]
      /\ up = [i \in NmInos |-> root]
      /\ nmHeld = [i \in NmInos |-> 0] /\ strays = [i \in NmInos |-> 0]
  BY DEF NmInit
<1>2. root \in NmInos /\ none \notin NmInos
  BY NamesAssumption DEF NamesAssumption
<1>3. ent \in EntTable /\ \A d \in NmInos, x \in Entries : ent[d][x] = none
  BY <1>1 DEF EntTable, NoEntries
<1>4. Types(kind, nlink, ent, up, strays)
  BY <1>1, <1>2, <1>3 DEF Types
<1>5. Kinds(kind, nlink, ent, up, strays)
  BY <1>1, <1>2, <1>3 DEF Kinds
<1>6. OneName(kind, ent, up, strays)
  BY <1>1, <1>3 DEF OneName, Leads
<1>7. Reached(kind, ent, strays)
  BY <1>1 DEF Reached, DirClosed
<1>8. ASSUME NEW i \in NmInos, kind[i] # "free"
      PROVE  nlink[i] = LinksOf(kind, ent, strays, i)
  <2>1. i = root /\ kind[i] = "dir" /\ strays[i] = 0 /\ nlink[i] = 2
    BY <1>1, <1>8
  <2>2. \A d \in NmInos, x \in Entries : ent[d][x] # i /\ ~Leads(kind, ent, d, x)
    BY <1>2, <1>3 DEF Leads
  <2>3. Cardinality(NamesOf(ent, i)) = 0 /\ Cardinality(SubsOf(kind, ent, i)) = 0
    BY <1>3, <2>2, CountsType
  <2> QED
    BY <2>1, <2>3 DEF LinksOf, One
<1>9. UseOf(kind, nlink, nmHeld)
  BY <1>1 DEF UseOf
<1> QED
  BY <1>4, <1>5, <1>6, <1>7, <1>8, <1>9 DEF NmInv, InvOf, Counted

LEMMA NmKeeps ==
  ASSUME MovesDirs = FALSE, NmInv, [NmNext]_nmVars
  PROVE  NmInv'
<1>1. CASE UNCHANGED nmVars
  BY <1>1 DEF nmVars, NmInv
<1>2. CASE NmNext
  <2>1. \A d \in Dirs : d \in NmInos /\ IsDir(d)
    BY DEF Dirs, Accessible, NmFrom
  <2>2. CASE \E i \in NmInos : Hold(i) \/ NmRelease(i)
    BY <2>2, HoldKeeps, ReleaseKeeps
  <2>3. ASSUME NEW d \in Dirs, NEW n \in Entries,
               \/ \E i \in NmInos : Creat(d, n, i) \/ Mkdir(d, n, i)
               \/ Unlink(d, n) \/ Rmdir(d, n)
        PROVE  NmInv'
    BY <2>1, <2>3, CreatKeeps, MkdirKeeps, UnlinkKeeps, RmdirKeeps
  <2>4. ASSUME NEW d \in Dirs, NEW n \in Entries, NEW d2 \in Dirs, NEW n2 \in Entries,
               \/ Link(d, n, d2, n2)
               \/ \E made \in BOOLEAN : RenameNew(d, n, d2, n2, made)
               \/ RenameOver(d, n, d2, n2)
        PROVE  NmInv'
    BY <2>1, <2>4, LinkKeeps, RenameNewKeeps, RenameOverKeeps
  <2> QED
    BY <1>2, <2>2, <2>3, <2>4 DEF NmNext
<1> QED
  BY <1>1, <1>2

\* Over creat, mknod, mkdir, link, unlink, rmdir and rename, of names that are
\* open or not and renames that fail half way (kern/fs/mknod.c, dir.c,
\* inode_put): no name or user leads to a freed inode, nothing in use is out of
\* reach, and the directories are a tree whose links are counted, as long as no
\* directory is renamed to another parent.
THEOREM NamesCorrect == (MovesDirs = FALSE) => (NmSpec => []NamesExact)
<1> SUFFICES ASSUME MovesDirs = FALSE
             PROVE  NmSpec => []NamesExact
  OBVIOUS
<1>1. NmInit => NmInv
  BY NmStarts
<1>2. NmInv /\ [NmNext]_nmVars => NmInv'
  BY NmKeeps
<1>3. NmInv => NamesExact
  BY InvExact
<1> QED
  BY <1>1, <1>2, <1>3, PTL DEF NmSpec

----------------------------------------------------------------------------
(* The blocks of plain files: the pairs of a place and a block that fsck      *)
(* would find, about any disk d and inode n.                                  *)

Entry0 == 0 .. BMAP0_SIZE - 1
Entry1 == 0 .. BMAP1_SIZE - 1

NodeOK(n) ==
  /\ n = [ino |-> n.ino, map |-> n.map, size |-> n.size, blocks |-> n.blocks]
  /\ n.map \in [Tables -> UNION {[0 .. TableSize(t) - 1 -> Blocks] : t \in Tables}]
  /\ \A t \in Tables : n.map[t] \in [0 .. TableSize(t) - 1 -> Blocks]
  /\ \A i \in 0 .. BMAP2_SIZE - 1 : n.map["bmap2"][i] = 0

TopRef(n, t, i)    == <<<<t, i>>, n.map[t][i]>>
LowRef(d, n, i, j) == <<<<"bmap1", i, j>>, Word(d, n.map["bmap1"][i], j)>>

\* What a table of the inode, and what the map blocks behind it, refer to.
AtEntry(n, t, x) == \E i \in 0 .. TableSize(t) - 1 : n.map[t][i] # 0 /\ x = TopRef(n, t, i)
AtLeaf(d, n, x) ==
  \E i \in Entry1, j \in Index : Word(d, n.map["bmap1"][i], j) # 0 /\ x = LowRef(d, n, i, j)
RefOf(d, n, x) == AtEntry(n, "bmap0", x) \/ AtEntry(n, "bmap1", x) \/ AtLeaf(d, n, x)

\* What cinode of fsck walks, said without its three sets.
LEMMA RefsAre ==
  ASSUME NEW d, NEW n, NodeOK(n)
  PROVE  \A x : x \in RefsIn(d, n) <=> RefOf(d, n, x)
<1> DEFINE top == UNION {{<<<<t, i>>, n.map[t][i]>> : i \in Slots(n, t)} : t \in Tables}
           q1  == {q \in top : q[1][1] # "bmap0"}
           mid == UNION {Inside(d, r) : r \in q1}
           q2  == {q \in mid : q[1][1] = "bmap2"}
           low == UNION {Inside(d, r) : r \in q2}
<1>1. /\ Slots(n, "bmap0") = {i \in Entry0 : n.map["bmap0"][i] # 0}
      /\ Slots(n, "bmap1") = {i \in Entry1 : n.map["bmap1"][i] # 0}
      /\ Slots(n, "bmap2") = {}
  BY DEF NodeOK, Slots, Tables, TableSize, Entry0, Entry1
<1>2. \A x : x \in top <=>
         \/ \E i \in Entry0 : n.map["bmap0"][i] # 0 /\ x = TopRef(n, "bmap0", i)
         \/ \E i \in Entry1 : n.map["bmap1"][i] # 0 /\ x = TopRef(n, "bmap1", i)
  BY <1>1 DEF TopRef, Tables
<1> HIDE DEF top
<1>3. \A x : x \in q1 <=> \E i \in Entry1 : n.map["bmap1"][i] # 0 /\ x = TopRef(n, "bmap1", i)
  BY <1>2 DEF TopRef
<1> HIDE DEF q1
<1>4. ASSUME NEW i \in Entry1 PROVE
        Inside(d, TopRef(n, "bmap1", i))
          = {LowRef(d, n, i, j) : j \in {l \in Index : Word(d, n.map["bmap1"][i], l) # 0}}
  BY DEF Inside, TopRef, LowRef
<1>5. ASSUME NEW x PROVE
        x \in mid <=> \E i \in Entry1, j \in Index :
                        Word(d, n.map["bmap1"][i], j) # 0 /\ x = LowRef(d, n, i, j)
  <2>1. ASSUME x \in mid PROVE \E i \in Entry1, j \in Index :
                        Word(d, n.map["bmap1"][i], j) # 0 /\ x = LowRef(d, n, i, j)
    <3>1. PICK r \in q1 : x \in Inside(d, r)
      BY <2>1
    <3>2. PICK i \in Entry1 : r = TopRef(n, "bmap1", i)
      BY <1>3
    <3> QED
      BY <3>1, <3>2, <1>4
  <2>2. ASSUME NEW i \in Entry1, NEW j \in Index,
               Word(d, n.map["bmap1"][i], j) # 0, x = LowRef(d, n, i, j)
        PROVE  x \in mid
    <3>1. n.map["bmap1"][i] # 0
      BY <2>2 DEF Word
    <3>2. TopRef(n, "bmap1", i) \in q1
      BY <3>1, <1>3
    <3>3. x \in Inside(d, TopRef(n, "bmap1", i))
      BY <2>2, <1>4
    <3> QED
      BY <3>2, <3>3
  <2> QED
    BY <2>1, <2>2
<1> HIDE DEF mid
<1>6. q2 = {}
  BY <1>5 DEF LowRef
<1>7. low = {}
  BY <1>6
<1>8. RefsIn(d, n) = top \cup mid \cup low
  BY Zenon DEF RefsIn, top, q1, mid, q2, low
<1>9. Entry0 = 0 .. TableSize("bmap0") - 1 /\ Entry1 = 0 .. TableSize("bmap1") - 1
  BY DEF Entry0, Entry1, TableSize
<1>10. ASSUME NEW x PROVE x \in top <=> AtEntry(n, "bmap0", x) \/ AtEntry(n, "bmap1", x)
  BY <1>2, <1>9 DEF AtEntry
<1>11. ASSUME NEW x PROVE x \in mid <=> AtLeaf(d, n, x)
  BY <1>5 DEF AtLeaf
<1> QED
  BY <1>10, <1>11, <1>7, <1>8 DEF RefOf

\* The least of some numbers exists.
LEMMA LeastBlock ==
  ASSUME NEW T, T \subseteq Nat, T # {}
  PROVE  Min(T) \in T /\ \A x \in T : Min(T) <= x
<1> DEFINE O == OpToRel(<, Nat)
<1>1. IsWellFoundedOn(O, Nat)
  BY NatLessThanWellFounded
<1> HIDE DEF O
<1>2. PICK n \in T : \A m \in T : ~ (<<m, n>> \in O)
  BY <1>1, WFMin
<1>3. \A m \in T : <<m, n>> \in O <=> m < n
  BY <1>2 DEF O, OpToRel
<1>4. \A m \in T : ~(m < n)
  BY <1>2, <1>3, Zenon
<1>5. \A m \in T : n <= m
  BY <1>4, SMT
<1> QED
  BY <1>2, <1>5 DEF Min

\* The bookkeeping of blocks, for a map fm, a starting point fb of the scan,
\* the pairs R[f] of a place and a block of each file, and the lost blocks L.
Data == DBLOCK .. NBLOCKS - 1
InRange(R) == \A f \in Files : \A x \in R[f] : x[2] \in Data
Once(R) == \A f, g \in Files : \A x \in R[f], y \in R[g] : x[2] = y[2] => f = g /\ x = y
Apart(R, L) == L \subseteq Data /\ \A f \in Files : \A x \in R[f] : x[2] \notin L
Uses(R, b) == \E f \in Files : \E x \in R[f] : x[2] = b
Marked(fm, R, L) ==
  fm \subseteq Blocks /\ \A b \in Blocks : b \in fm <=> b < DBLOCK \/ b \in L \/ Uses(R, b)
Scanned(fm, fb) == fb \in 0 .. NBLOCKS /\ \A i \in DBLOCK .. fb - 1 : i \in fm
Space(fm, fb, R, L) ==
  InRange(R) /\ Once(R) /\ Apart(R, L) /\ Marked(fm, R, L) /\ Scanned(fm, fb)

DiskOK(d) ==
  /\ d = [freemap |-> d.freemap, freeblk |-> d.freeblk, words |-> d.words]
  /\ d.words \in [Blocks -> [Index -> 0 .. Datum]]

\* alloc_blk takes the first free block, and leaves none below freeblk.
LEMMA AllocIs ==
  ASSUME NEW d, DiskOK(d), ~Full(d), d.freemap \subseteq Blocks, Scanned(d.freemap, d.freeblk),
         NEW c, c = Min(Candidates(d))
  PROVE  /\ c \in Data /\ c \notin d.freemap /\ Scanned(d.freemap \cup {c}, c + 1)
         /\ AllocBlk(d) = [freemap |-> d.freemap \cup {c}, freeblk |-> c + 1,
                           words |-> [d.words EXCEPT ![c] = Erased]]
         /\ DiskOK(AllocBlk(d))
<1>1. Candidates(d) \subseteq Nat /\ Candidates(d) # {}
  BY FileBlocksAssumption DEF Candidates, Full, Scanned
<1>2. c \in Candidates(d) /\ \A x \in Candidates(d) : c <= x
  BY <1>1, LeastBlock
<1>3. c \in Data /\ c \notin d.freemap /\ c >= d.freeblk
  BY <1>2, FileBlocksAssumption DEF Candidates, Data
<1>4. ASSUME NEW i \in DBLOCK .. c PROVE i \in d.freemap \cup {c}
  <2>1. CASE i < d.freeblk
    BY <2>1, FileBlocksAssumption DEF Scanned
  <2>2. CASE i >= d.freeblk /\ i # c
    <3>1. i \in d.freeblk .. NBLOCKS - 1 /\ i < c
      BY <2>2, <1>3, FileBlocksAssumption DEF Scanned, Data
    <3>0. i \in Candidates(d) => c <= i
      BY <1>2
    <3>2. i \notin Candidates(d)
      BY <3>0, <3>1, <1>3, FileBlocksAssumption DEF Data
    <3> QED
      BY <3>1, <3>2, FileBlocksAssumption DEF Candidates
  <2> QED
    BY <2>1, <2>2, FileBlocksAssumption DEF Scanned
<1>5. Scanned(d.freemap \cup {c}, c + 1)
  BY <1>3, <1>4, FileBlocksAssumption DEF Scanned, Data
<1>6. AllocBlk(d) = [freemap |-> d.freemap \cup {c}, freeblk |-> c + 1,
                     words |-> [d.words EXCEPT ![c] = Erased]]
  <2>1. Erase(d, c) = [freemap |-> d.freemap, freeblk |-> d.freeblk,
                       words |-> [d.words EXCEPT ![c] = Erased]]
    BY DEF Erase, DiskOK
  <2>2. Erase(d, c).freemap = d.freemap
    BY <2>1
  <2>3. [Erase(d, c) EXCEPT !.freeblk = c + 1]
          = [freemap |-> d.freemap, freeblk |-> c + 1, words |-> [d.words EXCEPT ![c] = Erased]]
    BY <2>1
  <2>4. AllocBlk(d) = [[Erase(d, c) EXCEPT !.freeblk = c + 1]
                         EXCEPT !.freemap = Erase(d, c).freemap \cup {c}]
    BY DEF AllocBlk
  <2> DEFINE e == [Erase(d, c) EXCEPT !.freeblk = c + 1]
  <2>5. AllocBlk(d) = [e EXCEPT !.freemap = d.freemap \cup {c}]
    BY <2>2, <2>4
  <2>6. e = [freemap |-> d.freemap, freeblk |-> c + 1, words |-> [d.words EXCEPT ![c] = Erased]]
    BY <2>3
  <2> HIDE DEF e
  <2> QED
    BY <2>5, <2>6
<1>7. Erased \in [Index -> 0 .. Datum]
  BY FileBlocksAssumption DEF Erased, Datum
<1>8. DiskOK(AllocBlk(d))
  <2>1. [d.words EXCEPT ![c] = Erased] \in [Blocks -> [Index -> 0 .. Datum]]
    BY <1>7 DEF DiskOK
  <2> QED
    BY <1>6, <2>1 DEF DiskOK
<1> QED
  BY <1>3, <1>5, <1>6, <1>8

\* A block that the map does not show is nobody's, and may be given to one file.
Gains(Q, R, f, p, c) ==
  /\ \A g \in Files \ {f} : Q[g] = R[g]
  /\ \A x : x \in Q[f] <=> x \in R[f] \/ x = <<p, c>>

\* The books stay right when a block the map does not show is given to a file ...
LEMMA GiveBlock ==
  ASSUME NEW fm, NEW fb, NEW R, NEW L, Space(fm, fb, R, L), NEW f \in Files,
         NEW c \in Data, c \notin fm, Scanned(fm \cup {c}, c + 1), NEW p,
         NEW Q, Gains(Q, R, f, p, c)
  PROVE  ~Uses(R, c) /\ Space(fm \cup {c}, c + 1, Q, L)
<1>0. /\ \A g \in Files \ {f} : Q[g] = R[g]
      /\ \A x : x \in Q[f] <=> x \in R[f] \/ x = <<p, c>>
  BY DEF Gains
<1>1. ~Uses(R, c) /\ c \notin L /\ c \in Blocks
  BY FileBlocksAssumption DEF Space, Marked, Data, Blocks
<1>2. InRange(Q)
  BY <1>0 DEF Space, InRange
<1>3. Once(Q)
  <2> SUFFICES ASSUME NEW g \in Files, NEW h \in Files, NEW x \in Q[g], NEW y \in Q[h],
                      x[2] = y[2]
               PROVE  g = h /\ x = y
    BY DEF Once
  <2>1. x \in R[g] \/ (g = f /\ x = <<p, c>>)
    BY <1>0
  <2>2. y \in R[h] \/ (h = f /\ y = <<p, c>>)
    BY <1>0
  <2>3. x \in R[g] => x[2] # c
    BY <1>1 DEF Uses
  <2>4. y \in R[h] => y[2] # c
    BY <1>1 DEF Uses
  <2> QED
    BY <2>1, <2>2, <2>3, <2>4 DEF Space, Once
<1>4. Apart(Q, L)
  BY <1>0, <1>1 DEF Space, Apart
<1>5. ASSUME NEW b \in Blocks PROVE Uses(Q, b) <=> Uses(R, b) \/ b = c
  <2>1. Q[f] = R[f] \cup {<<p, c>>}
    BY <1>0
  <2>2. Uses(R, b) => Uses(Q, b)
    BY <1>0, <2>1 DEF Uses
  <2>3. Uses(Q, c)
    <3>1. <<p, c>> \in Q[f] /\ <<p, c>>[2] = c
      BY <2>1
    <3> QED
      BY <3>1, Zenon DEF Uses
  <2>4. Uses(Q, b) => Uses(R, b) \/ b = c
    BY <1>0, <2>1 DEF Uses
  <2> QED
    BY <2>2, <2>3, <2>4
<1>6. Marked(fm \cup {c}, Q, L)
  BY <1>1, <1>5 DEF Space, Marked
<1> QED
  BY <1>1, <1>2, <1>3, <1>4, <1>6 DEF Space

\* Of the blocks of a file, X are freed, those in M \ L are lost, the rest stay.
Loses(R, Q, f, X, L, M) ==
  /\ \A g \in Files \ {f} : Q[g] = R[g]
  /\ Q[f] \subseteq R[f] /\ L \subseteq M /\ X \cap M = {}
  /\ \A b : b \in X \/ b \in M \ L <=> \E x \in R[f] \ Q[f] : x[2] = b

\* ... and when free_blk takes blocks back.
LEMMA TakeBlocks ==
  ASSUME NEW fm, NEW fb, NEW R, NEW L, Space(fm, fb, R, L), NEW f \in Files,
         NEW Q, NEW X, NEW M, Loses(R, Q, f, X, L, M)
  PROVE  Space(fm \ X, Min({fb} \cup X), Q, M)
<1>0. /\ \A g \in Files \ {f} : Q[g] = R[g]
      /\ Q[f] \subseteq R[f] /\ L \subseteq M /\ X \cap M = {}
      /\ \A b : b \in X \/ b \in M \ L <=> \E x \in R[f] \ Q[f] : x[2] = b
  BY DEF Loses
<1>1. ASSUME NEW b, b \in X \/ b \in M \ L PROVE b \in Data /\ ~Uses(Q, b) /\ Uses(R, b)
  <2>1. PICK x \in R[f] \ Q[f] : x[2] = b
    BY <1>0, <1>1
  <2>2. b \in Data
    BY <2>1 DEF Space, InRange
  <2>3. ASSUME NEW g \in Files, NEW y \in Q[g], y[2] = b PROVE FALSE
    <3>1. y \in R[g]
      BY <1>0
    <3>2. g = f /\ x = y
      BY <3>1, <2>1, <2>3 DEF Space, Once
    <3> QED
      BY <3>2, <2>1
  <2> QED
    BY <2>1, <2>2, <2>3 DEF Uses
<1>2. InRange(Q) /\ Once(Q)
  BY <1>0 DEF Space, InRange, Once
<1>3. Apart(Q, M)
  <2>1. M \subseteq Data
    BY <1>0, <1>1 DEF Space, Apart
  <2>2. ASSUME NEW g \in Files, NEW x \in Q[g] PROVE x[2] \notin M
    <3>1. Uses(Q, x[2])
      BY DEF Uses
    <3>2. x[2] \notin L
      BY <1>0 DEF Space, Apart
    <3> QED
      BY <3>1, <3>2, <1>1
  <2> QED
    BY <2>1, <2>2 DEF Apart
<1>4. ASSUME NEW b \in Blocks PROVE b \in fm \ X <=> b < DBLOCK \/ b \in M \/ Uses(Q, b)
  <2>1. b \in fm <=> b < DBLOCK \/ b \in L \/ Uses(R, b)
    BY DEF Space, Marked
  <2>2. Uses(R, b) => Uses(Q, b) \/ b \in X \/ b \in M
    BY <1>0 DEF Uses
  <2>3. Uses(Q, b) => Uses(R, b)
    BY <1>0 DEF Uses
  <2>4. b \in X => b \in Data /\ ~Uses(Q, b) /\ b \notin M
    BY <1>0, <1>1
  <2>5. (b \in M => b \in L \/ Uses(R, b)) /\ (b \in L => b \in M)
    BY <1>0, <1>1
  <2>6. b \in X => ~(b < DBLOCK)
    BY <2>4, FileBlocksAssumption DEF Data, Blocks
  <2> QED
    BY <2>1, <2>2, <2>3, <2>4, <2>5, <2>6, Zenon
<1>5. Marked(fm \ X, Q, M)
  BY <1>4 DEF Marked, Space
<1>6. X \subseteq Data
  BY <1>1
<1>7. {fb} \cup X \subseteq Nat
  BY <1>6, FileBlocksAssumption DEF Space, Scanned, Data
<1> DEFINE n == Min({fb} \cup X)
<1>8. n \in {fb} \cup X /\ \A x \in {fb} \cup X : n <= x
  BY <1>7, LeastBlock
<1> HIDE DEF n
<1>9. Scanned(fm \ X, n)
  <2>1. n \in 0 .. NBLOCKS /\ n <= fb
    BY <1>6, <1>8, FileBlocksAssumption DEF Space, Scanned, Data
  <2>2. ASSUME NEW i \in DBLOCK .. n - 1 PROVE i \in fm \ X
    <3>1. i < n /\ i < fb /\ i \in DBLOCK .. fb - 1
      BY <2>1, FileBlocksAssumption DEF Space, Scanned
    <3>2. i \notin X
      BY <3>1, <1>8, <2>1, FileBlocksAssumption
    <3> QED
      BY <3>1, <3>2 DEF Space, Scanned
  <2> QED
    BY <2>1, <2>2 DEF Scanned
<1> QED
  BY <1>2, <1>3, <1>5, <1>9 DEF Space, n

----------------------------------------------------------------------------
(* What becomes of the blocks of a file when words or entries change.        *)

MapsOf(n) == {n.map["bmap1"][i] : i \in Entry1} \ {0}

KeepsWords(d, e, S) == \A b \in S : e.words[b] = d.words[b]

\* A file whose maps keep their words keeps its blocks.
LEMMA SameRefs ==
  ASSUME NEW d, NEW e, NEW n, NEW m, NodeOK(n), NodeOK(m), m.map = n.map,
         KeepsWords(d, e, MapsOf(n))
  PROVE  RefsIn(e, m) = RefsIn(d, n)
<1>1. ASSUME NEW i \in Entry1, NEW j \in Index
      PROVE  Word(e, m.map["bmap1"][i], j) = Word(d, n.map["bmap1"][i], j)
  BY DEF Word, MapsOf, KeepsWords
<1>2. ASSUME NEW i \in Entry1, NEW j \in Index PROVE LowRef(e, m, i, j) = LowRef(d, n, i, j)
  BY <1>1 DEF LowRef
<1>3. ASSUME NEW t, NEW i PROVE TopRef(m, t, i) = TopRef(n, t, i)
  BY DEF TopRef
<1>4. ASSUME NEW x PROVE RefOf(e, m, x) <=> RefOf(d, n, x)
  <2>1. AtLeaf(e, m, x) <=> AtLeaf(d, n, x)
    BY <1>1, <1>2 DEF AtLeaf
  <2>2. \A t : AtEntry(m, t, x) <=> AtEntry(n, t, x)
    BY <1>3 DEF AtEntry
  <2> QED
    BY <2>1, <2>2 DEF RefOf
<1> QED
  BY <1>4, RefsAre

Enters(n, m, t, k, c) == m.map = [n.map EXCEPT ![t] = [n.map[t] EXCEPT ![k] = c]]

\* A new entry in the inode, for an erased block.
LEMMA TopGrown ==
  ASSUME NEW d, NEW e, NEW n, NEW m, NodeOK(n), NodeOK(m), NEW t \in {"bmap0", "bmap1"},
         NEW k \in 0 .. TableSize(t) - 1, NEW c \in Blocks \ {0},
         n.map[t][k] = 0, Enters(n, m, t, k, c),
         c \notin MapsOf(n), e.words[c] = Erased, KeepsWords(d, e, MapsOf(n))
  PROVE  RefsIn(e, m) = RefsIn(d, n) \cup {<<<<t, k>>, c>>}
<1>1. ASSUME NEW u \in {"bmap0", "bmap1"}, NEW i \in 0 .. TableSize(u) - 1
      PROVE  m.map[u][i] = IF u = t /\ i = k THEN c ELSE n.map[u][i]
  <2>1. n.map \in [Tables -> UNION {[0 .. TableSize(w) - 1 -> Blocks] : w \in Tables}]
    BY DEF NodeOK
  <2>2. n.map[t] \in [0 .. TableSize(t) - 1 -> Blocks] /\ u \in Tables /\ t \in Tables
    BY DEF NodeOK, Tables
  <2>3. m.map[u] = IF u = t THEN [n.map[t] EXCEPT ![k] = c] ELSE n.map[u]
    BY <2>1, <2>2 DEF Enters
  <2> QED
    BY <2>2, <2>3
<1>2. Entry0 = 0 .. TableSize("bmap0") - 1 /\ Entry1 = 0 .. TableSize("bmap1") - 1
  BY DEF Entry0, Entry1, TableSize
<1>3. ASSUME NEW i \in Entry1, NEW j \in Index
      PROVE  Word(e, m.map["bmap1"][i], j) = Word(d, n.map["bmap1"][i], j)
  <2>1. CASE t = "bmap1" /\ i = k
    BY <2>1, <1>1, <1>2 DEF Word, Erased
  <2>2. CASE ~(t = "bmap1" /\ i = k)
    BY <2>2, <1>1, <1>2 DEF Word, MapsOf, KeepsWords
  <2> QED
    BY <2>1, <2>2
<1>4. ASSUME NEW i \in Entry1, NEW j \in Index PROVE LowRef(e, m, i, j) = LowRef(d, n, i, j)
  BY <1>3 DEF LowRef
<1>5. ASSUME NEW u \in {"bmap0", "bmap1"}, NEW i \in 0 .. TableSize(u) - 1
      PROVE  TopRef(m, u, i) = IF u = t /\ i = k THEN <<<<t, k>>, c>> ELSE TopRef(n, u, i)
  BY <1>1 DEF TopRef
<1>6. ASSUME NEW u \in {"bmap0", "bmap1"}, NEW x
      PROVE  AtEntry(m, u, x) <=> AtEntry(n, u, x) \/ (u = t /\ x = <<<<t, k>>, c>>)
  <2>1. ASSUME AtEntry(m, u, x) PROVE AtEntry(n, u, x) \/ (u = t /\ x = <<<<t, k>>, c>>)
    <3>1. PICK i \in 0 .. TableSize(u) - 1 : m.map[u][i] # 0 /\ x = TopRef(m, u, i)
      BY <2>1 DEF AtEntry
    <3>2. CASE u = t /\ i = k
      BY <3>1, <3>2, <1>5
    <3>3. CASE ~(u = t /\ i = k)
      <4>1. n.map[u][i] # 0 /\ x = TopRef(n, u, i)
        BY <3>1, <3>3, <1>1, <1>5
      <4> QED
        BY <3>1, <4>1 DEF AtEntry
    <3> QED
      BY <3>2, <3>3
  <2>2. ASSUME AtEntry(n, u, x) PROVE AtEntry(m, u, x)
    <3>1. PICK i \in 0 .. TableSize(u) - 1 : n.map[u][i] # 0 /\ x = TopRef(n, u, i)
      BY <2>2 DEF AtEntry
    <3>2. ~(u = t /\ i = k)
      BY <3>1
    <3> QED
      BY <3>1, <3>2, <1>1, <1>5 DEF AtEntry
  <2>3. ASSUME u = t, x = <<<<t, k>>, c>> PROVE AtEntry(m, u, x)
    <3>1. k \in 0 .. TableSize(u) - 1 /\ m.map[u][k] # 0 /\ x = TopRef(m, u, k)
      BY <2>3, <1>1, <1>5
    <3> QED
      BY <3>1 DEF AtEntry
  <2> QED
    BY <2>1, <2>2, <2>3
<1>7. ASSUME NEW x PROVE AtLeaf(e, m, x) <=> AtLeaf(d, n, x)
  BY <1>3, <1>4 DEF AtLeaf
<1>8. ASSUME NEW x PROVE RefOf(e, m, x) <=> RefOf(d, n, x) \/ x = <<<<t, k>>, c>>
  <2> DEFINE New == x = <<<<t, k>>, c>>
  <2>1. AtEntry(m, "bmap0", x) <=> AtEntry(n, "bmap0", x) \/ ("bmap0" = t /\ New)
    BY <1>6
  <2>2. AtEntry(m, "bmap1", x) <=> AtEntry(n, "bmap1", x) \/ ("bmap1" = t /\ New)
    BY <1>6
  <2> HIDE DEF New
  <2>a. "bmap0" = t \/ "bmap1" = t
    OBVIOUS
  <2>3. RefOf(e, m, x) <=> RefOf(d, n, x) \/ New
    BY <2>1, <2>2, <2>a, <1>7 DEF RefOf
  <2> QED
    BY <2>3 DEF New
<1>9. \A x : x \in RefsIn(e, m) <=> x \in RefsIn(d, n) \/ x = <<<<t, k>>, c>>
  BY <1>8, RefsAre
<1> QED
  BY <1>9

\* A new entry in a map block, for an erased block.
SetsWord(d, e, b, l, c) == e.words[b] = [d.words[b] EXCEPT ![l] = c]
OnlyAt(n, k, b) == \A i \in Entry1 : n.map["bmap1"][i] = b => i = k

LowGrows(d, e, n, m, k, l, c, b) ==
  /\ NodeOK(n) /\ NodeOK(m) /\ m.map = n.map /\ k \in Entry1 /\ l \in Index
  /\ c \in Blocks \ {0} /\ b \in Blocks \ {0} /\ n.map["bmap1"][k] = b
  /\ OnlyAt(n, k, b) /\ Word(d, b, l) = 0 /\ SetsWord(d, e, b, l, c)
  /\ d.words[b] \in [Index -> 0 .. Datum] /\ KeepsWords(d, e, MapsOf(n) \ {b})

\* A new entry in a map block of one file.
LEMMA LowGrown ==
  ASSUME NEW d, NEW e, NEW n, NEW m, NEW k, NEW l, NEW c, NEW b,
         LowGrows(d, e, n, m, k, l, c, b)
  PROVE  RefsIn(e, m) = RefsIn(d, n) \cup {<<<<"bmap1", k, l>>, c>>}
<1> USE DEF LowGrows
<1>1. ASSUME NEW i \in Entry1, NEW j \in Index
      PROVE  Word(e, m.map["bmap1"][i], j)
               = IF i = k /\ j = l THEN c ELSE Word(d, n.map["bmap1"][i], j)
  <2>1. CASE i = k
    BY <2>1 DEF Word, SetsWord
  <2>2. CASE i # k
    BY <2>2 DEF Word, MapsOf, KeepsWords, OnlyAt
  <2> QED
    BY <2>1, <2>2
<1>2. ASSUME NEW i \in Entry1, NEW j \in Index
      PROVE  LowRef(e, m, i, j)
               = IF i = k /\ j = l THEN <<<<"bmap1", k, l>>, c>> ELSE LowRef(d, n, i, j)
  BY <1>1 DEF LowRef
<1>3. ASSUME NEW t, NEW i PROVE TopRef(m, t, i) = TopRef(n, t, i)
  BY DEF TopRef
<1>4. ASSUME NEW x PROVE AtLeaf(e, m, x) <=> AtLeaf(d, n, x) \/ x = <<<<"bmap1", k, l>>, c>>
  BY <1>1, <1>2 DEF AtLeaf
<1>5. ASSUME NEW x PROVE RefOf(e, m, x) <=> RefOf(d, n, x) \/ x = <<<<"bmap1", k, l>>, c>>
  <2>1. \A t : AtEntry(m, t, x) <=> AtEntry(n, t, x)
    BY <1>3 DEF AtEntry
  <2> QED
    BY <2>1, <1>4 DEF RefOf
<1>6. \A x : x \in RefsIn(e, m) <=> x \in RefsIn(d, n) \/ x = <<<<"bmap1", k, l>>, c>>
  BY <1>5, RefsAre
<1> QED
  BY <1>6

----------------------------------------------------------------------------
(* The inductive invariant, about a disk d, the inodes F and the lost blocks *)
(* L as values, because a write changes d and F in several steps.            *)

Owned(d, F) ==
  [f \in Files |-> IF F[f].ino # 0 THEN {<<<<"ino">>, F[f].ino>>} \cup RefsIn(d, F[f]) ELSE {}]
Nodes(F) == F = [f \in Files |-> F[f]] /\ \A f \in Files : NodeOK(F[f])
Counts(d, F) ==
  \A f \in Files : F[f].ino # 0 =>
    IsFiniteSet(RefsIn(d, F[f])) /\ F[f].blocks = Cardinality(RefsIn(d, F[f]))
Good(d, F, L) ==
  DiskOK(d) /\ Nodes(F) /\ Counts(d, F) /\ Space(d.freemap, d.freeblk, Owned(d, F), L)

\* The blocks a file reads from, its maps aside.
LeafOf(d, n, b) ==
  \/ \E i \in Entry0 : b = n.map["bmap0"][i]
  \/ \E i \in Entry1, j \in Index : b = Word(d, n.map["bmap1"][i], j)

\* A map block and a leaf are references of their file, at different places.
LEMMA MapRef ==
  ASSUME NEW d, NEW n, NodeOK(n), NEW b \in MapsOf(n)
  PROVE  \E i \in Entry1 : n.map["bmap1"][i] = b /\ <<<<"bmap1", i>>, b>> \in RefsIn(d, n)
<1>1. PICK i \in Entry1 : n.map["bmap1"][i] = b /\ b # 0
  BY DEF MapsOf
<1>2. i \in 0 .. TableSize("bmap1") - 1 /\ TopRef(n, "bmap1", i) = <<<<"bmap1", i>>, b>>
  BY <1>1 DEF TopRef, Entry1, TableSize
<1>3. AtEntry(n, "bmap1", <<<<"bmap1", i>>, b>>)
  BY <1>1, <1>2 DEF AtEntry
<1> QED
  BY <1>1, <1>3, RefsAre DEF RefOf

\* A block read from is a reference of its file too.
LEMMA LeafRef ==
  ASSUME NEW d, NEW n, NodeOK(n), NEW b, b # 0, LeafOf(d, n, b)
  PROVE  \/ \E i \in Entry0 : <<<<"bmap0", i>>, b>> \in RefsIn(d, n)
         \/ \E i \in Entry1, j \in Index : <<<<"bmap1", i, j>>, b>> \in RefsIn(d, n)
<1>1. CASE \E i \in Entry0 : b = n.map["bmap0"][i]
  <2>1. PICK i \in Entry0 : b = n.map["bmap0"][i]
    BY <1>1
  <2>2. i \in 0 .. TableSize("bmap0") - 1 /\ TopRef(n, "bmap0", i) = <<<<"bmap0", i>>, b>>
    BY <2>1 DEF TopRef, Entry0, TableSize
  <2>3. AtEntry(n, "bmap0", <<<<"bmap0", i>>, b>>)
    BY <2>1, <2>2 DEF AtEntry
  <2> QED
    BY <2>1, <2>3, RefsAre DEF RefOf
<1>2. CASE \E i \in Entry1, j \in Index : b = Word(d, n.map["bmap1"][i], j)
  <2>1. PICK i \in Entry1, j \in Index : b = Word(d, n.map["bmap1"][i], j)
    BY <1>2
  <2>2. LowRef(d, n, i, j) = <<<<"bmap1", i, j>>, b>>
    BY <2>1 DEF LowRef
  <2>3. AtLeaf(d, n, <<<<"bmap1", i, j>>, b>>)
    BY <2>1, <2>2 DEF AtLeaf
  <2> QED
    BY <2>1, <2>3, RefsAre DEF RefOf
<1> QED
  BY <1>1, <1>2 DEF LeafOf

\* A map block is in one place of one file, and no file reads from it.
LEMMA Places ==
  ASSUME NEW d, NEW F, NEW L, Good(d, F, L), NEW f \in Files, F[f].ino # 0,
         NEW g \in Files, F[g].ino # 0, NEW b \in MapsOf(F[g])
  PROVE  /\ b \in Data /\ b \in d.freemap
         /\ ~LeafOf(d, F[f], b)
         /\ f # g => b \notin MapsOf(F[f])
         /\ \A i, j \in Entry1 : F[g].map["bmap1"][i] = b /\ F[g].map["bmap1"][j] = b => i = j
<1> DEFINE R == Owned(d, F)
<1>0. NodeOK(F[f]) /\ NodeOK(F[g]) /\ RefsIn(d, F[f]) \subseteq R[f] /\ RefsIn(d, F[g]) \subseteq R[g]
  BY DEF Good, Nodes, Owned
<1>1. InRange(R) /\ Once(R) /\ Marked(d.freemap, R, L)
  BY DEF Good, Space
<1> HIDE DEF R
<1>2. PICK k \in Entry1 : F[g].map["bmap1"][k] = b /\ <<<<"bmap1", k>>, b>> \in R[g]
  BY <1>0, MapRef
<1> DEFINE x == <<<<"bmap1", k>>, b>>
<1>3. x \in R[g] /\ x[2] = b /\ x[1] = <<"bmap1", k>>
  BY <1>2
<1> HIDE DEF x
<1>4. b \in Data
  BY <1>3, <1>1 DEF InRange
<1>5. b \in d.freemap
  <2>1. Uses(R, b) /\ b \in Blocks
    BY <1>3, <1>4, FileBlocksAssumption DEF Uses, Data, Blocks
  <2> QED
    BY <2>1, <1>1 DEF Marked
<1>6. \A h \in Files : \A y \in R[h] : y[2] = b => g = h /\ x = y
  BY <1>1, <1>3 DEF Once
<1>7. ~LeafOf(d, F[f], b)
  <2> SUFFICES ASSUME LeafOf(d, F[f], b) PROVE FALSE
    OBVIOUS
  <2>0. b # 0
    BY <1>4, FileBlocksAssumption DEF Data
  <2>1. CASE \E i \in Entry0 : <<<<"bmap0", i>>, b>> \in R[f]
    <3>1. PICK i \in Entry0 : <<<<"bmap0", i>>, b>> \in R[f]
      BY <2>1
    <3>2. x = <<<<"bmap0", i>>, b>>
      BY <3>1, <1>6
    <3> QED
      BY <3>2, <1>3
  <2>2. CASE \E i \in Entry1, j \in Index : <<<<"bmap1", i, j>>, b>> \in R[f]
    <3>1. PICK i \in Entry1, j \in Index : <<<<"bmap1", i, j>>, b>> \in R[f]
      BY <2>2
    <3>2. x = <<<<"bmap1", i, j>>, b>>
      BY <3>1, <1>6
    <3> QED
      BY <3>2, <1>3
  <2> QED
    BY <2>0, <2>1, <2>2, <1>0, LeafRef
<1>8. f # g => b \notin MapsOf(F[f])
  <2> SUFFICES ASSUME b \in MapsOf(F[f]) PROVE f = g
    OBVIOUS
  <2>1. PICK i \in Entry1 : <<<<"bmap1", i>>, b>> \in R[f]
    BY <1>0, MapRef
  <2> QED
    BY <2>1, <1>6
<1>9. ASSUME NEW i \in Entry1, F[g].map["bmap1"][i] = b PROVE i = k
  <2>1. i \in 0 .. TableSize("bmap1") - 1 /\ TopRef(F[g], "bmap1", i) = <<<<"bmap1", i>>, b>> /\ b # 0
    BY <1>9, <1>4, FileBlocksAssumption DEF TopRef, Entry1, TableSize, Data
  <2>2. AtEntry(F[g], "bmap1", <<<<"bmap1", i>>, b>>)
    BY <2>1, <1>9 DEF AtEntry
  <2>3. <<<<"bmap1", i>>, b>> \in R[g]
    BY <2>2, <1>0, RefsAre DEF RefOf
  <2>4. x = <<<<"bmap1", i>>, b>>
    BY <2>3, <1>6
  <2> QED
    BY <2>4, <1>3
<1> QED
  BY <1>4, <1>5, <1>7, <1>8, <1>9

OthersKeep(d, e, F, f) ==
  \A g \in Files \ {f} : F[g].ino # 0 => RefsIn(e, F[g]) = RefsIn(d, F[g])

\* One more block for file f, however it is entered in its maps.
LEMMA Grown ==
  ASSUME NEW d, NEW F, NEW L, Good(d, F, L), NEW f \in Files, F[f].ino # 0,
         NEW c \in Data, c \notin d.freemap, Scanned(d.freemap \cup {c}, c + 1),
         NEW e, DiskOK(e), e.freemap = d.freemap \cup {c}, e.freeblk = c + 1,
         NEW m, NodeOK(m), m.ino = F[f].ino, m.blocks = F[f].blocks + 1, NEW p,
         RefsIn(e, m) = RefsIn(d, F[f]) \cup {<<p, c>>}, OthersKeep(d, e, F, f)
  PROVE  Good(e, [F EXCEPT ![f] = m], L)
<1> DEFINE G == [F EXCEPT ![f] = m]
           R == Owned(d, F)
           Q == Owned(e, G)
<1>1. Nodes(G) /\ G[f] = m /\ \A g \in Files \ {f} : G[g] = F[g]
  BY DEF Good, Nodes
<1> HIDE DEF G
<1>2. \A g \in Files \ {f} : Q[g] = R[g]
  BY <1>1 DEF Owned, OthersKeep
<1>3. \A x : x \in Q[f] <=> x \in R[f] \/ x = <<p, c>>
  BY <1>1 DEF Owned
<1>4. Space(d.freemap, d.freeblk, R, L)
  BY DEF Good
<1>5. RefsIn(d, F[f]) \subseteq R[f]
  BY DEF Owned
<1> HIDE DEF Q, R
<1>6. ~Uses(R, c) /\ Space(d.freemap \cup {c}, c + 1, Q, L)
  <2>1. Gains(Q, R, f, p, c)
    BY <1>2, <1>3, Zenon DEF Gains
  <2> QED
    BY <2>1, <1>4, GiveBlock
<1>7. Counts(e, G)
  <2>1. <<p, c>> \notin RefsIn(d, F[f])
    <3>1. <<p, c>>[2] = c
      OBVIOUS
    <3> QED
      BY <3>1, <1>5, <1>6, Zenon DEF Uses
  <2>2. IsFiniteSet(RefsIn(d, F[f])) /\ F[f].blocks = Cardinality(RefsIn(d, F[f]))
    BY DEF Good, Counts
  <2>3. RefsIn(e, m) = RefsIn(d, F[f]) \cup {<<p, c>>}
    OBVIOUS
  <2>4. IsFiniteSet(RefsIn(e, m)) /\ m.blocks = Cardinality(RefsIn(e, m))
    <3> DEFINE S == RefsIn(d, F[f])
               x == <<p, c>>
    <3>1. IsFiniteSet(S) /\ x \notin S
      BY <2>1, <2>2
    <3> HIDE DEF S, x
    <3>2. IsFiniteSet(S \cup {x}) /\ Cardinality(S \cup {x}) = Cardinality(S) + 1
      BY <3>1, FS_AddElement
    <3> QED
      BY <2>2, <2>3, <3>2 DEF S, x
  <2>5. ASSUME NEW g \in Files \ {f}, F[g].ino # 0
        PROVE  IsFiniteSet(RefsIn(e, F[g])) /\ F[g].blocks = Cardinality(RefsIn(e, F[g]))
    BY <2>5 DEF Good, Counts, OthersKeep
  <2> QED
    BY <2>4, <2>5, <1>1 DEF Counts
<1> QED
  BY <1>1, <1>6, <1>7 DEF Good, G, Q

----------------------------------------------------------------------------
(* What a file reads as, when no block is behind two maps.                   *)

Shallow == 0 .. BMAP0_SIZE + BMAP1_SIZE * FAN - 1
Raw(d, n, bn, i) == Word(d, Bmap(d, n, bn), i)
Quot(x) == x \div FAN
Rem(x)  == x % FAN

\* A position is a block of the file and a word in it.
LEMMA Division ==
  /\ \A x \in Nat : Quot(x) \in Nat /\ Rem(x) \in Index
  /\ \A x, k \in Nat : x < k * FAN => Quot(x) < k
  /\ \A x, y \in Nat : Quot(x) = Quot(y) /\ Rem(x) = Rem(y) => x = y
  /\ \A x \in Nat : x = FAN * Quot(x) + Rem(x)
<1>0. FAN \in Nat \ {0}
  BY FileBlocksAssumption
<1>1. \A x \in Nat : Quot(x) \in Nat /\ Rem(x) \in Index
  BY <1>0 DEF Quot, Rem, Index
<1>2. ASSUME NEW x \in Nat, NEW k \in Nat, x < k * FAN PROVE x \div FAN < k
  BY <1>0, <1>2
<1>3. ASSUME NEW x \in Nat PROVE x % FAN = x - FAN * (x \div FAN)
  BY <1>0, Z3
<1>4. ASSUME NEW x \in Nat PROVE x = FAN * Quot(x) + Rem(x)
  <2>1. FAN * Quot(x) \in Nat
    BY <1>0, <1>1
  <2>2. Rem(x) = x - FAN * Quot(x)
    BY <1>3, Zenon DEF Quot, Rem
  <2> QED
    BY <2>1, <2>2
<1>5. ASSUME NEW x \in Nat, NEW y \in Nat, Quot(x) = Quot(y), Rem(x) = Rem(y) PROVE x = y
  BY <1>4, <1>5
<1> QED
  BY <1>1, <1>2, <1>4, <1>5 DEF Quot

\* bmap of a block that is not behind two maps.
LEMMA BmapIs ==
  ASSUME NEW d, NEW n, NEW bn \in Shallow
  PROVE  /\ bn < BMAP0_SIZE =>
              /\ Table(bn) = "bmap0" /\ Top(bn) = bn /\ bn \in Entry0
              /\ Bmap(d, n, bn) = n.map["bmap0"][bn]
         /\ ~(bn < BMAP0_SIZE) =>
              /\ Table(bn) = "bmap1" /\ Top(bn) = Quot(bn - BMAP0_SIZE) /\ Top(bn) \in Entry1
              /\ Place(bn) % FAN = Rem(bn - BMAP0_SIZE) /\ Rem(bn - BMAP0_SIZE) \in Index
              /\ Bmap(d, n, bn) = Word(d, n.map["bmap1"][Top(bn)], Rem(bn - BMAP0_SIZE))
<1>0. FAN \in Nat \ {0} /\ BMAP0_SIZE \in Nat /\ BMAP1_SIZE \in Nat /\ BMAP1_SIZE * FAN \in Nat
  BY FileBlocksAssumption
<1>1. bn \in Nat /\ bn < BMAP0_SIZE + BMAP1_SIZE * FAN
  BY <1>0 DEF Shallow
<1>2. CASE bn < BMAP0_SIZE
  <2>1. Table(bn) = "bmap0"
    BY <1>0, <1>1, <1>2 DEF Table
  <2>2. Place(bn) = bn
    BY <2>1 DEF Place
  <2>3. Top(bn) = bn
    BY <2>1, <2>2 DEF Top
  <2>4. bn \in Entry0 /\ ~(bn >= TableSize("bmap0"))
    BY <1>0, <1>1, <1>2 DEF Entry0, TableSize
  <2>5. Bmap(d, n, bn) = n.map["bmap0"][bn]
    BY <2>1, <2>3, <2>4 DEF Bmap
  <2> QED
    BY <1>2, <2>1, <2>3, <2>4, <2>5
<1>3. CASE ~(bn < BMAP0_SIZE)
  <2> DEFINE p == bn - BMAP0_SIZE
  <2>0. p \in Nat /\ p < BMAP1_SIZE * FAN
    BY <1>0, <1>1, <1>3
  <2>1. Table(bn) = "bmap1"
    BY <1>0, <1>1, <1>3 DEF Table
  <2>2. Place(bn) = p
    BY <2>1 DEF Place
  <2> HIDE DEF p
  <2>3. Top(bn) = Quot(p)
    BY <2>1, <2>2 DEF Top, Quot
  <2>4. Quot(p) \in Nat /\ Quot(p) < BMAP1_SIZE /\ Rem(p) \in Index
    BY <2>0, <1>0, Division
  <2>5. Top(bn) \in Entry1 /\ ~(Top(bn) >= TableSize("bmap1"))
    BY <2>3, <2>4, <1>0 DEF Entry1, TableSize
  <2>6. Place(bn) % FAN = Rem(p)
    BY <2>2 DEF Rem
  <2>7. Bmap(d, n, bn) = Word(d, n.map["bmap1"][Top(bn)], Rem(p))
    BY <2>1, <2>5, <2>6 DEF Bmap
  <2> QED
    BY <1>3, <2>1, <2>3, <2>4, <2>5, <2>6, <2>7 DEF p
<1> QED
  BY <1>2, <1>3

\* What bmap finds is a leaf.
LEMMA BmapLeaf ==
  ASSUME NEW d, NEW n, NEW bn \in Shallow
  PROVE  LeafOf(d, n, Bmap(d, n, bn))
BY BmapIs DEF LeafOf

\* A file that keeps its maps, and whose maps and leaves keep their words.
KeepsText(d, n, e, m) == \A bn \in Shallow, i \in Index : Raw(e, m, bn, i) = Raw(d, n, bn, i)

\* What such a file holds stays.
LEMMA SameRaw ==
  ASSUME NEW d, NEW e, NEW n, NEW m, m.map = n.map,
         KeepsWords(d, e, MapsOf(n)), KeepsWords(d, e, {b \in Blocks \ {0} : LeafOf(d, n, b)})
  PROVE  KeepsText(d, n, e, m)
<1> SUFFICES ASSUME NEW bn \in Shallow, NEW i \in Index
             PROVE  Raw(e, m, bn, i) = Raw(d, n, bn, i)
  BY DEF KeepsText
<1>1. ASSUME NEW k \in Entry1, NEW j
      PROVE  Word(e, m.map["bmap1"][k], j) = Word(d, n.map["bmap1"][k], j)
  BY DEF Word, MapsOf, KeepsWords
<1>2. Bmap(e, m, bn) = Bmap(d, n, bn)
  <2>1. CASE bn < BMAP0_SIZE
    BY <2>1, BmapIs
  <2>2. CASE ~(bn < BMAP0_SIZE)
    BY <2>2, <1>1, BmapIs
  <2> QED
    BY <2>1, <2>2
<1>3. LeafOf(d, n, Bmap(d, n, bn))
  BY BmapLeaf
<1> QED
  BY <1>2, <1>3 DEF Raw, Word, KeepsWords

\* A new entry for an erased block shows as zeros, as a hole does ...
LEMMA TopRaw ==
  ASSUME NEW d, NEW e, NEW n, NEW m, NodeOK(n), NodeOK(m), NEW t \in {"bmap0", "bmap1"},
         NEW k \in 0 .. TableSize(t) - 1, NEW c \in Blocks \ {0},
         n.map[t][k] = 0, Enters(n, m, t, k, c),
         e.words[c] = Erased, KeepsWords(d, e, Blocks \ {c}),
         c \notin MapsOf(n), ~LeafOf(d, n, c)
  PROVE  KeepsText(d, n, e, m)
<1> SUFFICES ASSUME NEW bn \in Shallow, NEW i \in Index
             PROVE  Raw(e, m, bn, i) = Raw(d, n, bn, i)
  BY DEF KeepsText
<1>1. ASSUME NEW u \in {"bmap0", "bmap1"}, NEW j \in 0 .. TableSize(u) - 1
      PROVE  m.map[u][j] = IF u = t /\ j = k THEN c ELSE n.map[u][j]
  <2>1. n.map \in [Tables -> UNION {[0 .. TableSize(w) - 1 -> Blocks] : w \in Tables}]
    BY DEF NodeOK
  <2>2. n.map[t] \in [0 .. TableSize(t) - 1 -> Blocks] /\ u \in Tables /\ t \in Tables
    BY DEF NodeOK, Tables
  <2>3. m.map[u] = IF u = t THEN [n.map[t] EXCEPT ![k] = c] ELSE n.map[u]
    BY <2>1, <2>2 DEF Enters
  <2> QED
    BY <2>2, <2>3
<1>2. Entry0 = 0 .. TableSize("bmap0") - 1 /\ Entry1 = 0 .. TableSize("bmap1") - 1
  BY DEF Entry0, Entry1, TableSize
<1>3. \A j \in Index : Word(e, c, j) = 0
  BY DEF Word, Erased
<1>4. ASSUME NEW b, b # c, NEW j PROVE Word(e, b, j) = Word(d, b, j)
  BY <1>4 DEF Word, KeepsWords
<1>5. Bmap(e, m, bn) = Bmap(d, n, bn) \/ (Bmap(e, m, bn) = c /\ Bmap(d, n, bn) = 0)
  <2>1. CASE bn < BMAP0_SIZE
    <3>1. bn \in 0 .. TableSize("bmap0") - 1
      BY <2>1, <1>2, BmapIs
    <3>2. m.map["bmap0"][bn] = n.map["bmap0"][bn] \/ (m.map["bmap0"][bn] = c /\ n.map["bmap0"][bn] = 0)
      BY <3>1, <1>1
    <3>3. Bmap(e, m, bn) = m.map["bmap0"][bn] /\ Bmap(d, n, bn) = n.map["bmap0"][bn]
      <4>1. bn \in Shallow
        OBVIOUS
      <4> QED
        BY ONLY <2>1, <4>1, BmapIs
    <3> QED
      BY <3>2, <3>3
  <2>2. CASE ~(bn < BMAP0_SIZE)
    <3> DEFINE j == Top(bn)
               l == Rem(bn - BMAP0_SIZE)
    <3>1. j \in Entry1 /\ l \in Index /\ j \in 0 .. TableSize("bmap1") - 1
      BY <2>2, <1>2, BmapIs
    <3>2. Bmap(e, m, bn) = Word(e, m.map["bmap1"][j], l) /\ Bmap(d, n, bn) = Word(d, n.map["bmap1"][j], l)
      BY <2>2, BmapIs
    <3> HIDE DEF j, l
    <3>3. CASE "bmap1" = t /\ j = k
      <4>1. m.map["bmap1"][j] = c /\ n.map["bmap1"][j] = 0
        BY <3>1, <3>3, <1>1
      <4>2. Word(e, c, l) = 0 /\ Word(d, 0, l) = 0
        BY <1>3, <3>1 DEF Word
      <4> QED
        BY <4>1, <4>2, <3>2
    <3>4. CASE ~("bmap1" = t /\ j = k)
      <4>1. m.map["bmap1"][j] = n.map["bmap1"][j]
        BY <3>1, <3>4, <1>1
      <4>2. n.map["bmap1"][j] # c
        BY <3>1 DEF MapsOf
      <4> QED
        BY <4>1, <4>2, <1>4, <3>2
    <3> QED
      BY <3>3, <3>4
  <2> QED
    BY <2>1, <2>2
<1>6. Bmap(d, n, bn) # c
  BY BmapLeaf
<1>7. CASE Bmap(e, m, bn) = Bmap(d, n, bn)
  BY <1>4, <1>6, <1>7 DEF Raw
<1>8. CASE Bmap(e, m, bn) = c /\ Bmap(d, n, bn) = 0
  BY <1>3, <1>8 DEF Raw, Word
<1> QED
  BY <1>5, <1>7, <1>8

\* ... in the inode as in a map block.
LEMMA LowRaw ==
  ASSUME NEW d, NEW e, NEW n, NEW m, NodeOK(n), m.map = n.map,
         NEW k \in Entry1, NEW l \in Index, NEW c \in Blocks \ {0}, NEW b \in Blocks \ {0},
         n.map["bmap1"][k] = b, b # c, Word(d, b, l) = 0,
         e.words[b] = [d.words[b] EXCEPT ![l] = c], d.words[b] \in [Index -> 0 .. Datum],
         e.words[c] = Erased, KeepsWords(d, e, Blocks \ {b, c}),
         c \notin MapsOf(n), ~LeafOf(d, n, c), ~LeafOf(d, n, b)
  PROVE  KeepsText(d, n, e, m)
<1> SUFFICES ASSUME NEW bn \in Shallow, NEW i \in Index
             PROVE  Raw(e, m, bn, i) = Raw(d, n, bn, i)
  BY DEF KeepsText
<1>3. \A j \in Index : Word(e, c, j) = 0
  BY DEF Word, Erased
<1>4. ASSUME NEW a, a # c, a # b, NEW j PROVE Word(e, a, j) = Word(d, a, j)
  BY <1>4 DEF Word, KeepsWords
<1>5. ASSUME NEW j \in Index
      PROVE  Word(e, b, j) = IF j = l THEN c ELSE Word(d, b, j)
  BY DEF Word
<1>6. Bmap(e, m, bn) = Bmap(d, n, bn) \/ (Bmap(e, m, bn) = c /\ Bmap(d, n, bn) = 0)
  <2>1. CASE bn < BMAP0_SIZE
    BY <2>1, BmapIs
  <2>2. CASE ~(bn < BMAP0_SIZE)
    <3> DEFINE j == Top(bn)
               h == Rem(bn - BMAP0_SIZE)
    <3>1. j \in Entry1 /\ h \in Index
      BY <2>2, BmapIs
    <3>2. Bmap(e, m, bn) = Word(e, n.map["bmap1"][j], h) /\ Bmap(d, n, bn) = Word(d, n.map["bmap1"][j], h)
      BY <2>2, BmapIs
    <3> HIDE DEF j, h
    <3>3. n.map["bmap1"][j] # c
      BY <3>1 DEF MapsOf
    <3>4. CASE n.map["bmap1"][j] = b
      BY <3>1, <3>2, <3>4, <1>5
    <3>5. CASE n.map["bmap1"][j] # b
      BY <3>2, <3>3, <3>5, <1>4
    <3> QED
      BY <3>4, <3>5
  <2> QED
    BY <2>1, <2>2
<1>7. Bmap(d, n, bn) # c /\ Bmap(d, n, bn) # b
  BY BmapLeaf
<1>8. CASE Bmap(e, m, bn) = Bmap(d, n, bn)
  BY <1>4, <1>7, <1>8 DEF Raw
<1>9. CASE Bmap(e, m, bn) = c /\ Bmap(d, n, bn) = 0
  BY <1>3, <1>9 DEF Raw, Word
<1> QED
  BY <1>6, <1>8, <1>9

----------------------------------------------------------------------------
(* A walk to block bn of file f, which allocates on its way.  It began with  *)
(* disk D and inodes F.                                                      *)

SameText(d, F, e, G) ==
  \A g \in Files : F[g].ino # 0 => KeepsText(d, F[g], e, G[g])
WalkRec(w) == w = [d |-> w.d, n |-> w.n, blk |-> w.blk, err |-> w.err]
WalkOK(w, D, F, f, L) ==
  /\ WalkRec(w) /\ Good(w.d, [F EXCEPT ![f] = w.n], L)
  /\ w.n.ino = F[f].ino /\ w.n.size = F[f].size
  /\ SameText(D, F, w.d, [F EXCEPT ![f] = w.n])

\* A block the map does not show is in no file.
LEMMA FreshIs ==
  ASSUME NEW d, NEW F, NEW L, Good(d, F, L), NEW f \in Files, F[f].ino # 0,
         NEW c \in Data, c \notin d.freemap
  PROVE  c \in Blocks \ {0} /\ c \notin MapsOf(F[f]) /\ ~LeafOf(d, F[f], c)
<1>1. c \in Blocks /\ c # 0
  BY FileBlocksAssumption DEF Data, Blocks
<1>2. c \notin MapsOf(F[f])
  BY Places
<1>3. ASSUME LeafOf(d, F[f], c) PROVE FALSE
  <2>1. NodeOK(F[f])
    BY DEF Good, Nodes
  <2>2. PICK p : <<p, c>> \in RefsIn(d, F[f])
    BY <1>1, <1>3, <2>1, LeafRef
  <2>3. <<p, c>> \in Owned(d, F)[f] /\ <<p, c>>[2] = c
    BY <2>2 DEF Owned
  <2>4. Uses(Owned(d, F), c)
    BY <2>3, Zenon DEF Uses
  <2> QED
    BY <2>4, <1>1 DEF Good, Space, Marked
<1> QED
  BY <1>1, <1>2, <1>3

\* The fields of a walk that has taken a block.
LEMMA GrowIs ==
  ASSUME NEW w, WalkRec(w), NodeOK(w.n)
  PROVE  /\ WalkRec(Grow(w)) /\ Grow(w).d = AllocBlk(w.d)
         /\ Grow(w).blk = Min(Candidates(w.d)) /\ Grow(w).err = w.err
         /\ Grow(w).n = [ino |-> w.n.ino, map |-> w.n.map, size |-> w.n.size,
                         blocks |-> w.n.blocks + 1]
<1> DEFINE n == [w.n EXCEPT !.blocks = w.n.blocks + 1]
           e == AllocBlk(w.d)
           b == Min(Candidates(w.d))
<1>1. Grow(w) = [d |-> e, n |-> n, blk |-> b, err |-> w.err]
  <2> DEFINE w1 == [w EXCEPT !.d = e]
             w2 == [w1 EXCEPT !.blk = b]
  <2>1. Grow(w) = [w2 EXCEPT !.n = n]
    BY DEF Grow
  <2> HIDE DEF n, e, b
  <2>2. w1 = [d |-> e, n |-> w.n, blk |-> w.blk, err |-> w.err]
    BY DEF WalkRec
  <2> HIDE DEF w1
  <2>3. w2 = [d |-> e, n |-> w.n, blk |-> b, err |-> w.err]
    BY <2>2
  <2> HIDE DEF w2
  <2> QED
    BY <2>1, <2>3
<1>2. [w.n EXCEPT !.blocks = w.n.blocks + 1]
        = [ino |-> w.n.ino, map |-> w.n.map, size |-> w.n.size, blocks |-> w.n.blocks + 1]
  BY DEF NodeOK
<1> QED
  BY <1>1, <1>2 DEF WalkRec

\* An inode with one more entry.
LEMMA NodeSet ==
  ASSUME NEW n, NodeOK(n), NEW t \in {"bmap0", "bmap1"}, NEW k \in 0 .. TableSize(t) - 1,
         NEW c \in Blocks, NEW m,
         m = [ino |-> n.ino, map |-> [n.map EXCEPT ![t] = [n.map[t] EXCEPT ![k] = c]],
              size |-> n.size, blocks |-> n.blocks + 1]
  PROVE  NodeOK(m)
<1> DEFINE M == [n.map EXCEPT ![t] = [n.map[t] EXCEPT ![k] = c]]
<1>1. /\ t \in Tables /\ n.map[t] \in [0 .. TableSize(t) - 1 -> Blocks] /\ "bmap2" \in Tables
      /\ n.map \in [Tables -> UNION {[0 .. TableSize(u) - 1 -> Blocks] : u \in Tables}]
  BY DEF Tables, NodeOK
<1>2. M["bmap2"] = n.map["bmap2"]
  BY <1>1
<1>3. ASSUME NEW u \in Tables PROVE M[u] \in [0 .. TableSize(u) - 1 -> Blocks]
  <2>1. n.map[u] \in [0 .. TableSize(u) - 1 -> Blocks]
    BY DEF NodeOK
  <2>2. M[u] = IF u = t THEN [n.map[t] EXCEPT ![k] = c] ELSE n.map[u]
    BY <1>1
  <2> QED
    BY <1>1, <2>1, <2>2
<1>4. M \in [Tables -> UNION {[0 .. TableSize(u) - 1 -> Blocks] : u \in Tables}]
  <2>1. DOMAIN M = Tables /\ M = [u \in DOMAIN M |-> M[u]]
    BY <1>1
  <2> HIDE DEF M
  <2> QED
    BY <2>1, <1>3
<1>5. m.map = M /\ m.ino = n.ino /\ m.size = n.size /\ m.blocks = n.blocks + 1
  OBVIOUS
<1>6. m = [ino |-> m.ino, map |-> m.map, size |-> m.size, blocks |-> m.blocks]
  BY <1>5
<1> HIDE DEF M
<1> QED
  BY <1>2, <1>3, <1>4, <1>5, <1>6 DEF NodeOK

\* Map blocks are blocks.
LEMMA MapsBlocks == ASSUME NEW n, NodeOK(n) PROVE MapsOf(n) \subseteq Blocks
<1> SUFFICES ASSUME NEW i \in Entry1 PROVE n.map["bmap1"][i] \in Blocks
  BY DEF MapsOf
<1> QED
  BY DEF NodeOK, Tables, TableSize, Entry1

\* bmap6 keeps the books and what every file holds, whether it fails or not.
LEMMA TopGood ==
  ASSUME NEW D, NEW F, NEW L, Nodes(F), NEW f \in Files, F[f].ino # 0,
         NEW w, WalkOK(w, D, F, f, L), NEW bn \in Shallow, NEW v, v = AtTop(w, bn)
  PROVE  /\ WalkOK(v, D, F, f, L)
         /\ v.err = "ok" => v.blk # 0 /\ v.blk = v.n.map[Table(bn)][Top(bn)]
<1> DEFINE t == Table(bn)
           k == Top(bn)
           G == [F EXCEPT ![f] = w.n]
           old == w.n.map[t][k]
<1>1. t \in {"bmap0", "bmap1"} /\ k \in 0 .. TableSize(t) - 1
  BY BmapIs DEF TableSize, Entry0, Entry1
<1>2. Good(w.d, G, L) /\ WalkRec(w) /\ w.n.ino = F[f].ino /\ w.n.size = F[f].size
      /\ SameText(D, F, w.d, G)
  BY DEF WalkOK
<1>3. G[f] = w.n /\ \A g \in Files \ {f} : G[g] = F[g]
  BY DEF Nodes
<1>4. NodeOK(w.n)
  BY <1>2, <1>3 DEF Good, Nodes
<1> DEFINE grown == [Grow(w) EXCEPT !.n = [Grow(w).n EXCEPT !.map =
                       [Grow(w).n.map EXCEPT ![t] = [Grow(w).n.map[t] EXCEPT ![k] = Grow(w).blk]]]]
<1>5. v = IF old # 0 THEN [w EXCEPT !.blk = old]
                     ELSE IF Full(w.d) THEN [w EXCEPT !.err = "ENOSPC"] ELSE grown
  BY DEF AtTop, MapEntry, Fail
<1>6. CASE old # 0
  <2>1. WalkRec(v) /\ v.d = w.d /\ v.n = w.n /\ v.blk = old
    BY <1>2, <1>5, <1>6 DEF WalkRec
  <2> QED
    BY <2>1, <1>2, <1>6 DEF WalkOK
<1>7. CASE old = 0 /\ Full(w.d)
  <2>1. WalkRec(v) /\ v.d = w.d /\ v.n = w.n /\ v.err = "ENOSPC"
    BY <1>2, <1>5, <1>7 DEF WalkRec
  <2> QED
    BY <2>1, <1>2 DEF WalkOK
<1>8. CASE old = 0 /\ ~Full(w.d)
  <2> DEFINE c == Min(Candidates(w.d))
             e == AllocBlk(w.d)
             m == [ino |-> w.n.ino, map |-> [w.n.map EXCEPT ![t] = [w.n.map[t] EXCEPT ![k] = c]],
                   size |-> w.n.size, blocks |-> w.n.blocks + 1]
  <2>1. v.d = e /\ v.n = m /\ v.blk = c /\ v.err = w.err /\ WalkRec(v)
    <3>1. v = grown
      BY <1>5, <1>8
    <3>2. /\ WalkRec(Grow(w)) /\ Grow(w).d = e /\ Grow(w).blk = c /\ Grow(w).err = w.err
          /\ Grow(w).n = [ino |-> w.n.ino, map |-> w.n.map, size |-> w.n.size,
                          blocks |-> w.n.blocks + 1]
      BY <1>2, <1>4, GrowIs
    <3>3. [Grow(w).n EXCEPT !.map =
             [Grow(w).n.map EXCEPT ![t] = [Grow(w).n.map[t] EXCEPT ![k] = Grow(w).blk]]] = m
      BY <3>2
    <3> HIDE DEF m, c, e, t, k
    <3>4. v = [Grow(w) EXCEPT !.n = m]
      BY <3>1, <3>3
    <3> HIDE DEF grown
    <3> QED
      BY <3>2, <3>4 DEF WalkRec
  <2> HIDE DEF grown
  <2>2. DiskOK(w.d) /\ w.d.freemap \subseteq Blocks /\ Scanned(w.d.freemap, w.d.freeblk)
    BY <1>2 DEF Good, Space, Marked
  <2>3. /\ c \in Data /\ c \notin w.d.freemap /\ Scanned(w.d.freemap \cup {c}, c + 1)
        /\ e = [freemap |-> w.d.freemap \cup {c}, freeblk |-> c + 1,
                words |-> [w.d.words EXCEPT ![c] = Erased]]
        /\ DiskOK(e)
    BY <2>2, <1>8, AllocIs
  <2>4. \A g \in Files : G[g].ino # 0 =>
          c \in Blocks \ {0} /\ c \notin MapsOf(G[g]) /\ ~LeafOf(w.d, G[g], c)
    BY <1>2, <2>3, FreshIs
  <2>5. G[f].ino # 0 /\ c \in Blocks \ {0} /\ c \notin MapsOf(w.n) /\ ~LeafOf(w.d, w.n, c)
    BY <1>2, <1>3, <2>4
  <2>6. NodeOK(m)
    BY <1>1, <1>4, <2>5, NodeSet
  <2>7. e.words[c] = Erased /\ KeepsWords(w.d, e, Blocks \ {c})
    BY <2>2, <2>3, <2>5 DEF DiskOK, KeepsWords
  <2>8. /\ m.map = [w.n.map EXCEPT ![t] = [w.n.map[t] EXCEPT ![k] = c]]
        /\ m.ino = w.n.ino /\ m.size = w.n.size /\ m.blocks = w.n.blocks + 1
    OBVIOUS
  <2>9. e.freemap = w.d.freemap \cup {c} /\ e.freeblk = c + 1
    BY <2>3
  <2>a. w.n.map[t][k] = 0
    BY <1>8
  <2>b. Enters(w.n, m, t, k, c)
    BY <2>8 DEF Enters
  <2> HIDE DEF m, c, e, G, t, k
  <2>10. \A g \in Files \ {f} : G[g].ino # 0 => NodeOK(G[g]) /\ MapsOf(G[g]) \subseteq Blocks \ {c}
    <3>1. ASSUME NEW g \in Files \ {f}, G[g].ino # 0 PROVE NodeOK(G[g]) /\ MapsOf(G[g]) \subseteq Blocks
      BY <1>2, MapsBlocks DEF Good, Nodes
    <3> QED
      BY <3>1, <2>4
  <2>11. OthersKeep(w.d, e, G, f)
    <3>1. \A g \in Files \ {f} : G[g].ino # 0 => NodeOK(G[g]) /\ KeepsWords(w.d, e, MapsOf(G[g]))
      BY <2>7, <2>10 DEF KeepsWords
    <3> QED
      BY <3>1, SameRefs DEF OthersKeep
  <2>12. MapsOf(w.n) \subseteq Blocks \ {c}
    BY <1>4, <2>5, MapsBlocks
  <2>13. RefsIn(e, m) = RefsIn(w.d, w.n) \cup {<<<<t, k>>, c>>}
    <3>1. KeepsWords(w.d, e, MapsOf(w.n)) /\ e.words[c] = Erased
      BY <2>7, <2>12 DEF KeepsWords
    <3> QED
      BY <1>1, <1>4, <2>a, <2>b, <2>5, <2>6, <3>1, TopGrown
  <2>14. Good(e, [G EXCEPT ![f] = m], L)
    <3>1. RefsIn(e, m) = RefsIn(w.d, G[f]) \cup {<<<<t, k>>, c>>}
      BY <2>13, <1>3
    <3>2. m.ino = G[f].ino /\ m.blocks = G[f].blocks + 1
      BY <2>8, <1>3
    <3> QED
      BY <1>2, <2>3, <2>5, <2>6, <2>9, <2>11, <3>1, <3>2, Grown
  <2>15. [G EXCEPT ![f] = m] = [F EXCEPT ![f] = m]
    BY DEF G, Nodes
  <2> DEFINE H == [F EXCEPT ![f] = m]
  <2>16. H[f] = m /\ \A g \in Files \ {f} : H[g] = G[g]
    BY <1>3 DEF Nodes
  <2> HIDE DEF H
  <2>17. ASSUME NEW g \in Files, F[g].ino # 0 PROVE KeepsText(w.d, G[g], e, H[g])
    <3>1. CASE g = f
      <4>1. KeepsText(w.d, w.n, e, m)
        BY <1>1, <1>4, <2>a, <2>b, <2>5, <2>6, <2>7, TopRaw
      <4> QED
        BY <3>1, <4>1, <1>3, <2>16
    <3>2. CASE g # f
      <4>1. G[g].ino # 0 /\ H[g] = G[g]
        BY <2>17, <3>2, <1>3, <2>16
      <4>2. KeepsWords(w.d, e, {a \in Blocks \ {0} : LeafOf(w.d, G[g], a)})
        BY <4>1, <2>4, <2>7 DEF KeepsWords
      <4>3. KeepsWords(w.d, e, MapsOf(G[g]))
        BY <4>1, <3>2, <2>7, <2>10 DEF KeepsWords
      <4> QED
        BY <4>1, <4>2, <4>3, SameRaw
    <3> QED
      BY <3>1, <3>2
  <2>18. SameText(D, F, e, H)
    BY <2>17, <1>2 DEF SameText, KeepsText
  <2>19. WalkOK(v, D, F, f, L)
    BY <2>1, <2>8, <2>14, <2>15, <2>18, <1>2 DEF WalkOK, H
  <2>20. v.n.map[t][k] = c
    <3>1. /\ t \in Tables /\ w.n.map[t] \in [0 .. TableSize(t) - 1 -> Blocks]
          /\ w.n.map \in [Tables -> UNION {[0 .. TableSize(u) - 1 -> Blocks] : u \in Tables}]
      BY <1>1, <1>4 DEF NodeOK, Tables
    <3> QED
      BY <2>1, <2>8, <1>1, <3>1
  <2> QED
    BY <2>1, <2>5, <2>19, <2>20 DEF t, k
<1> QED
  BY <1>6, <1>7, <1>8

\* bmindir in the map block of a single map keeps them too.
LEMMA LowGood ==
  ASSUME NEW D, NEW F, NEW L, Nodes(F), NEW f \in Files, F[f].ino # 0,
         NEW w, WalkOK(w, D, F, f, L), NEW k \in Entry1, NEW l \in Index,
         w.blk # 0, w.blk = w.n.map["bmap1"][k], NEW v, v = Below(w, l)
  PROVE  /\ WalkOK(v, D, F, f, L) /\ v.n.map = w.n.map
         /\ v.err = "ok" => v.blk # 0 /\ v.blk = Word(v.d, v.n.map["bmap1"][k], l)
<1> DEFINE b == w.blk
           G == [F EXCEPT ![f] = w.n]
           old == w.d.words[b][l]
<1>2. Good(w.d, G, L) /\ WalkRec(w) /\ w.n.ino = F[f].ino /\ w.n.size = F[f].size
      /\ SameText(D, F, w.d, G)
  BY DEF WalkOK
<1>3. G[f] = w.n /\ \A g \in Files \ {f} : G[g] = F[g]
  BY DEF Nodes
<1>4. NodeOK(w.n) /\ G[f].ino # 0
  BY <1>2, <1>3 DEF Good, Nodes
<1>5. b \in MapsOf(G[f])
  BY <1>3 DEF MapsOf
<1> HIDE DEF G
<1>6. /\ b \in Data /\ b \in w.d.freemap
      /\ \A g \in Files : G[g].ino # 0 => ~LeafOf(w.d, G[g], b) /\ (g # f => b \notin MapsOf(G[g]))
      /\ \A i, j \in Entry1 : G[f].map["bmap1"][i] = b /\ G[f].map["bmap1"][j] = b => i = j
  BY <1>2, <1>4, <1>5, Places
<1>7. b \in Blocks \ {0}
  BY <1>6, FileBlocksAssumption DEF Data, Blocks
<1>8. OnlyAt(w.n, k, b)
  BY <1>3, <1>6 DEF OnlyAt
<1> DEFINE grown == [Grow(w) EXCEPT !.d = [Grow(w).d EXCEPT !.words =
                       [Grow(w).d.words EXCEPT ![b] = [Grow(w).d.words[b] EXCEPT ![l] = Grow(w).blk]]]]
<1>9. v = IF old # 0 THEN [w EXCEPT !.blk = old]
                     ELSE IF Full(w.d) THEN [w EXCEPT !.err = "ENOSPC"] ELSE grown
  BY <1>7 DEF Below, MapEntry, Fail
<1>10. old = Word(w.d, b, l)
  BY <1>7 DEF Word
<1>11. CASE old # 0
  <2>1. WalkRec(v) /\ v.d = w.d /\ v.n = w.n /\ v.blk = old
    BY <1>2, <1>9, <1>11 DEF WalkRec
  <2> QED
    BY <2>1, <1>2, <1>10, <1>11 DEF WalkOK, G
<1>12. CASE old = 0 /\ Full(w.d)
  <2>1. WalkRec(v) /\ v.d = w.d /\ v.n = w.n /\ v.err = "ENOSPC"
    BY <1>2, <1>9, <1>12 DEF WalkRec
  <2> QED
    BY <2>1, <1>2 DEF WalkOK, G
<1>13. CASE old = 0 /\ ~Full(w.d)
  <2> DEFINE c == Min(Candidates(w.d))
             a == AllocBlk(w.d)
             row == [a.words[b] EXCEPT ![l] = c]
             ws == [a.words EXCEPT ![b] = row]
             e == [a EXCEPT !.words = ws]
             m == [ino |-> w.n.ino, map |-> w.n.map, size |-> w.n.size, blocks |-> w.n.blocks + 1]
  <2>1. v.d = e /\ v.n = m /\ v.blk = c /\ v.err = w.err /\ WalkRec(v)
    <3>1. v = grown
      BY <1>9, <1>13
    <3>2. /\ WalkRec(Grow(w)) /\ Grow(w).d = a /\ Grow(w).blk = c /\ Grow(w).err = w.err
          /\ Grow(w).n = m
      BY <1>2, <1>4, GrowIs
    <3>3. [Grow(w).d EXCEPT !.words =
             [Grow(w).d.words EXCEPT ![b] = [Grow(w).d.words[b] EXCEPT ![l] = Grow(w).blk]]] = e
      BY <3>2
    <3> HIDE DEF m, c, a, e, row, b
    <3>4. v = [Grow(w) EXCEPT !.d = e]
      BY <3>1, <3>3
    <3> HIDE DEF grown
    <3> QED
      BY <3>2, <3>4 DEF WalkRec
  <2> HIDE DEF grown
  <2>2. DiskOK(w.d) /\ w.d.freemap \subseteq Blocks /\ Scanned(w.d.freemap, w.d.freeblk)
    BY <1>2 DEF Good, Space, Marked
  <2>3. /\ c \in Data /\ c \notin w.d.freemap /\ Scanned(w.d.freemap \cup {c}, c + 1)
        /\ a = [freemap |-> w.d.freemap \cup {c}, freeblk |-> c + 1,
                words |-> [w.d.words EXCEPT ![c] = Erased]]
        /\ DiskOK(a)
    BY <2>2, <1>13, AllocIs
  <2>4. \A g \in Files : G[g].ino # 0 =>
          c \in Blocks \ {0} /\ c \notin MapsOf(G[g]) /\ ~LeafOf(w.d, G[g], c)
    BY <1>2, <2>3, FreshIs
  <2>5. c \in Blocks \ {0} /\ c \notin MapsOf(w.n) /\ ~LeafOf(w.d, w.n, c) /\ b # c
        /\ ~LeafOf(w.d, w.n, b)
    BY <1>3, <1>4, <1>6, <2>3, <2>4
  <2>6. /\ m.map = w.n.map /\ m.ino = w.n.ino /\ m.size = w.n.size /\ m.blocks = w.n.blocks + 1
        /\ NodeOK(m)
    BY <1>4 DEF NodeOK
  <2>7. w.d.words[b] \in [Index -> 0 .. Datum] /\ c \in 0 .. Datum
    <3> HIDE DEF m, c, a, e, row, ws, b
    <3>1. w.d.words[b] \in [Index -> 0 .. Datum]
      BY <2>2, <1>7 DEF DiskOK
    <3>2. c \in 0 .. Datum
      BY <2>5, FileBlocksAssumption DEF Datum, Blocks
    <3> QED
      BY <3>1, <3>2
  <2>8. a.words[b] = w.d.words[b] /\ a.words[c] = Erased
        /\ \A x \in Blocks \ {c} : a.words[x] = w.d.words[x]
    BY <2>2, <2>3, <2>5, <1>7 DEF DiskOK
  <2>9. row \in [Index -> 0 .. Datum]
    BY <2>7, <2>8
  <2>10. a = [freemap |-> a.freemap, freeblk |-> a.freeblk, words |-> a.words]
         /\ a.words \in [Blocks -> [Index -> 0 .. Datum]]
         /\ a.freemap = w.d.freemap \cup {c} /\ a.freeblk = c + 1
    BY <2>3 DEF DiskOK
  <2> HIDE DEF m, c, a, b
  <2>11. row = [w.d.words[b] EXCEPT ![l] = c]
    BY <2>8
  <2> HIDE DEF row
  <2> HIDE DEF ws
  <2>12. e = [freemap |-> w.d.freemap \cup {c}, freeblk |-> c + 1, words |-> ws]
    <3> DEFINE fm == w.d.freemap \cup {c}
               old_ws == [w.d.words EXCEPT ![c] = Erased]
    <3>1. a = [freemap |-> fm, freeblk |-> c + 1, words |-> old_ws]
      BY <2>3
    <3> HIDE DEF fm, old_ws, old
    <3>2. [a EXCEPT !.words = ws] = [freemap |-> fm, freeblk |-> c + 1, words |-> ws]
      BY ONLY <3>1
    <3> QED
      BY <3>2 DEF fm
  <2>13. DiskOK(e)
    <3>1. ws \in [Blocks -> [Index -> 0 .. Datum]]
      BY <2>9, <2>10 DEF ws
    <3> QED
      BY <2>12, <3>1 DEF DiskOK
  <2>14. e.words[b] = [w.d.words[b] EXCEPT ![l] = c] /\ e.words[c] = Erased
    BY <2>5, <2>8, <2>10, <2>11, <2>12, <1>7 DEF ws
  <2>15. KeepsWords(w.d, e, Blocks \ {b, c})
    BY <2>8, <2>10, <2>12, <1>7 DEF KeepsWords, ws
  <2>16. e.freemap = w.d.freemap \cup {c} /\ e.freeblk = c + 1
    BY <2>10, <2>12
  <2> HIDE DEF e
  <2>17. MapsOf(w.n) \subseteq Blocks \ {c}
    BY <1>4, <2>5, MapsBlocks
  <2>18. \A g \in Files \ {f} : G[g].ino # 0 => NodeOK(G[g]) /\ MapsOf(G[g]) \subseteq Blocks \ {b, c}
    <3>1. ASSUME NEW g \in Files \ {f}, G[g].ino # 0 PROVE NodeOK(G[g]) /\ MapsOf(G[g]) \subseteq Blocks
      BY <1>2, MapsBlocks DEF Good, Nodes
    <3> QED
      BY <3>1, <2>4, <1>6
  <2>19. OthersKeep(w.d, e, G, f)
    <3>1. \A g \in Files \ {f} : G[g].ino # 0 => NodeOK(G[g]) /\ KeepsWords(w.d, e, MapsOf(G[g]))
      BY <2>15, <2>18 DEF KeepsWords
    <3> QED
      BY <3>1, SameRefs DEF OthersKeep
  <2>20. Word(w.d, b, l) = 0 /\ w.n.map["bmap1"][k] = b
    BY <1>10, <1>13 DEF b
  <2>21. RefsIn(e, m) = RefsIn(w.d, w.n) \cup {<<<<"bmap1", k, l>>, c>>}
    <3>1. KeepsWords(w.d, e, MapsOf(w.n) \ {b})
      BY <2>15, <2>17 DEF KeepsWords
    <3>2. SetsWord(w.d, e, b, l, c)
      BY <2>14 DEF SetsWord
    <3> QED
      <4>1. /\ NodeOK(w.n) /\ NodeOK(m) /\ m.map = w.n.map /\ k \in Entry1 /\ l \in Index
            /\ c \in Blocks \ {0} /\ b \in Blocks \ {0} /\ w.n.map["bmap1"][k] = b
            /\ OnlyAt(w.n, k, b) /\ Word(w.d, b, l) = 0
            /\ w.d.words[b] \in [Index -> 0 .. Datum]
        BY <1>4, <1>7, <1>8, <2>5, <2>6, <2>7, <2>20
      <4>2. LowGrows(w.d, e, w.n, m, k, l, c, b)
        BY ONLY <3>1, <3>2, <4>1 DEF LowGrows
      <4> QED
        BY ONLY <4>2, LowGrown
  <2>22. Good(e, [G EXCEPT ![f] = m], L)
    <3>1. RefsIn(e, m) = RefsIn(w.d, G[f]) \cup {<<<<"bmap1", k, l>>, c>>}
      BY <2>21, <1>3
    <3>2. m.ino = G[f].ino /\ m.blocks = G[f].blocks + 1
      BY <2>6, <1>3
    <3> QED
      BY <1>2, <1>4, <2>3, <2>6, <2>13, <2>16, <2>19, <3>1, <3>2, Grown
  <2>23. [G EXCEPT ![f] = m] = [F EXCEPT ![f] = m]
    BY DEF G, Nodes
  <2> DEFINE H == [F EXCEPT ![f] = m]
  <2>24. H[f] = m /\ \A g \in Files \ {f} : H[g] = G[g]
    BY <1>3 DEF Nodes
  <2> HIDE DEF H
  <2>25. ASSUME NEW g \in Files, F[g].ino # 0 PROVE KeepsText(w.d, G[g], e, H[g])
    <3>1. CASE g = f
      <4>1. KeepsText(w.d, w.n, e, m)
        BY <1>4, <1>7, <2>5, <2>6, <2>7, <2>14, <2>15, <2>20, LowRaw
      <4> QED
        BY <3>1, <4>1, <1>3, <2>24
    <3>2. CASE g # f
      <4>1. G[g].ino # 0 /\ H[g] = G[g]
        BY <2>25, <3>2, <1>3, <2>24
      <4>2. KeepsWords(w.d, e, {x \in Blocks \ {0} : LeafOf(w.d, G[g], x)})
        BY <4>1, <2>4, <1>6, <2>15 DEF KeepsWords
      <4>3. KeepsWords(w.d, e, MapsOf(G[g]))
        BY <4>1, <3>2, <2>15, <2>18 DEF KeepsWords
      <4> QED
        BY <4>1, <4>2, <4>3, SameRaw
    <3> QED
      BY <3>1, <3>2
  <2>26. SameText(D, F, e, H)
    BY <2>25, <1>2 DEF SameText, KeepsText
  <2>27. WalkOK(v, D, F, f, L)
    BY <2>1, <2>6, <2>22, <2>23, <2>26, <1>2 DEF WalkOK, H
  <2>28. Word(e, b, l) = c
    BY <2>7, <2>14, <1>7 DEF Word
  <2> QED
    BY <2>1, <2>5, <2>6, <2>20, <2>27, <2>28
<1> QED
  BY <1>11, <1>12, <1>13

\* A walk starts with the file as it is.
LEMMA WalkStart ==
  ASSUME NEW D, NEW F, NEW L, Good(D, F, L), NEW f \in Files, NEW w,
         w = [d |-> D, n |-> F[f], blk |-> 0, err |-> "ok"]
  PROVE  WalkOK(w, D, F, f, L)
<1>1. w.d = D /\ w.n = F[f] /\ WalkRec(w)
  BY DEF WalkRec
<1>2. [F EXCEPT ![f] = F[f]] = F
  BY DEF Good, Nodes
<1>3. SameText(D, F, D, F)
  BY DEF SameText, KeepsText
<1> QED
  BY <1>1, <1>2, <1>3 DEF WalkOK

\* bmap_alloc, wherever it ends, has kept the books and the words of files.
LEMMA WalkEnds ==
  ASSUME NEW D, NEW F, NEW L, Nodes(F), NEW f \in Files, F[f].ino # 0,
         NEW w, WalkOK(w, D, F, f, L), NEW bn \in Shallow
  PROVE  /\ WalkOK(BmapAlloc(w, bn), D, F, f, L)
         /\ BmapAlloc(w, bn).err = "ok" =>
              /\ BmapAlloc(w, bn).blk # 0
              /\ BmapAlloc(w, bn).blk = Bmap(BmapAlloc(w, bn).d, BmapAlloc(w, bn).n, bn)
         /\ \A s \in Stops(w, bn) : WalkOK(s, D, F, f, L)
<1> DEFINE top == AtTop(w, bn)
<1>1. /\ WalkOK(top, D, F, f, L)
      /\ top.err = "ok" => top.blk # 0 /\ top.blk = top.n.map[Table(bn)][Top(bn)]
  BY TopGood
<1>2. \A s \in Stops(w, bn) : WalkOK(s, D, F, f, L)
  BY <1>1 DEF Stops
<1> HIDE DEF top
<1>3. ~(Top(bn) >= TableSize(Table(bn)))
  <2>1. /\ Table(bn) = "bmap0" => Top(bn) \in 0 .. BMAP0_SIZE - 1
        /\ Table(bn) = "bmap1" => Top(bn) \in 0 .. BMAP1_SIZE - 1
        /\ Table(bn) = "bmap0" \/ Table(bn) = "bmap1"
    BY BmapIs DEF Entry0, Entry1
  <2> QED
    BY <2>1, FileBlocksAssumption DEF TableSize
<1>4. CASE bn < BMAP0_SIZE
  <2>1. Table(bn) = "bmap0" /\ Bmap(top.d, top.n, bn) = top.n.map["bmap0"][bn] /\ Top(bn) = bn
    BY <1>4, BmapIs
  <2>2. BmapAlloc(w, bn) = top
    BY <1>3, <2>1 DEF BmapAlloc, top
  <2> QED
    BY <1>1, <1>2, <2>1, <2>2
<1>5. CASE ~(bn < BMAP0_SIZE)
  <2> DEFINE k == Top(bn)
             l == Place(bn) % FAN
             v == Below(top, l)
  <2>1. Table(bn) = "bmap1" /\ k \in Entry1 /\ l \in Index
    BY <1>5, BmapIs
  <2>2. \A d, n : Bmap(d, n, bn) = Word(d, n.map["bmap1"][k], l)
    BY <1>5, BmapIs
  <2>3. BmapAlloc(w, bn) = IF top.err = "ok" THEN v ELSE top
    BY <1>3, <2>1 DEF BmapAlloc, top, Then
  <2> HIDE DEF k, l, v
  <2>4. CASE top.err = "ok"
    <3>1. /\ WalkOK(v, D, F, f, L)
          /\ v.err = "ok" => v.blk # 0 /\ v.blk = Word(v.d, v.n.map["bmap1"][k], l)
      BY <1>1, <2>1, <2>4, LowGood DEF v, k
    <3> QED
      BY <1>2, <2>2, <2>3, <2>4, <3>1
  <2>5. CASE top.err # "ok"
    BY <1>1, <1>2, <2>3, <2>5
  <2> QED
    BY <2>4, <2>5
<1> QED
  BY <1>4, <1>5

----------------------------------------------------------------------------
(* Writing into a block of a file.                                           *)

\* No two blocks of a file are one, and a leaf is nobody else's.
LEMMA OneBlock ==
  ASSUME NEW d, NEW F, NEW L, Good(d, F, L), NEW f \in Files, F[f].ino # 0,
         NEW x \in Shallow, NEW y \in Shallow,
         Bmap(d, F[f], x) # 0, Bmap(d, F[f], x) = Bmap(d, F[f], y)
  PROVE  x = y
<1> DEFINE n == F[f]
           R == Owned(d, F)
           At(z) == IF z < BMAP0_SIZE THEN <<"bmap0", z>>
                    ELSE <<"bmap1", Quot(z - BMAP0_SIZE), Rem(z - BMAP0_SIZE)>>
<1>1. NodeOK(n) /\ RefsIn(d, n) \subseteq R[f] /\ Once(R)
  BY DEF Good, Nodes, Owned, Space
<1> HIDE DEF R, n
<1>2. ASSUME NEW z \in Shallow, Bmap(d, n, z) # 0 PROVE <<At(z), Bmap(d, n, z)>> \in RefsIn(d, n)
  <2> DEFINE r == <<At(z), Bmap(d, n, z)>>
  <2>1. CASE z < BMAP0_SIZE
    <3>1. Bmap(d, n, z) = n.map["bmap0"][z] /\ z \in Entry0
      BY <2>1, BmapIs
    <3>2. z \in 0 .. TableSize("bmap0") - 1 /\ r = TopRef(n, "bmap0", z)
      BY <2>1, <3>1 DEF Entry0, TableSize, TopRef
    <3> HIDE DEF r
    <3>3. AtEntry(n, "bmap0", r)
      BY <1>2, <3>1, <3>2 DEF AtEntry
    <3> QED
      BY <1>1, <3>3, RefsAre DEF RefOf, r
  <2>2. CASE ~(z < BMAP0_SIZE)
    <3> DEFINE k == Quot(z - BMAP0_SIZE)
               l == Rem(z - BMAP0_SIZE)
    <3>1. k \in Entry1 /\ l \in Index /\ Bmap(d, n, z) = Word(d, n.map["bmap1"][k], l)
      BY <2>2, BmapIs
    <3>2. r = LowRef(d, n, k, l)
      BY <2>2, <3>1 DEF LowRef
    <3> HIDE DEF r, k, l
    <3>3. AtLeaf(d, n, r)
      BY <1>2, <3>1, <3>2 DEF AtLeaf
    <3> QED
      BY <1>1, <3>3, RefsAre DEF RefOf, r
  <2> QED
    BY <2>1, <2>2
<1> DEFINE b == Bmap(d, n, x)
<1>3. <<At(x), b>> \in R[f] /\ <<At(y), b>> \in R[f]
  BY <1>1, <1>2 DEF n
<1> HIDE DEF At, b
<1>4. <<At(x), b>> = <<At(y), b>>
  BY <1>1, <1>3 DEF Once
<1>5. At(x) = At(y)
  BY <1>4
<1>6. x \in Nat /\ y \in Nat /\ BMAP0_SIZE \in Nat
  BY FileBlocksAssumption DEF Shallow
<1>7. CASE x < BMAP0_SIZE /\ y < BMAP0_SIZE
  BY <1>5, <1>7 DEF At
<1>8. CASE ~(x < BMAP0_SIZE) /\ ~(y < BMAP0_SIZE)
  <2>1. Quot(x - BMAP0_SIZE) = Quot(y - BMAP0_SIZE) /\ Rem(x - BMAP0_SIZE) = Rem(y - BMAP0_SIZE)
    BY <1>5, <1>8 DEF At
  <2>2. x - BMAP0_SIZE \in Nat /\ y - BMAP0_SIZE \in Nat
    BY <1>6, <1>8
  <2>3. x - BMAP0_SIZE = y - BMAP0_SIZE
    BY <2>1, <2>2, Division
  <2> QED
    BY <2>3, <1>6
<1>9. CASE (x < BMAP0_SIZE) # (y < BMAP0_SIZE)
  BY <1>5, <1>9 DEF At
<1> QED
  BY <1>7, <1>8, <1>9

\* A block read from by one file is neither a map nor read from by another.
LEMMA LeafApart ==
  ASSUME NEW d, NEW F, NEW L, Good(d, F, L), NEW f \in Files, F[f].ino # 0,
         NEW b, b # 0, LeafOf(d, F[f], b), NEW g \in Files, F[g].ino # 0
  PROVE  b \in Blocks /\ b \notin MapsOf(F[g]) /\ (g # f => ~LeafOf(d, F[g], b))
<1> DEFINE R == Owned(d, F)
<1>1. NodeOK(F[f]) /\ NodeOK(F[g]) /\ RefsIn(d, F[f]) \subseteq R[f] /\ RefsIn(d, F[g]) \subseteq R[g]
      /\ Once(R) /\ InRange(R)
  BY DEF Good, Nodes, Owned, Space
<1> HIDE DEF R
<1>2. PICK p : <<p, b>> \in R[f]
  BY <1>1, LeafRef
<1>3. b \in Blocks
  <2>1. <<p, b>>[2] \in Data
    BY <1>1, <1>2 DEF InRange
  <2> QED
    BY <2>1, FileBlocksAssumption DEF Data, Blocks
<1>4. b \notin MapsOf(F[g])
  BY Places
<1>5. ASSUME g # f, LeafOf(d, F[g], b) PROVE FALSE
  <2>1. PICK q : <<q, b>> \in R[g]
    BY <1>1, <1>5, LeafRef
  <2>2. g = f
    BY <1>1, <1>2, <2>1 DEF Once
  <2> QED
    BY <2>2, <1>5
<1> QED
  BY <1>3, <1>4, <1>5

Writes(d, e, b, C) ==
  e = [d EXCEPT !.words[b] = [i \in Index |-> IF i \in C THEN Datum ELSE d.words[b][i]]]

StoresText(d, e, F, f, bn, C) ==
  /\ \A g \in Files \ {f} : F[g].ino # 0 => KeepsText(d, F[g], e, F[g])
  /\ \A x \in Shallow, i \in Index :
       Raw(e, F[f], x, i) = IF x = bn /\ i \in C THEN Datum ELSE Raw(d, F[f], x, i)

\* Words stored in a block of a file change what that file holds, there only.
LEMMA StoreGood ==
  ASSUME NEW d, NEW F, NEW L, Good(d, F, L), NEW f \in Files, F[f].ino # 0,
         NEW bn \in Shallow, NEW b, b # 0, b = Bmap(d, F[f], bn), NEW C, NEW e,
         Writes(d, e, b, C)
  PROVE  Good(e, F, L) /\ StoresText(d, e, F, f, bn, C)
<1> DEFINE row == [i \in Index |-> IF i \in C THEN Datum ELSE d.words[b][i]]
           ws  == [d.words EXCEPT ![b] = row]
<1>0. LeafOf(d, F[f], b)
  BY BmapLeaf
<1>1. b \in Blocks /\ b # 0
  BY <1>0, LeafApart
<1>2. \A g \in Files : F[g].ino # 0 => b \notin MapsOf(F[g]) /\ (g # f => ~LeafOf(d, F[g], b))
  BY <1>0, LeafApart
<1>3. DiskOK(d) /\ Nodes(F) /\ Counts(d, F) /\ Space(d.freemap, d.freeblk, Owned(d, F), L)
  BY DEF Good
<1>4. d.words[b] \in [Index -> 0 .. Datum] /\ Datum \in 0 .. Datum
  BY <1>1, <1>3, FileBlocksAssumption DEF DiskOK, Datum
<1>5. row \in [Index -> 0 .. Datum]
  BY <1>4
<1> HIDE DEF row
<1>6. ws \in [Blocks -> [Index -> 0 .. Datum]] /\ ws[b] = row /\ \A x \in Blocks \ {b} : ws[x] = d.words[x]
  BY <1>1, <1>3, <1>5 DEF DiskOK
<1>7. e = [freemap |-> d.freemap, freeblk |-> d.freeblk, words |-> ws]
  <2>1. e = [d EXCEPT !.words = ws]
    BY DEF row, Writes
  <2> HIDE DEF ws
  <2> QED
    BY <2>1, <1>3 DEF DiskOK
<1> HIDE DEF ws
<1>8. e.freemap = d.freemap /\ e.freeblk = d.freeblk /\ e.words = ws /\ DiskOK(e)
  BY <1>6, <1>7 DEF DiskOK
<1>9. KeepsWords(d, e, Blocks \ {b})
  BY <1>6, <1>8 DEF KeepsWords
<1>10. ASSUME NEW g \in Files, F[g].ino # 0
       PROVE  NodeOK(F[g]) /\ MapsOf(F[g]) \subseteq Blocks \ {b} /\ KeepsWords(d, e, MapsOf(F[g]))
  <2>1. NodeOK(F[g])
    BY <1>3 DEF Nodes
  <2>2. MapsOf(F[g]) \subseteq Blocks \ {b}
    BY <2>1, <1>2, <1>10, MapsBlocks
  <2> QED
    BY <2>1, <2>2, <1>9 DEF KeepsWords
<1>11. ASSUME NEW g \in Files, F[g].ino # 0 PROVE RefsIn(e, F[g]) = RefsIn(d, F[g])
  BY <1>10, <1>11, SameRefs
<1>12. Owned(e, F) = Owned(d, F) /\ Counts(e, F)
  BY <1>3, <1>11 DEF Owned, Counts
<1>13. Good(e, F, L)
  BY <1>3, <1>8, <1>12 DEF Good
<1>14. ASSUME NEW g \in Files \ {f}, F[g].ino # 0 PROVE KeepsText(d, F[g], e, F[g])
  <2>1. KeepsWords(d, e, {x \in Blocks \ {0} : LeafOf(d, F[g], x)})
    BY <1>2, <1>9, <1>14 DEF KeepsWords
  <2> QED
    BY <2>1, <1>10, <1>14, SameRaw
<1>15. ASSUME NEW x \in Shallow, NEW i \in Index
       PROVE  Raw(e, F[f], x, i) = IF x = bn /\ i \in C THEN Datum ELSE Raw(d, F[f], x, i)
  <2> DEFINE n == F[f]
  <2>1. Bmap(e, n, x) = Bmap(d, n, x)
    <3>1. CASE x < BMAP0_SIZE
      <4>1. \A a : Bmap(a, n, x) = n.map["bmap0"][x]
        BY ONLY <3>1, <1>15, BmapIs
      <4> QED
        BY <4>1
    <3>2. CASE ~(x < BMAP0_SIZE)
      <4> DEFINE k == Top(x)
                 l == Rem(x - BMAP0_SIZE)
      <4>1. k \in Entry1 /\ \A a : Bmap(a, n, x) = Word(a, n.map["bmap1"][k], l)
        BY ONLY <3>2, <1>15, BmapIs
      <4> HIDE DEF k, l
      <4>2. Word(e, n.map["bmap1"][k], l) = Word(d, n.map["bmap1"][k], l)
        BY <4>1, <1>10 DEF Word, MapsOf, KeepsWords
      <4> QED
        BY <4>1, <4>2
    <3> QED
      BY <3>1, <3>2
  <2>2. CASE x = bn
    <3>1. Raw(e, n, x, i) = ws[b][i] /\ Raw(d, n, x, i) = d.words[b][i]
      BY <2>1, <2>2, <1>1, <1>8 DEF Raw, Word
    <3>2. ws[b][i] = IF i \in C THEN Datum ELSE d.words[b][i]
      BY <1>6 DEF row
    <3> QED
      BY <3>1, <3>2, <2>2
  <2>3. CASE x # bn
    <3>1. Bmap(d, n, x) # b
      BY <2>3, OneBlock
    <3>2. Word(e, Bmap(d, n, x), i) = Word(d, Bmap(d, n, x), i)
      BY <3>1, <1>9 DEF Word, KeepsWords
    <3> QED
      BY <2>1, <2>3, <3>2 DEF Raw
  <2> QED
    BY <2>2, <2>3
<1> QED
  BY <1>8, <1>13, <1>14, <1>15 DEF StoresText

----------------------------------------------------------------------------
(* Files that are made, emptied and removed.                                 *)

\* free_blk, for each block of a set.
LEMMA FreeIs ==
  ASSUME NEW d, DiskOK(d), NEW X
  PROVE  FreeBlks(d, X) = [freemap |-> d.freemap \ X, freeblk |-> Min({d.freeblk} \cup X),
                           words |-> d.words]
<1> DEFINE a == d.freemap \ X
           b == Min({d.freeblk} \cup X)
           d1 == [d EXCEPT !.freemap = a]
<1>1. FreeBlks(d, X) = [d1 EXCEPT !.freeblk = b]
  BY DEF FreeBlks
<1> HIDE DEF a, b
<1>2. d1 = [freemap |-> a, freeblk |-> d.freeblk, words |-> d.words]
  BY DEF DiskOK
<1> HIDE DEF d1
<1>3. [d1 EXCEPT !.freeblk = b] = [freemap |-> a, freeblk |-> b, words |-> d.words]
  BY <1>2
<1> QED
  BY <1>1, <1>3 DEF a, b

\* An inode with empty maps has no blocks and holds zeros.
LEMMA NoMapIs ==
  ASSUME NEW m, m = [ino |-> m.ino, map |-> m.map, size |-> m.size, blocks |-> m.blocks],
         m.map = NoMap
  PROVE  /\ NodeOK(m) /\ \A d : RefsIn(d, m) = {}
         /\ \A d : \A bn \in Shallow, i \in Index : Raw(d, m, bn, i) = 0
<1>0. 0 \in Blocks
  BY FileBlocksAssumption DEF Blocks
<1>1. \A t \in Tables : m.map[t] = [i \in 0 .. TableSize(t) - 1 |-> 0]
  BY DEF NoMap
<1>2. \A t \in Tables : m.map[t] \in [0 .. TableSize(t) - 1 -> Blocks]
  BY <1>0, <1>1
<1>3. m.map \in [Tables -> UNION {[0 .. TableSize(t) - 1 -> Blocks] : t \in Tables}]
  <2>1. m.map = [t \in Tables |-> m.map[t]]
    BY DEF NoMap
  <2> QED
    BY <2>1, <1>2
<1>4. \A i \in 0 .. BMAP2_SIZE - 1 : m.map["bmap2"][i] = 0
  BY <1>1 DEF Tables, TableSize
<1>5. NodeOK(m)
  BY <1>2, <1>3, <1>4 DEF NodeOK
<1>6. /\ \A i \in 0 .. TableSize("bmap0") - 1 : m.map["bmap0"][i] = 0
      /\ \A i \in 0 .. TableSize("bmap1") - 1 : m.map["bmap1"][i] = 0
  BY <1>1 DEF Tables
<1>7. ASSUME NEW d PROVE RefsIn(d, m) = {}
  <2>1. ASSUME NEW x PROVE ~RefOf(d, m, x)
    <3>1. ~AtEntry(m, "bmap0", x) /\ ~AtEntry(m, "bmap1", x)
      BY <1>6 DEF AtEntry
    <3>2. ~AtLeaf(d, m, x)
      BY <1>6 DEF AtLeaf, Entry1, TableSize, Word
    <3> QED
      BY <3>1, <3>2 DEF RefOf
  <2> QED
    BY <2>1, <1>5, RefsAre
<1>8. ASSUME NEW d, NEW bn \in Shallow, NEW i \in Index PROVE Raw(d, m, bn, i) = 0
  <2>1. LeafOf(d, m, Bmap(d, m, bn))
    BY BmapLeaf
  <2>2. Bmap(d, m, bn) = 0
    BY <2>1, <1>6 DEF LeafOf, Entry0, Entry1, TableSize, Word
  <2> QED
    BY <2>2 DEF Raw, Word
<1> QED
  BY <1>5, <1>7, <1>8

\* The words the other files read, their maps and their leaves, are kept.
OthersWords(d, e, F, f) ==
  \A g \in Files \ {f} : F[g].ino # 0 =>
    /\ KeepsWords(d, e, MapsOf(F[g]))
    /\ KeepsWords(d, e, {b \in Blocks \ {0} : LeafOf(d, F[g], b)})

\* File f has no block but its inode, or does not exist.
LEMMA Cleared ==
  ASSUME NEW d, NEW F, NEW L, Good(d, F, L), NEW f \in Files,
         NEW m, m = [ino |-> m.ino, map |-> m.map, size |-> m.size, blocks |-> m.blocks],
         m.map = NoMap, m.blocks = 0,
         NEW e, DiskOK(e), OthersWords(d, e, F, f),
         NEW Q, Q[f] = IF m.ino # 0 THEN {<<<<"ino">>, m.ino>>} ELSE {},
         \A g \in Files \ {f} : Q[g] = Owned(d, F)[g],
         NEW M, Space(e.freemap, e.freeblk, Q, M)
  PROVE  /\ Good(e, [F EXCEPT ![f] = m], M)
         /\ \A g \in Files \ {f} : F[g].ino # 0 => KeepsText(d, F[g], e, F[g])
<1> DEFINE G == [F EXCEPT ![f] = m]
<1>1. Nodes(F) /\ Counts(d, F)
  BY DEF Good
<1>2. G[f] = m /\ G = [g \in Files |-> G[g]] /\ \A g \in Files \ {f} : G[g] = F[g]
  BY <1>1 DEF Nodes
<1> HIDE DEF G
<1>3. NodeOK(m) /\ RefsIn(e, m) = {}
  BY NoMapIs
<1>4. Nodes(G)
  BY <1>1, <1>2, <1>3 DEF Nodes
<1>5. ASSUME NEW g \in Files \ {f}, F[g].ino # 0
      PROVE  RefsIn(e, F[g]) = RefsIn(d, F[g]) /\ KeepsText(d, F[g], e, F[g])
  <2>1. NodeOK(F[g]) /\ KeepsWords(d, e, MapsOf(F[g]))
        /\ KeepsWords(d, e, {b \in Blocks \ {0} : LeafOf(d, F[g], b)})
    BY <1>1, <1>5 DEF Nodes, OthersWords
  <2> QED
    BY <2>1, SameRefs, SameRaw
<1>6. Counts(e, G)
  <2>1. IsFiniteSet({}) /\ Cardinality({}) = 0
    BY FS_EmptySet
  <2> QED
    BY <2>1, <1>1, <1>2, <1>3, <1>5 DEF Counts
<1>7. ASSUME NEW g \in Files PROVE Owned(e, G)[g] = Q[g]
  <2>0. Owned(e, G)[g]
          = IF G[g].ino # 0 THEN {<<<<"ino">>, G[g].ino>>} \cup RefsIn(e, G[g]) ELSE {}
    BY DEF Owned
  <2>1. CASE g = f
    BY <2>0, <2>1, <1>2, <1>3
  <2>2. CASE g # f
    <3>1. G[g] = F[g] /\ Q[g] = Owned(d, F)[g]
      BY <2>2, <1>2
    <3>2. Owned(d, F)[g]
            = IF F[g].ino # 0 THEN {<<<<"ino">>, F[g].ino>>} \cup RefsIn(d, F[g]) ELSE {}
      BY DEF Owned
    <3>3. F[g].ino # 0 => RefsIn(e, F[g]) = RefsIn(d, F[g])
      BY <2>2, <1>5
    <3> QED
      BY <2>0, <3>1, <3>2, <3>3
  <2> QED
    BY <2>1, <2>2
<1>8. Space(e.freemap, e.freeblk, Owned(e, G), M)
  BY <1>7 DEF Space, InRange, Once, Apart, Marked, Uses
<1> QED
  BY <1>4, <1>5, <1>6, <1>8 DEF Good, G

----------------------------------------------------------------------------
(* The calls on plain files.                                                 *)

\* The invariant.  Past the end of a file its blocks hold zeros, so a write
\* that moves the end shows no old word; and the request under way lies
\* within its file.
Sizes(F) == \A f \in Files : F[f].size \in 0 .. Longest /\ (F[f].ino = 0 => F[f].size = 0)
ZeroPast(d, n) == \A p \in Nat : p >= n.size /\ Quot(p) \in Shallow => Raw(d, n, Quot(p), Rem(p)) = 0
Zeros(d, F) == \A f \in Files : F[f].ino # 0 => ZeroPast(d, F[f])
Asked(F, r) ==
  /\ r = [file |-> r.file, pos |-> r.pos, count |-> r.count] /\ r.count \in Nat
  /\ r.count > 0 => /\ r.file \in Files /\ F[r.file].ino # 0
                    /\ r.pos \in Nat /\ r.pos + r.count <= F[r.file].size
Sound(d, F, r, L) == Good(d, F, L) /\ Sizes(F) /\ Zeros(d, F) /\ Asked(F, r)
FbInv == Sound(disk, fbInode, req, lost)

\* No file may be so long that it needs a map of maps.
ShallowLimit == FSLIMIT <= BMAP0_SIZE + BMAP1_SIZE * FAN

\* The lesser and the greater of two numbers.
LEMMA PairMinMax ==
  \A x, y \in Nat : /\ Min({x, y}) = (IF x <= y THEN x ELSE y)
                    /\ Max({x, y}) = (IF x <= y THEN y ELSE x)
<1> SUFFICES ASSUME NEW x \in Nat, NEW y \in Nat
             PROVE  /\ Min({x, y}) = (IF x <= y THEN x ELSE y)
                    /\ Max({x, y}) = (IF x <= y THEN y ELSE x)
  OBVIOUS
<1>1. Min({x, y}) \in {x, y} /\ \A z \in {x, y} : Min({x, y}) <= z
  BY LeastBlock
<1>2. Max({x, y}) \in {x, y} /\ \A z \in {x, y} : Max({x, y}) >= z
  <2>1. \E z \in {x, y} : \A u \in {x, y} : z >= u
    OBVIOUS
  <2> QED
    BY <2>1 DEF Max
<1> QED
  BY <1>1, <1>2

\* The test of reg_write keeps every position in a direct or a single map.
LEMMA LongestIs == Longest \in Nat /\ Longest <= FSLIMIT * FAN
<1>1. \A x, y \in Nat : x * y \in Nat
  OBVIOUS
<1> DEFINE a == FSLIMIT * FAN
           s == BMAP1_SIZE * FAN
           q == BMAP2_SIZE * FAN
           u == q * FAN
           k == BMAP0_SIZE + s
<1>2. a \in Nat /\ s \in Nat /\ q \in Nat /\ FAN \in Nat
  BY <1>1, FileBlocksAssumption
<1>3. u \in Nat /\ k \in Nat
  BY <1>1, <1>2, FileBlocksAssumption
<1>4. MAXFSZ = (k + u) * FAN
  BY DEF MAXFSZ
<1>5. Longest = Min({a, MAXFSZ})
  BY DEF Longest
<1> HIDE DEF s, q, u, k, a
<1>6. MAXFSZ \in Nat
  BY <1>1, <1>2, <1>3, <1>4
<1>7. Longest \in Nat /\ Longest <= a
  BY <1>2, <1>5, <1>6, PairMinMax
<1> QED
  BY <1>7 DEF a

\* So no request reaches a map of maps.
LEMMA LimitIs ==
  ASSUME ShallowLimit
  PROVE  \A p \in Nat : p < Longest => Quot(p) \in Shallow
<1>1. \A x, y \in Nat : x * y \in Nat
  OBVIOUS
<1> DEFINE s == BMAP1_SIZE * FAN
           a == FSLIMIT * FAN
<1>2. s \in Nat /\ a \in Nat
  BY <1>1, FileBlocksAssumption
<1>3. Shallow = 0 .. BMAP0_SIZE + (s - 1)
  BY Zenon DEF Shallow
<1>4. FSLIMIT <= BMAP0_SIZE + s
  BY DEF ShallowLimit
<1> HIDE DEF s
<1> SUFFICES ASSUME NEW p \in Nat, p < Longest PROVE Quot(p) \in Shallow
  OBVIOUS
<1>5. p < a
  BY <1>2, LongestIs
<1>6. Quot(p) \in Nat /\ Quot(p) < FSLIMIT
  BY <1>5, Division, FileBlocksAssumption
<1> QED
  BY <1>2, <1>3, <1>4, <1>6, FileBlocksAssumption

\* What a program reads, file by file.
Texts(d, F) == [f \in Files |-> [p \in 0 .. Longest - 1 |-> ReadWord(d, F[f], p)]]
SameFile(d, F, e, G, g) ==
  \/ F[g].ino # 0 /\ KeepsText(d, F[g], e, G[g]) /\ G[g].size = F[g].size
  \/ F[g].ino = 0 /\ F[g].size = 0 /\ G[g].size = 0

\* A program reads zero past the end, and what the file holds before it.
LEMMA ReadIs ==
  ASSUME NEW d, NEW n, NEW p
  PROVE  ReadWord(d, n, p) = IF p < n.size THEN Raw(d, n, Quot(p), Rem(p)) ELSE 0
BY DEF ReadWord, Raw, Quot, Rem

\* A file that has kept its size and what it holds reads the same.
LEMMA TextKept ==
  ASSUME ShallowLimit, NEW d, NEW F, NEW e, NEW G, NEW g \in Files, SameFile(d, F, e, G, g)
  PROVE  Texts(e, G)[g] = Texts(d, F)[g]
<1>1. ASSUME NEW p \in 0 .. Longest - 1 PROVE ReadWord(e, G[g], p) = ReadWord(d, F[g], p)
  <2>1. p \in Nat /\ Quot(p) \in Shallow /\ Rem(p) \in Index
    BY LimitIs, LongestIs, Division
  <2>2. CASE F[g].ino # 0 /\ KeepsText(d, F[g], e, G[g]) /\ G[g].size = F[g].size
    <3>1. Raw(e, G[g], Quot(p), Rem(p)) = Raw(d, F[g], Quot(p), Rem(p))
      BY <2>1, <2>2 DEF KeepsText
    <3> QED
      BY <2>2, <3>1, ReadIs
  <2>3. CASE F[g].size = 0 /\ G[g].size = 0
    <3>1. ~(p < 0)
      BY <2>1
    <3> QED
      BY <2>3, <3>1, ReadIs
  <2> QED
    BY <2>2, <2>3 DEF SameFile
<1> QED
  BY <1>1 DEF Texts

Zeroes == [p \in 0 .. Longest - 1 |-> 0]

\* A file of size 0 reads as zeros.
LEMMA EmptyText ==
  ASSUME NEW d, NEW F, NEW f \in Files, F[f].size = 0
  PROVE  Texts(d, F)[f] = Zeroes
<1>1. ASSUME NEW p \in 0 .. Longest - 1 PROVE ReadWord(d, F[f], p) = 0
  <2>1. ~(p < 0)
    OBVIOUS
  <2> QED
    BY <2>1, ReadIs
<1> QED
  BY <1>1 DEF Texts, Zeroes

Clears(d, F, f, m, e, Q, M) ==
  /\ m = [ino |-> m.ino, map |-> m.map, size |-> m.size, blocks |-> m.blocks]
  /\ m.map = NoMap /\ m.size = 0 /\ m.blocks = 0
  /\ DiskOK(e) /\ OthersWords(d, e, F, f)
  /\ Q[f] = IF m.ino # 0 THEN {<<<<"ino">>, m.ino>>} ELSE {}
  /\ \A g \in Files \ {f} : Q[g] = Owned(d, F)[g]
  /\ Space(e.freemap, e.freeblk, Q, M)

Others(d, F, e, G, f) == \A g \in Files \ {f} : G[g] = F[g] /\ SameFile(d, F, e, G, g)

\* The invariant holds when one file has lost all its blocks.
LEMMA ClearSound ==
  ASSUME NEW d, NEW F, NEW r, NEW L, Sound(d, F, r, L), ~(r.count > 0), NEW f \in Files,
         NEW m, NEW e, NEW Q, NEW M, Clears(d, F, f, m, e, Q, M)
  PROVE  Sound(e, [F EXCEPT ![f] = m], r, M) /\ Others(d, F, e, [F EXCEPT ![f] = m], f)
<1> DEFINE G == [F EXCEPT ![f] = m]
<1>1. Good(d, F, L) /\ Sizes(F) /\ Zeros(d, F) /\ Asked(F, r) /\ Nodes(F)
  BY DEF Sound, Good
<1>2. G[f] = m /\ \A g \in Files \ {f} : G[g] = F[g]
  BY <1>1 DEF Nodes
<1>3. /\ Good(e, G, M)
      /\ \A g \in Files \ {f} : F[g].ino # 0 => KeepsText(d, F[g], e, F[g])
  BY <1>1, Cleared DEF Clears
<1> HIDE DEF G
<1>4. m.size = 0 /\ m.map = NoMap
      /\ m = [ino |-> m.ino, map |-> m.map, size |-> m.size, blocks |-> m.blocks]
  BY DEF Clears
<1>5. Sizes(G)
  <2>1. \A g \in Files : G[g].size \in 0 .. Longest /\ (G[g].ino = 0 => G[g].size = 0)
    <3>1. 0 \in 0 .. Longest
      BY LongestIs
    <3> QED
      BY <3>1, <1>1, <1>2, <1>4 DEF Sizes
  <2> QED
    BY <2>1 DEF Sizes
<1>6. Zeros(e, G)
  <2> SUFFICES ASSUME NEW g \in Files, G[g].ino # 0, NEW p \in Nat, p >= G[g].size,
                      Quot(p) \in Shallow
               PROVE  Raw(e, G[g], Quot(p), Rem(p)) = 0
    BY DEF Zeros, ZeroPast
  <2>1. Rem(p) \in Index
    BY Division
  <2>2. CASE g = f
    BY <2>1, <2>2, <1>2, <1>4, NoMapIs
  <2>3. CASE g # f
    <3>1. G[g] = F[g] /\ F[g].ino # 0 /\ p >= F[g].size
      BY <2>3, <1>2
    <3>2. Raw(d, F[g], Quot(p), Rem(p)) = 0
      BY <3>1, <1>1 DEF Zeros, ZeroPast
    <3>3. KeepsText(d, F[g], e, F[g])
      BY <2>3, <3>1, <1>3
    <3> QED
      BY <2>1, <3>1, <3>2, <3>3 DEF KeepsText
  <2> QED
    BY <2>2, <2>3
<1>7. Asked(G, r)
  BY <1>1 DEF Asked
<1>8. Others(d, F, e, G, f)
  <2> SUFFICES ASSUME NEW g \in Files \ {f} PROVE G[g] = F[g] /\ SameFile(d, F, e, G, g)
    BY DEF Others
  <2>1. G[g] = F[g]
    BY <1>2
  <2>2. F[g].ino # 0 => KeepsText(d, F[g], e, G[g])
    BY <2>1, <1>3
  <2>3. F[g].ino = 0 => F[g].size = 0
    BY <1>1 DEF Sizes
  <2> QED
    BY <2>1, <2>2, <2>3 DEF SameFile
<1> QED
  BY <1>3, <1>5, <1>6, <1>7, <1>8 DEF Sound, G

\* A block another file uses is in no place of this one.
LEMMA NotOthers ==
  ASSUME NEW d, NEW F, NEW L, Good(d, F, L), NEW f \in Files, F[f].ino # 0,
         NEW g \in Files \ {f}, F[g].ino # 0, NEW b, b # 0,
         b \in MapsOf(F[g]) \/ LeafOf(d, F[g], b)
  PROVE  \A x \in RefsIn(d, F[f]) : x[2] # b
<1>1. NodeOK(F[g]) /\ Once(Owned(d, F))
  BY DEF Good, Nodes, Space
<1>2. \E p : <<p, b>> \in RefsIn(d, F[g])
  BY <1>1, MapRef, LeafRef
<1>3. PICK p : <<p, b>> \in RefsIn(d, F[g])
  BY <1>2
<1>4. <<p, b>> \in Owned(d, F)[g] /\ <<p, b>>[2] = b
  BY <1>3 DEF Owned
<1> SUFFICES ASSUME NEW x \in RefsIn(d, F[f]), x[2] = b PROVE FALSE
  OBVIOUS
<1>5. x \in Owned(d, F)[f]
  BY DEF Owned
<1> QED
  BY <1>1, <1>4, <1>5 DEF Once

\* The inode itself is not among the places its maps lead to.
LEMMA InoApart ==
  ASSUME NEW d, NEW n, NodeOK(n), NEW b
  PROVE  <<<<"ino">>, b>> \notin RefsIn(d, n)
<1> DEFINE x == <<<<"ino">>, b>>
<1>1. x[1][1] = "ino"
  OBVIOUS
<1>2. ASSUME RefOf(d, n, x) PROVE FALSE
  <2>1. \A t, i : TopRef(n, t, i)[1][1] = t
    BY DEF TopRef
  <2>2. \A i, j : LowRef(d, n, i, j)[1][1] = "bmap1"
    BY DEF LowRef
  <2> HIDE DEF x
  <2>3. x[1][1] \in {"bmap0", "bmap1"}
    BY <1>2, <2>1, <2>2 DEF RefOf, AtEntry, AtLeaf
  <2> QED
    BY <1>1, <2>3
<1> QED
  BY <1>2, RefsAre

\* trunc_i: X is what it frees of a file, the rest it cannot find is lost.
LEMMA Truncated ==
  ASSUME NEW d, NEW F, NEW L, Good(d, F, L), NEW f \in Files, F[f].ino # 0,
         NEW S, S \subseteq RefsIn(d, F[f]), NEW X, X = Blks(S),
         NEW M, M = L \cup (Blks(RefsIn(d, F[f])) \ X),
         NEW Q, Q[f] = {<<<<"ino">>, F[f].ino>>}, \A g \in Files \ {f} : Q[g] = Owned(d, F)[g]
  PROVE  Space(d.freemap \ X, Min({d.freeblk} \cup X), Q, M)
<1> DEFINE R == Owned(d, F)
           T == RefsIn(d, F[f])
<1>1. Space(d.freemap, d.freeblk, R, L) /\ NodeOK(F[f])
  BY DEF Good, Nodes
<1>2. R[f] = Q[f] \cup T
  BY DEF Owned
<1>3. R[f] \ Q[f] = T
  BY <1>1, <1>2, InoApart
<1> HIDE DEF R, T
<1>4. \A x \in T : x[2] \notin L
  BY <1>1, <1>2 DEF Space, Apart
<1>5. \A b : b \in Blks(T) <=> \E x \in T : x[2] = b
  BY DEF Blks
<1>6. X \subseteq Blks(T)
  BY DEF Blks, T
<1>7. M = L \cup (Blks(T) \ X)
  BY DEF T
<1>8. Loses(R, Q, f, X, L, M)
  <2>1. \A g \in Files \ {f} : Q[g] = R[g]
    BY DEF R
  <2>2. Q[f] \subseteq R[f] /\ L \subseteq M /\ X \cap M = {}
    BY <1>2, <1>4, <1>5, <1>6, <1>7
  <2>3. ASSUME NEW b PROVE b \in X \/ b \in M \ L <=> b \in Blks(T)
    BY <1>4, <1>5, <1>6, <1>7
  <2> QED
    BY <2>1, <2>2, <2>3, <1>3, <1>5 DEF Loses
<1> QED
  BY <1>1, <1>8, TakeBlocks

Elsewhere(f) == Others(disk, fbInode, disk', fbInode', f)

\* The inode trunc leaves.
LEMMA EmptiedIs ==
  ASSUME NEW n, n = [ino |-> n.ino, map |-> n.map, size |-> n.size, blocks |-> n.blocks]
  PROVE  Emptied(n) = [ino |-> n.ino, map |-> NoMap, size |-> 0, blocks |-> 0]
<1> DEFINE a == [n EXCEPT !.map = NoMap]
           b == [a EXCEPT !.size = 0]
<1>1. Emptied(n) = [b EXCEPT !.blocks = 0]
  BY DEF Emptied
<1>2. a = [ino |-> n.ino, map |-> NoMap, size |-> n.size, blocks |-> n.blocks]
  OBVIOUS
<1> HIDE DEF a
<1>3. b = [ino |-> n.ino, map |-> NoMap, size |-> 0, blocks |-> n.blocks]
  BY <1>2
<1> HIDE DEF b
<1> QED
  BY <1>1, <1>3

\* open with O_TRUNC, whatever maps cannot be read.
LEMMA ThrowsAway ==
  ASSUME FbInv, NEW f \in Files, NEW bad, OpenTrunc(f, bad)
  PROVE  FbInv' /\ Elsewhere(f) /\ fbInode'[f].size = 0 /\ fbInode'[f].ino # 0
<1> DEFINE d == disk
           F == fbInode
           n == fbInode[f]
           m == Emptied(n)
           S == FbFound(f, bad)
           X == Blks(S)
           M == lost \cup (Blks(RefsIn(d, n)) \ X)
           e == disk'
           U == Unmapped(f, S)
           Q == [g \in Files |-> IF g = f THEN {<<<<"ino">>, n.ino>>} ELSE Owned(d, F)[g]]
<1>1. Good(d, F, lost) /\ DiskOK(d) /\ NodeOK(n)
  BY DEF FbInv, Sound, Good, Nodes
<1>2. n.ino # 0 /\ ~(req.count > 0) /\ req' = req
  BY DEF OpenTrunc, Exists, Busy
<1>3. S \subseteq RefsIn(d, n)
  BY DEF FbFound, Refs
<1>4. /\ e = [FreeBlks(d, X) EXCEPT !.words = U]
      /\ fbInode' = [F EXCEPT ![f] = m] /\ lost' = M
  BY DEF OpenTrunc, Trunc, Refs
<1> HIDE DEF S, U
<1>5. e = [freemap |-> d.freemap \ X, freeblk |-> Min({d.freeblk} \cup X), words |-> U]
  <2> DEFINE h == FreeBlks(d, X)
  <2>1. h = [freemap |-> d.freemap \ X, freeblk |-> Min({d.freeblk} \cup X), words |-> d.words]
    BY <1>1, FreeIs
  <2>2. e = [h EXCEPT !.words = U]
    BY <1>4
  <2> HIDE DEF h
  <2> QED
    BY <2>1, <2>2
<1> HIDE DEF e
<1>6. m = [ino |-> n.ino, map |-> NoMap, size |-> 0, blocks |-> 0]
  <2>1. n = [ino |-> n.ino, map |-> n.map, size |-> n.size, blocks |-> n.blocks]
    BY <1>1 DEF NodeOK
  <2> QED
    BY <2>1, EmptiedIs
<1> HIDE DEF m
<1>7. ASSUME NEW b \in Blocks, \A x \in RefsIn(d, n) : x[2] # b PROVE U[b] = d.words[b]
  <2>1. \A i \in Index : U[b][i] = d.words[b][i]
    BY <1>7 DEF U, Unmapped, Refs
  <2>2. U[b] = [i \in Index |-> U[b][i]]
    BY DEF U, Unmapped
  <2>3. d.words[b] = [i \in Index |-> d.words[b][i]]
    BY <1>1 DEF DiskOK
  <2> QED
    BY <2>1, <2>2, <2>3
<1>8. DiskOK(e)
  <2>1. U \in [Blocks -> [Index -> 0 .. Datum]]
    <3>1. \A b \in Blocks, i \in Index : d.words[b][i] \in 0 .. Datum
      BY <1>1 DEF DiskOK
    <3>2. 0 \in 0 .. Datum
      BY FileBlocksAssumption DEF Datum
    <3>3. \A b \in Blocks : U[b] \in [Index -> 0 .. Datum]
      BY <3>1, <3>2 DEF U, Unmapped
    <3>4. U = [b \in Blocks |-> U[b]]
      BY DEF U, Unmapped
    <3> QED
      BY <3>3, <3>4
  <2> QED
    BY <1>5, <2>1 DEF DiskOK
<1>9. OthersWords(d, e, F, f)
  <2> SUFFICES ASSUME NEW g \in Files \ {f}, F[g].ino # 0, NEW b \in Blocks, b # 0,
                      b \in MapsOf(F[g]) \/ LeafOf(d, F[g], b)
               PROVE  e.words[b] = d.words[b]
    <3>1. \A g \in Files : MapsOf(F[g]) \subseteq Blocks \ {0}
      BY <1>1, MapsBlocks DEF Good, Nodes, MapsOf
    <3> QED
      BY <3>1 DEF OthersWords, KeepsWords
  <2>1. \A x \in RefsIn(d, n) : x[2] # b
    BY <1>1, <1>2, NotOthers
  <2> QED
    BY <2>1, <1>5, <1>7
<1>10. Q[f] = {<<<<"ino">>, n.ino>>} /\ \A g \in Files \ {f} : Q[g] = Owned(d, F)[g]
  OBVIOUS
<1> HIDE DEF Q, X, M
<1>11. Space(e.freemap, e.freeblk, Q, M)
  BY <1>1, <1>2, <1>3, <1>5, <1>10, Truncated DEF X, M
<1>12. Clears(d, F, f, m, e, Q, M)
  BY <1>2, <1>6, <1>8, <1>9, <1>10, <1>11 DEF Clears
<1>13. Sound(e, [F EXCEPT ![f] = m], req, M) /\ Others(d, F, e, [F EXCEPT ![f] = m], f)
  BY <1>2, <1>12, ClearSound DEF FbInv
<1>14. fbInode'[f] = m
  BY <1>1, <1>4 DEF Good, Nodes
<1> QED
  BY <1>2, <1>4, <1>6, <1>13, <1>14 DEF FbInv, Elsewhere, e

\* free_inode: the blocks first, then the inode's own.
LEMMA Removes ==
  ASSUME FbInv, NEW f \in Files, NEW bad, Remove(f, bad)
  PROVE  FbInv' /\ Elsewhere(f) /\ fbInode'[f].size = 0 /\ fbInode'[f].ino = 0
<1> DEFINE d == disk
           F == fbInode
           n == fbInode[f]
           S == FbFound(f, bad)
           X == Blks(S)
           M == lost \cup (Blks(RefsIn(d, n)) \ X)
           h == FreeBlks(d, X)
           e == disk'
           P == [g \in Files |-> IF g = f THEN {<<<<"ino">>, n.ino>>} ELSE Owned(d, F)[g]]
           Q == [g \in Files |-> IF g = f THEN {} ELSE Owned(d, F)[g]]
<1>1. Good(d, F, lost) /\ DiskOK(d) /\ NodeOK(n)
  BY DEF FbInv, Sound, Good, Nodes
<1>2. n.ino # 0 /\ ~(req.count > 0) /\ req' = req
  BY DEF Remove, Exists, Busy
<1>3. S \subseteq RefsIn(d, n)
  BY DEF FbFound, Refs
<1>4. /\ e = FreeBlks(h, {n.ino})
      /\ fbInode' = [F EXCEPT ![f] = NoInode] /\ lost' = M
  BY DEF Remove, Trunc, Refs
<1> HIDE DEF S
<1>5. h = [freemap |-> d.freemap \ X, freeblk |-> Min({d.freeblk} \cup X), words |-> d.words]
  BY <1>1, FreeIs
<1> HIDE DEF h
<1>6. DiskOK(h)
  BY <1>1, <1>5 DEF DiskOK
<1>7. e = [freemap |-> h.freemap \ {n.ino}, freeblk |-> Min({h.freeblk} \cup {n.ino}),
           words |-> d.words]
  <2>1. h.words = d.words
    BY <1>5
  <2>2. FreeBlks(h, {n.ino}) = [freemap |-> h.freemap \ {n.ino},
                                freeblk |-> Min({h.freeblk} \cup {n.ino}), words |-> h.words]
    BY <1>6, FreeIs
  <2> QED
    BY <1>4, <2>1, <2>2
<1> HIDE DEF e
<1>8. DiskOK(e)
  BY <1>1, <1>7 DEF DiskOK
<1>9. OthersWords(d, e, F, f)
  BY <1>7 DEF OthersWords, KeepsWords
<1>10. P[f] = {<<<<"ino">>, n.ino>>} /\ \A g \in Files \ {f} : P[g] = Owned(d, F)[g]
  OBVIOUS
<1>11. Q[f] = {} /\ \A g \in Files \ {f} : Q[g] = Owned(d, F)[g]
  OBVIOUS
<1> HIDE DEF P, Q, X, M
<1>12. Space(h.freemap, h.freeblk, P, M)
  BY <1>1, <1>2, <1>3, <1>5, <1>10, Truncated DEF X, M
<1>13. Loses(P, Q, f, {n.ino}, M, M)
  <2>1. n.ino \notin M
    <3>1. <<<<"ino">>, n.ino>> \in P[f] /\ <<<<"ino">>, n.ino>>[2] = n.ino
      BY <1>10
    <3> QED
      BY <3>1, <1>12 DEF Space, Apart
  <2>2. P[f] \ Q[f] = {<<<<"ino">>, n.ino>>}
    BY <1>10, <1>11
  <2>3. ASSUME NEW b
        PROVE  b \in {n.ino} \/ b \in M \ M <=> \E x \in P[f] \ Q[f] : x[2] = b
    <3> DEFINE y == <<<<"ino">>, n.ino>>
               Z == P[f] \ Q[f]
    <3>1. y[2] = n.ino /\ Z = {y}
      BY <2>2
    <3> HIDE DEF y, Z
    <3>2. (\E x \in Z : x[2] = b) <=> b = n.ino
      BY <3>1
    <3> QED
      BY <3>2 DEF Z
  <2> QED
    BY <2>1, <2>3, <1>10, <1>11 DEF Loses
<1>14. Space(e.freemap, e.freeblk, Q, M)
  BY <1>7, <1>12, <1>13, TakeBlocks
<1>15. Clears(d, F, f, NoInode, e, Q, M)
  BY <1>8, <1>9, <1>11, <1>14 DEF Clears, NoInode
<1>16. Sound(e, [F EXCEPT ![f] = NoInode], req, M) /\ Others(d, F, e, [F EXCEPT ![f] = NoInode], f)
  BY <1>2, <1>15, ClearSound DEF FbInv
<1>17. fbInode'[f] = NoInode
  BY <1>1, <1>4 DEF Good, Nodes
<1> QED
  BY <1>2, <1>4, <1>16, <1>17 DEF FbInv, Elsewhere, e, NoInode

\* A block that has just been allocated: erased, and in no file yet.
LEMMA Allocated ==
  ASSUME NEW d, NEW F, NEW L, Good(d, F, L), ~Full(d), NEW c, c = Min(Candidates(d))
  PROVE  /\ c \in Data /\ c # 0 /\ c \notin d.freemap /\ Scanned(d.freemap \cup {c}, c + 1)
         /\ AllocBlk(d) = [freemap |-> d.freemap \cup {c}, freeblk |-> c + 1,
                           words |-> [d.words EXCEPT ![c] = Erased]]
         /\ DiskOK(AllocBlk(d))
         /\ \A b \in Blocks : b # c => AllocBlk(d).words[b] = d.words[b]
         /\ \A g \in Files : F[g].ino # 0 => c \notin MapsOf(F[g]) /\ ~LeafOf(d, F[g], c)
<1>1. DiskOK(d) /\ d.freemap \subseteq Blocks /\ Scanned(d.freemap, d.freeblk)
  BY DEF Good, Space, Marked
<1>2. /\ c \in Data /\ c \notin d.freemap /\ Scanned(d.freemap \cup {c}, c + 1)
      /\ AllocBlk(d) = [freemap |-> d.freemap \cup {c}, freeblk |-> c + 1,
                        words |-> [d.words EXCEPT ![c] = Erased]]
      /\ DiskOK(AllocBlk(d))
  BY <1>1, AllocIs
<1>3. c # 0
  BY <1>2, FileBlocksAssumption DEF Data
<1>4. \A b \in Blocks : b # c => AllocBlk(d).words[b] = d.words[b]
  BY <1>1, <1>2 DEF DiskOK
<1>5. \A g \in Files : F[g].ino # 0 => c \notin MapsOf(F[g]) /\ ~LeafOf(d, F[g], c)
  BY <1>2, FreshIs
<1> QED
  BY <1>2, <1>3, <1>4, <1>5

\* alloc_inode.
LEMMA Creates ==
  ASSUME FbInv, NEW f \in Files, Create(f)
  PROVE  FbInv' /\ Elsewhere(f) /\ fbInode'[f].size = 0 /\ fbInode'[f].ino # 0
<1> DEFINE d == disk
           F == fbInode
           c == Min(Candidates(disk))
           m == [NoInode EXCEPT !.ino = c]
           e == disk'
           R == Owned(d, F)
           Q == [g \in Files |-> IF g = f THEN {<<<<"ino">>, c>>} ELSE R[g]]
<1>1. Good(d, F, lost) /\ DiskOK(d) /\ Space(d.freemap, d.freeblk, R, lost)
  BY DEF FbInv, Sound, Good
<1>2. F[f].ino = 0 /\ ~(req.count > 0) /\ req' = req /\ lost' = lost /\ ~Full(d)
  BY DEF Create, Exists, Busy
<1>3. e = AllocBlk(d) /\ fbInode' = [F EXCEPT ![f] = m]
  BY DEF Create
<1>4. m = [ino |-> c, map |-> NoMap, size |-> 0, blocks |-> 0]
  BY DEF NoInode
<1>5. R[f] = {}
  BY <1>2 DEF Owned
<1> HIDE DEF m, c, e, R
<1>6. /\ c \in Data /\ c # 0 /\ c \notin d.freemap /\ Scanned(d.freemap \cup {c}, c + 1)
      /\ AllocBlk(d) = [freemap |-> d.freemap \cup {c}, freeblk |-> c + 1,
                        words |-> [d.words EXCEPT ![c] = Erased]]
      /\ DiskOK(AllocBlk(d))
      /\ \A b \in Blocks : b # c => AllocBlk(d).words[b] = d.words[b]
      /\ \A g \in Files : F[g].ino # 0 => c \notin MapsOf(F[g]) /\ ~LeafOf(d, F[g], c)
  BY <1>1, <1>2, Allocated DEF c
<1>7. OthersWords(d, e, F, f)
  <2>1. \A g \in Files : MapsOf(F[g]) \subseteq Blocks
    BY <1>1, MapsBlocks DEF Good, Nodes
  <2> QED
    BY <2>1, <1>3, <1>6 DEF OthersWords, KeepsWords
<1>8. Q[f] = {<<<<"ino">>, c>>} /\ \A g \in Files \ {f} : Q[g] = R[g]
  OBVIOUS
<1> HIDE DEF Q
<1>9. Gains(Q, R, f, <<"ino">>, c)
  BY <1>5, <1>8 DEF Gains
<1>10. Space(d.freemap \cup {c}, c + 1, Q, lost)
  BY <1>1, <1>6, <1>9, GiveBlock
<1>11. Space(e.freemap, e.freeblk, Q, lost)
  BY <1>3, <1>6, <1>10
<1>12. Clears(d, F, f, m, e, Q, lost)
  BY <1>3, <1>4, <1>6, <1>7, <1>8, <1>11 DEF Clears, R
<1>13. Sound(e, [F EXCEPT ![f] = m], req, lost) /\ Others(d, F, e, [F EXCEPT ![f] = m], f)
  BY <1>2, <1>12, ClearSound DEF FbInv
<1>14. fbInode'[f] = m
  BY <1>1, <1>3 DEF Good, Nodes
<1> QED
  BY <1>2, <1>3, <1>4, <1>6, <1>13, <1>14 DEF FbInv, Elsewhere, e

\* No file changes, nor any word one of them reads.
AllWords(d, e, F) ==
  \A g \in Files : F[g].ino # 0 =>
    /\ KeepsWords(d, e, MapsOf(F[g]))
    /\ KeepsWords(d, e, {b \in Blocks \ {0} : LeafOf(d, F[g], b)})
Same(d, F, e) == \A g \in Files : SameFile(d, F, e, F, g)

\* The invariant holds when only words nobody reads have changed.
LEMMA KeptSound ==
  ASSUME NEW d, NEW F, NEW r, NEW L, Sound(d, F, r, L), NEW e, DiskOK(e),
         Space(e.freemap, e.freeblk, Owned(d, F), L), AllWords(d, e, F)
  PROVE  Sound(e, F, r, L) /\ Same(d, F, e)
<1>1. Nodes(F) /\ Counts(d, F) /\ Sizes(F) /\ Zeros(d, F) /\ Asked(F, r)
  BY DEF Sound, Good
<1>2. ASSUME NEW g \in Files, F[g].ino # 0
      PROVE  RefsIn(e, F[g]) = RefsIn(d, F[g]) /\ KeepsText(d, F[g], e, F[g])
  <2>1. NodeOK(F[g]) /\ KeepsWords(d, e, MapsOf(F[g]))
        /\ KeepsWords(d, e, {b \in Blocks \ {0} : LeafOf(d, F[g], b)})
    BY <1>1, <1>2 DEF Nodes, AllWords
  <2> QED
    BY <2>1, SameRefs, SameRaw
<1>3. Counts(e, F)
  BY <1>1, <1>2 DEF Counts
<1>4. Owned(e, F) = Owned(d, F)
  BY <1>2 DEF Owned
<1>5. Zeros(e, F)
  <2> SUFFICES ASSUME NEW g \in Files, F[g].ino # 0, NEW p \in Nat, p >= F[g].size,
                      Quot(p) \in Shallow
               PROVE  Raw(e, F[g], Quot(p), Rem(p)) = 0
    BY DEF Zeros, ZeroPast
  <2>1. Raw(d, F[g], Quot(p), Rem(p)) = 0 /\ Rem(p) \in Index
    BY <1>1, Division DEF Zeros, ZeroPast
  <2> QED
    BY <2>1, <1>2 DEF KeepsText
<1>6. Same(d, F, e)
  BY <1>1, <1>2 DEF Same, SameFile, Sizes
<1> QED
  BY <1>1, <1>3, <1>4, <1>5, <1>6 DEF Sound, Good

\* alloc_inode that gives its block back: freeblk is where it was found.
LEMMA FailsToCreate ==
  ASSUME FbInv, CreateFails
  PROVE  FbInv' /\ Same(disk, fbInode, disk') /\ fbInode' = fbInode
<1> DEFINE d == disk
           F == fbInode
           c == Min(Candidates(disk))
           h == AllocBlk(d)
           e == disk'
           R == Owned(d, F)
<1>1. Good(d, F, lost) /\ DiskOK(d) /\ Space(d.freemap, d.freeblk, R, lost)
  BY DEF FbInv, Sound, Good
<1>2. req' = req /\ lost' = lost /\ fbInode' = F /\ ~Full(d) /\ e = FreeBlks(h, {c})
  BY DEF CreateFails
<1> HIDE DEF c, e, R
<1>3. /\ c \in Data /\ c # 0 /\ c \notin d.freemap /\ Scanned(d.freemap \cup {c}, c + 1)
      /\ h = [freemap |-> d.freemap \cup {c}, freeblk |-> c + 1,
              words |-> [d.words EXCEPT ![c] = Erased]]
      /\ DiskOK(h)
      /\ \A b \in Blocks : b # c => h.words[b] = d.words[b]
      /\ \A g \in Files : F[g].ino # 0 => c \notin MapsOf(F[g]) /\ ~LeafOf(d, F[g], c)
  BY <1>1, <1>2, Allocated DEF c
<1> HIDE DEF h
<1>4. e = [freemap |-> h.freemap \ {c}, freeblk |-> Min({h.freeblk} \cup {c}), words |-> h.words]
  BY <1>2, <1>3, FreeIs
<1>5. h.freemap \ {c} = d.freemap
  BY <1>3
<1>6. Min({h.freeblk} \cup {c}) = c
  <2>1. c \in Nat /\ c + 1 \in Nat /\ h.freeblk = c + 1
    BY <1>3, FileBlocksAssumption DEF Data
  <2>2. {h.freeblk} \cup {c} = {c + 1, c}
    BY <2>1
  <2>3. Min({c + 1, c}) = c
    BY <2>1, PairMinMax
  <2> QED
    BY <2>2, <2>3
<1>7. e = [freemap |-> d.freemap, freeblk |-> c, words |-> h.words]
  BY <1>4, <1>5, <1>6
<1>8. DiskOK(e)
  BY <1>3, <1>7 DEF DiskOK
<1>9. Scanned(d.freemap, c)
  BY <1>3, FileBlocksAssumption DEF Scanned, Data
<1>10. Space(e.freemap, e.freeblk, R, lost)
  BY <1>1, <1>7, <1>9 DEF Space
<1>11. AllWords(d, e, F)
  <2>1. \A g \in Files : MapsOf(F[g]) \subseteq Blocks
    BY <1>1, MapsBlocks DEF Good, Nodes
  <2> QED
    BY <2>1, <1>3, <1>7 DEF AllWords, KeepsWords
<1>12. Sound(e, F, req, lost) /\ Same(d, F, e)
  BY <1>8, <1>10, <1>11, KeptSound DEF FbInv, R
<1> QED
  BY <1>2, <1>12 DEF FbInv, e

\* A file with another size, and the same blocks.
LEMMA SizeGood ==
  ASSUME NEW d, NEW F, NEW L, Good(d, F, L), NEW f \in Files, F[f].ino # 0, NEW z,
         NEW m, m = [ino |-> F[f].ino, map |-> F[f].map, size |-> z, blocks |-> F[f].blocks]
  PROVE  Good(d, [F EXCEPT ![f] = m], L) /\ KeepsText(d, F[f], d, m)
<1> DEFINE G == [F EXCEPT ![f] = m]
<1>1. Nodes(F) /\ Counts(d, F) /\ NodeOK(F[f])
  BY DEF Good, Nodes
<1>2. G[f] = m /\ G = [g \in Files |-> G[g]] /\ \A g \in Files \ {f} : G[g] = F[g]
  BY <1>1 DEF Nodes
<1> HIDE DEF G
<1>3. NodeOK(m) /\ m.map = F[f].map /\ m.ino = F[f].ino /\ m.blocks = F[f].blocks
  BY <1>1 DEF NodeOK
<1>4. Nodes(G)
  BY <1>1, <1>2, <1>3 DEF Nodes
<1>5. RefsIn(d, m) = RefsIn(d, F[f])
  BY <1>1, <1>3, SameRefs DEF KeepsWords
<1>6. KeepsText(d, F[f], d, m)
  BY <1>1, <1>3, SameRaw DEF KeepsWords
<1>7. \A g \in Files : /\ G[g].ino = F[g].ino /\ G[g].blocks = F[g].blocks
                       /\ RefsIn(d, G[g]) = RefsIn(d, F[g])
  BY <1>2, <1>3, <1>5
<1>8. Counts(d, G)
  BY <1>1, <1>7 DEF Counts
<1>9. Owned(d, G) = Owned(d, F)
  BY <1>7 DEF Owned
<1> QED
  BY <1>4, <1>6, <1>8, <1>9 DEF Good, G

\* reg_write moves the end: what lies before the new one has never been written.
LEMMA StartsWrite ==
  ASSUME ShallowLimit, FbInv, NEW f \in Files, NEW pos \in Nat, NEW count \in Nat \ {0},
         WriteStart(f, pos, count)
  PROVE  /\ FbInv' /\ Elsewhere(f) /\ fbInode'[f].ino = fbInode[f].ino /\ fbInode[f].ino # 0
         /\ fbInode'[f].size \in fbInode[f].size .. Longest
         /\ Texts(disk', fbInode')[f] = Texts(disk, fbInode)[f]
<1> DEFINE d == disk
           F == fbInode
           n == fbInode[f]
           z == Max({n.size, pos + count})
           m == [n EXCEPT !.size = z]
           G == fbInode'
<1>1. Good(d, F, lost) /\ Sizes(F) /\ Zeros(d, F) /\ NodeOK(n) /\ Nodes(F)
  BY DEF FbInv, Sound, Good, Nodes
<1>2. n.ino # 0 /\ pos + count <= Longest
  BY DEF WriteStart, Exists, Within
<1>3. n.size \in 0 .. Longest /\ Longest \in Nat
  BY <1>1, LongestIs DEF Sizes
<1>4. z \in n.size .. Longest /\ pos + count <= z
  <2>1. n.size \in Nat /\ pos + count \in Nat
    BY <1>3
  <2>2. z = IF n.size <= pos + count THEN pos + count ELSE n.size
    BY <2>1, PairMinMax
  <2> HIDE DEF z
  <2> QED
    BY <2>2, <1>2, <1>3
<1>5. m = [ino |-> n.ino, map |-> n.map, size |-> z, blocks |-> n.blocks]
  BY <1>1 DEF NodeOK
<1>6. G = [F EXCEPT ![f] = m] /\ disk' = d /\ lost' = lost
      /\ req' = [file |-> f, pos |-> pos, count |-> count]
  BY DEF WriteStart
<1>7. G[f] = m /\ \A g \in Files \ {f} : G[g] = F[g]
  BY <1>1, <1>6 DEF Nodes
<1> HIDE DEF z, m
<1>8. Good(d, G, lost) /\ KeepsText(d, n, d, m)
  BY <1>1, <1>2, <1>5, <1>6, SizeGood
<1> HIDE DEF G
<1>9. m.ino = n.ino /\ m.size = z
  BY <1>5
<1>10. Sizes(G)
  BY <1>1, <1>2, <1>3, <1>4, <1>7, <1>9 DEF Sizes
<1>11. Zeros(d, G)
  <2> SUFFICES ASSUME NEW g \in Files, G[g].ino # 0, NEW p \in Nat, p >= G[g].size,
                      Quot(p) \in Shallow
               PROVE  Raw(d, G[g], Quot(p), Rem(p)) = 0
    BY DEF Zeros, ZeroPast
  <2>1. F[g].ino # 0 /\ p >= F[g].size
    BY <1>2, <1>3, <1>4, <1>7, <1>9
  <2>2. Raw(d, F[g], Quot(p), Rem(p)) = 0 /\ Rem(p) \in Index
    BY <2>1, <1>1, Division DEF Zeros, ZeroPast
  <2>3. KeepsText(d, F[g], d, G[g])
    BY <1>7, <1>8 DEF KeepsText
  <2> QED
    BY <2>2, <2>3 DEF KeepsText
<1>12. Asked(G, req')
  BY <1>2, <1>4, <1>6, <1>7, <1>9 DEF Asked
<1>13. Sound(disk', G, req', lost')
  BY <1>6, <1>8, <1>10, <1>11, <1>12 DEF Sound
<1>14. Elsewhere(f)
  <2>1. \A g \in Files \ {f} : SameFile(d, F, d, G, g)
    BY <1>1, <1>7 DEF SameFile, Sizes, KeepsText
  <2> QED
    BY <2>1, <1>6, <1>7 DEF Elsewhere, Others, G
<1>15. Texts(d, G)[f] = Texts(d, F)[f]
  <2>1. ASSUME NEW p \in 0 .. Longest - 1 PROVE ReadWord(d, m, p) = ReadWord(d, n, p)
    <3>1. p \in Nat /\ Quot(p) \in Shallow /\ Rem(p) \in Index
      BY LimitIs, LongestIs, Division
    <3>2. Raw(d, m, Quot(p), Rem(p)) = Raw(d, n, Quot(p), Rem(p))
      BY <3>1, <1>8 DEF KeepsText
    <3>3. p >= n.size => Raw(d, n, Quot(p), Rem(p)) = 0
      BY <3>1, <1>1, <1>2 DEF Zeros, ZeroPast
    <3> QED
      BY <3>1, <3>2, <3>3, <1>3, <1>4, <1>9, ReadIs
  <2> QED
    BY <2>1, <1>7 DEF Texts
<1> QED
  BY <1>2, <1>4, <1>6, <1>7, <1>9, <1>13, <1>14, <1>15 DEF FbInv, G

\* A walk, whether it finds a block or fails on the way.
Replaces(F, f, n, G) == G = [F EXCEPT ![f] = n]

\* The invariant holds after a walk.
LEMMA WalksSound ==
  ASSUME NEW d, NEW F, NEW r, NEW L, Sound(d, F, r, L), NEW f \in Files, F[f].ino # 0,
         NEW w, WalkOK(w, d, F, f, L), NEW G, Replaces(F, f, w.n, G)
  PROVE  /\ Sound(w.d, G, r, L) /\ Others(d, F, w.d, G, f)
         /\ G[f] = w.n /\ w.n.ino = F[f].ino /\ w.n.size = F[f].size
         /\ KeepsText(d, F[f], w.d, w.n)
<1>1. Good(w.d, G, L) /\ w.n.ino = F[f].ino /\ w.n.size = F[f].size /\ SameText(d, F, w.d, G)
  BY DEF WalkOK, Replaces
<1>2. Nodes(F) /\ Sizes(F) /\ Zeros(d, F) /\ Asked(F, r)
  BY DEF Sound, Good
<1>3. G[f] = w.n /\ \A g \in Files \ {f} : G[g] = F[g]
  BY <1>2 DEF Nodes, Replaces
<1>4. \A g \in Files : G[g].ino = F[g].ino /\ G[g].size = F[g].size
  BY <1>1, <1>3
<1>5. Sizes(G) /\ Asked(G, r)
  BY <1>2, <1>4 DEF Sizes, Asked
<1>6. Zeros(w.d, G)
  <2> SUFFICES ASSUME NEW g \in Files, G[g].ino # 0, NEW p \in Nat, p >= G[g].size,
                      Quot(p) \in Shallow
               PROVE  Raw(w.d, G[g], Quot(p), Rem(p)) = 0
    BY DEF Zeros, ZeroPast
  <2>1. F[g].ino # 0 /\ p >= F[g].size
    BY <1>4
  <2>2. Raw(d, F[g], Quot(p), Rem(p)) = 0 /\ Rem(p) \in Index
    BY <2>1, <1>2, Division DEF Zeros, ZeroPast
  <2> QED
    BY <2>1, <2>2, <1>1 DEF SameText, KeepsText
<1>7. Others(d, F, w.d, G, f)
  BY <1>1, <1>2, <1>3, <1>4 DEF Others, SameFile, SameText, Sizes
<1>8. KeepsText(d, F[f], w.d, w.n)
  BY <1>1, <1>3 DEF SameText
<1> QED
  BY <1>1, <1>3, <1>5, <1>6, <1>7, <1>8 DEF Sound

\* The words of one round of the loop lie within the request.
LEMMA ChunkIs ==
  ASSUME NEW q \in Nat, NEW c \in Nat, c > 0, NEW C,
         C = Rem(q) .. Min({FAN, Rem(q) + c}) - 1
  PROVE  /\ C \subseteq Index /\ Cardinality(C) \in 0 .. c
         /\ \A p \in Nat : Quot(p) = Quot(q) /\ Rem(p) \in C => p < q + c
<1> DEFINE k == Rem(q)
           t == IF FAN <= k + c THEN FAN ELSE k + c
<1>1. k \in Index /\ q = FAN * Quot(q) + k /\ FAN \in Nat
  BY Division, FileBlocksAssumption
<1> HIDE DEF k
<1>2. k \in Nat /\ k < FAN
  BY <1>1 DEF Index
<1>3. Min({FAN, k + c}) = t
  BY <1>1, <1>2, PairMinMax
<1>8. t \in Nat /\ t <= FAN /\ t <= k + c /\ k < t
  BY <1>1, <1>2
<1> HIDE DEF t
<1>4. C = k .. t - 1
  BY <1>3 DEF k
<1>5. C \subseteq Index
  <2>1. FAN \in Nat
    BY <1>1
  <2> QED
    BY ONLY <2>1, <1>2, <1>4, <1>8 DEF Index
<1>6. Cardinality(C) = t - k
  <2>1. k \in Int /\ t - 1 \in Int /\ k <= t - 1
    BY <1>2, <1>8
  <2>2. Cardinality(k .. t - 1) = IF k > t - 1 THEN 0 ELSE (t - 1) - k + 1
    BY <2>1, FS_Interval
  <2> QED
    BY <1>2, <1>4, <1>8, <2>1, <2>2
<1>7. ASSUME NEW p \in Nat, Quot(p) = Quot(q), Rem(p) \in C PROVE p < q + c
  <2> DEFINE h == FAN * Quot(q)
  <2>1. p = h + Rem(p) /\ q = h + k
    BY <1>1, <1>7, Division
  <2>2. Rem(p) \in Index /\ h \in Nat
    <3>1. \A x, y \in Nat : x * y \in Nat
      OBVIOUS
    <3> QED
      BY <3>1, Division, FileBlocksAssumption
  <2> HIDE DEF h
  <2>3. Rem(p) < k + c
    BY ONLY <1>2, <1>4, <1>7, <1>8, c \in Nat
  <2> QED
    BY <1>2, <2>1, <2>2, <2>3 DEF Index
<1>9. Cardinality(C) \in 0 .. c
  BY <1>2, <1>6, <1>8
<1> QED
  BY <1>5, <1>7, <1>9

WritesSome(f, t, u) ==
  \A p \in 0 .. Longest - 1 : u[p] = t[p] \/ (p < fbInode[f].size /\ u[p] = Datum)

\* One round of the loop of reg_write: bmap_alloc, and the words of the request.
LEMMA WritesBlock ==
  ASSUME ShallowLimit, FbInv, WriteBlock
  PROVE  /\ FbInv' /\ req.file \in Files /\ Elsewhere(req.file)
         /\ fbInode[req.file].ino # 0 /\ fbInode'[req.file].ino = fbInode[req.file].ino
         /\ fbInode'[req.file].size = fbInode[req.file].size
         /\ WritesSome(req.file, Texts(disk, fbInode)[req.file],
                       Texts(disk', fbInode')[req.file])
<1> DEFINE d == disk
           F == fbInode
           f == req.file
           w == Walk
           bn == Quot(req.pos)
           b == w.blk
           C == Chunk
           e == disk'
           G == fbInode'
<1>1. Good(d, F, lost) /\ Sizes(F) /\ Zeros(d, F) /\ Asked(F, req) /\ Nodes(F)
  BY DEF FbInv, Sound, Good
<1>2. /\ req.count > 0 /\ w.err = "ok" /\ e = Stored(w.d, b) /\ G = [F EXCEPT ![f] = w.n]
      /\ lost' = lost
  BY DEF WriteBlock, Busy
<1>3. /\ f \in Files /\ F[f].ino # 0 /\ req.pos \in Nat /\ req.count \in Nat
      /\ req.pos + req.count <= F[f].size
      /\ req = [file |-> f, pos |-> req.pos, count |-> req.count]
  BY <1>1, <1>2 DEF Asked
<1>4. F[f].size \in 0 .. Longest /\ Longest \in Nat
  BY <1>1, <1>3, LongestIs DEF Sizes
<1>5. bn \in Shallow
  BY <1>2, <1>3, <1>4, LimitIs
<1>6. /\ WalkOK(w, d, F, f, lost) /\ b # 0 /\ b = Bmap(w.d, w.n, bn)
  <2>1. WalkOK(Start, d, F, f, lost)
    BY <1>1, <1>3, WalkStart DEF Start
  <2>2. w = BmapAlloc(Start, bn)
    BY DEF Walk, Quot
  <2> HIDE DEF w, bn
  <2> QED
    BY <1>1, <1>2, <1>3, <1>5, <2>1, <2>2, WalkEnds
<1>7. Writes(w.d, e, b, C)
  BY <1>2 DEF Writes, Stored
<1>8. /\ C \subseteq Index /\ Cardinality(C) \in 0 .. req.count
      /\ \A p \in Nat : Quot(p) = bn /\ Rem(p) \in C => p < req.pos + req.count
  <2>1. C = Rem(req.pos) .. Min({FAN, Rem(req.pos) + req.count}) - 1
    BY DEF Chunk, Rem
  <2> HIDE DEF C
  <2> QED
    BY <2>1, <1>2, <1>3, ChunkIs
<1>9. req' = IF Cardinality(C) = req.count THEN FbIdle
             ELSE [req EXCEPT !.pos = @ + Cardinality(C), !.count = @ - Cardinality(C)]
  BY DEF WriteBlock
<1> HIDE DEF w, bn, b, C, e, G
<1>10. /\ Sound(w.d, G, req, lost) /\ Others(d, F, w.d, G, f)
       /\ G[f] = w.n /\ w.n.ino = F[f].ino /\ w.n.size = F[f].size
       /\ KeepsText(d, F[f], w.d, w.n)
  <2>1. Replaces(F, f, w.n, G)
    BY <1>2 DEF Replaces
  <2> QED
    BY <2>1, <1>3, <1>6, WalksSound DEF FbInv
<1>11. Good(w.d, G, lost) /\ Sizes(G) /\ Zeros(w.d, G) /\ G[f].ino # 0 /\ Asked(G, req)
  BY <1>3, <1>10 DEF Sound
<1>12. /\ Good(e, G, lost)
       /\ \A g \in Files \ {f} : G[g].ino # 0 => KeepsText(w.d, G[g], e, G[g])
       /\ \A x \in Shallow, i \in Index :
            Raw(e, G[f], x, i) = IF x = bn /\ i \in C THEN Datum ELSE Raw(w.d, G[f], x, i)
  <2>1. b = Bmap(w.d, G[f], bn)
    BY <1>6, <1>10
  <2>2. /\ Good(w.d, G, lost) /\ f \in Files /\ G[f].ino # 0 /\ bn \in Shallow /\ b # 0
        /\ Writes(w.d, e, b, C)
    BY <1>3, <1>5, <1>6, <1>7, <1>11
  <2> HIDE DEF f
  <2> HIDE DEF d, F
  <2>3. Good(e, G, lost) /\ StoresText(w.d, e, G, f, bn, C)
    BY ONLY <2>1, <2>2, StoreGood
  <2> QED
    BY <2>3 DEF StoresText
<1>13. Zeros(e, G)
  <2> SUFFICES ASSUME NEW g \in Files, G[g].ino # 0, NEW p \in Nat, p >= G[g].size,
                      Quot(p) \in Shallow
               PROVE  Raw(e, G[g], Quot(p), Rem(p)) = 0
    BY DEF Zeros, ZeroPast
  <2>1. Raw(w.d, G[g], Quot(p), Rem(p)) = 0 /\ Rem(p) \in Index
    BY <1>11, Division DEF Zeros, ZeroPast
  <2>2. CASE g # f
    BY <2>1, <2>2, <1>12 DEF KeepsText
  <2>3. CASE g = f
    <3>1. ~(Quot(p) = bn /\ Rem(p) \in C)
      BY <2>3, <1>3, <1>4, <1>8, <1>10
    <3> QED
      BY <2>1, <2>3, <3>1, <1>12
  <2> QED
    BY <2>2, <2>3
<1>14. Asked(G, req')
  <2> DEFINE l == Cardinality(C)
  <2>1. CASE l = req.count
    BY <2>1, <1>9 DEF Asked, FbIdle
  <2>2. CASE l # req.count
    <3>1. req' = [file |-> f, pos |-> req.pos + l, count |-> req.count - l]
      <4> DEFINE q == [req EXCEPT !.pos = req.pos + l]
      <4>1. req' = [q EXCEPT !.count = req.count - l]
        BY <1>3, <1>9, <2>2
      <4>2. q = [file |-> f, pos |-> req.pos + l, count |-> req.count]
        BY <1>3
      <4> HIDE DEF q
      <4> QED
        BY <4>1, <4>2
    <3> HIDE DEF l
    <3>2. l \in Nat /\ l <= req.count
      BY <1>8 DEF l
    <3> QED
      BY <3>1, <3>2, <1>3, <1>10 DEF Asked
  <2> QED
    BY <2>1, <2>2
<1>15. Sound(e, G, req', lost')
  BY <1>2, <1>11, <1>12, <1>13, <1>14 DEF Sound
<1>16. Others(d, F, e, G, f)
  <2> SUFFICES ASSUME NEW g \in Files \ {f} PROVE G[g] = F[g] /\ SameFile(d, F, e, G, g)
    BY DEF Others
  <2>1. G[g] = F[g] /\ SameFile(d, F, w.d, G, g)
    BY <1>10 DEF Others
  <2> QED
    BY <2>1, <1>12 DEF SameFile, KeepsText
<1>17. WritesSome(f, Texts(d, F)[f], Texts(e, G)[f])
  <2> SUFFICES ASSUME NEW p \in 0 .. Longest - 1
               PROVE  \/ Texts(e, G)[f][p] = Texts(d, F)[f][p]
                      \/ p < F[f].size /\ Texts(e, G)[f][p] = Datum
    BY DEF WritesSome
  <2>1. /\ Texts(e, G)[f][p] = ReadWord(e, G[f], p)
        /\ Texts(d, F)[f][p] = ReadWord(d, F[f], p)
    BY <1>3 DEF Texts
  <2>2. p \in Nat /\ Quot(p) \in Shallow /\ Rem(p) \in Index
    BY <1>4, LimitIs, Division
  <2>3. Raw(w.d, G[f], Quot(p), Rem(p)) = Raw(d, F[f], Quot(p), Rem(p))
    BY <2>2, <1>10 DEF KeepsText
  <2>4. \/ Raw(e, G[f], Quot(p), Rem(p)) = Raw(d, F[f], Quot(p), Rem(p))
        \/ Raw(e, G[f], Quot(p), Rem(p)) = Datum
    BY <2>2, <2>3, <1>12
  <2> QED
    BY <2>1, <2>4, <1>10, ReadIs
<1> QED
  BY <1>3, <1>10, <1>15, <1>16, <1>17 DEF FbInv, Elsewhere, e, G

\* A round that fails keeps what it has allocated, and shows no change.
LEMMA FailsToWrite ==
  ASSUME ShallowLimit, FbInv, WriteFails
  PROVE  /\ FbInv' /\ req.file \in Files /\ Elsewhere(req.file)
         /\ fbInode'[req.file].ino = fbInode[req.file].ino
         /\ SameFile(disk, fbInode, disk', fbInode', req.file)
<1> DEFINE d == disk
           F == fbInode
           f == req.file
           bn == Quot(req.pos)
<1>1. Good(d, F, lost) /\ Sizes(F) /\ Asked(F, req) /\ Nodes(F)
  BY DEF FbInv, Sound, Good
<1>2. req.count > 0 /\ req' = FbIdle /\ lost' = lost
  BY DEF WriteFails, Busy
<1>3. /\ f \in Files /\ F[f].ino # 0 /\ req.pos \in Nat /\ req.count \in Nat
      /\ req.pos + req.count <= F[f].size
  BY <1>1, <1>2 DEF Asked
<1>4. bn \in Shallow
  <2>1. F[f].size \in 0 .. Longest /\ Longest \in Nat
    BY <1>1, <1>3, LongestIs DEF Sizes
  <2> QED
    BY <2>1, <1>2, <1>3, LimitIs
<1>5. PICK w \in {Walk} \cup Stops(Start, bn) :
        disk' = w.d /\ fbInode' = [F EXCEPT ![f] = w.n]
  BY DEF WriteFails, Quot
<1>6. WalkOK(w, d, F, f, lost)
  <2>1. WalkOK(Start, d, F, f, lost)
    BY <1>1, <1>3, WalkStart DEF Start
  <2>2. Walk = BmapAlloc(Start, bn)
    BY DEF Walk, Quot
  <2> HIDE DEF bn
  <2>3. /\ WalkOK(BmapAlloc(Start, bn), d, F, f, lost)
        /\ \A s \in Stops(Start, bn) : WalkOK(s, d, F, f, lost)
    BY <1>1, <1>3, <1>4, <2>1, WalkEnds
  <2> QED
    BY <1>5, <2>2, <2>3
<1> HIDE DEF bn
<1>7. /\ Sound(w.d, fbInode', req, lost) /\ Others(d, F, w.d, fbInode', f)
      /\ fbInode'[f] = w.n /\ w.n.ino = F[f].ino /\ w.n.size = F[f].size
      /\ KeepsText(d, F[f], w.d, w.n)
  <2>1. Replaces(F, f, w.n, fbInode')
    BY <1>5 DEF Replaces
  <2> QED
    BY <2>1, <1>3, <1>6, WalksSound DEF FbInv
<1>8. Asked(fbInode', FbIdle)
  BY DEF Asked, FbIdle
<1>9. FbInv'
  BY <1>2, <1>5, <1>7, <1>8 DEF FbInv, Sound
<1> QED
  BY <1>3, <1>5, <1>7, <1>9 DEF Elsewhere, SameFile

----------------------------------------------------------------------------
(* The invariant, and what it implies.                                       *)

\* mkfs marks what lies below dblock, and no file exists.
LEMMA SoundInit ==
  ASSUME FbInit
  PROVE  FbInv
<1> DEFINE d == disk
           F == fbInode
<1>1. /\ d = [freemap |-> 0 .. DBLOCK - 1, freeblk |-> 0, words |-> [b \in Blocks |-> [i \in Index |-> Datum]]]
      /\ F = [f \in Files |-> NoInode] /\ req = FbIdle /\ lost = {}
  BY DEF FbInit
<1> HIDE DEF d, F
<1>2. \A f \in Files : F[f] = NoInode /\ F[f].ino = 0 /\ F[f].size = 0
  BY <1>1 DEF NoInode
<1>3. DiskOK(d)
  <2>1. Datum \in 0 .. Datum
    BY FileBlocksAssumption DEF Datum
  <2> QED
    BY <2>1, <1>1 DEF DiskOK
<1>4. Nodes(F)
  <2>1. NodeOK(NoInode)
    BY NoMapIs DEF NoInode
  <2> QED
    BY <2>1, <1>1 DEF Nodes
<1>5. Counts(d, F)
  BY <1>2 DEF Counts
<1>6. Space(d.freemap, d.freeblk, Owned(d, F), lost)
  <2>1. \A f \in Files : Owned(d, F)[f] = {}
    BY <1>2 DEF Owned
  <2>2. d.freemap = 0 .. DBLOCK - 1 /\ d.freeblk = 0
    BY <1>1
  <2>3. InRange(Owned(d, F)) /\ Once(Owned(d, F)) /\ Apart(Owned(d, F), lost)
    BY <2>1, <1>1 DEF InRange, Once, Apart
  <2>4. Marked(d.freemap, Owned(d, F), lost)
    BY <2>1, <2>2, <1>1, FileBlocksAssumption DEF Marked, Uses, Blocks
  <2>5. Scanned(d.freemap, d.freeblk)
    BY <2>2, FileBlocksAssumption DEF Scanned
  <2> QED
    BY <2>3, <2>4, <2>5 DEF Space
<1>7. Sizes(F) /\ Zeros(d, F) /\ Asked(F, req)
  BY <1>1, <1>2, LongestIs DEF Sizes, Zeros, Asked, FbIdle
<1> QED
  BY <1>3, <1>4, <1>5, <1>6, <1>7 DEF FbInv, Sound, Good, d, F

\* Every step keeps the invariant.
LEMMA SoundNext ==
  ASSUME ShallowLimit, FbInv, [FbNext]_fbVars
  PROVE  FbInv'
<1>1. ASSUME NEW f \in Files, Create(f) PROVE FbInv'
  BY <1>1, Creates
<1>2. ASSUME NEW f \in Files, NEW bad, OpenTrunc(f, bad) PROVE FbInv'
  BY <1>2, ThrowsAway
<1>3. ASSUME NEW f \in Files, NEW bad, Remove(f, bad) PROVE FbInv'
  BY <1>3, Removes
<1>4. ASSUME NEW f \in Files, NEW pos \in Starts, NEW count \in Lengths, WriteStart(f, pos, count)
      PROVE  FbInv'
  <2>1. pos \in Nat /\ count \in Nat \ {0}
    BY FileBlocksAssumption
  <2> QED
    BY <2>1, <1>4, StartsWrite
<1>5. CASE CreateFails
  BY <1>5, FailsToCreate
<1>6. CASE WriteBlock
  BY <1>6, WritesBlock
<1>7. CASE WriteFails
  BY <1>7, FailsToWrite
<1>8. CASE UNCHANGED fbVars
  BY <1>8 DEF fbVars, FbInv
<1> QED
  BY <1>1, <1>2, <1>3, <1>4, <1>5, <1>6, <1>7, <1>8 DEF FbNext

\* What fsck would find wrong is nothing.
LEMMA SoundExact ==
  ASSUME FbInv
  PROVE  BlocksExact
<1> DEFINE d == disk
           F == fbInode
           R == Owned(d, F)
<1>1. DiskOK(d) /\ Counts(d, F) /\ Space(d.freemap, d.freeblk, R, lost)
      /\ Sizes(F) /\ Asked(F, req)
  BY DEF FbInv, Sound, Good
<1>2. \A f \in Files : R[f] = IF Exists(f) THEN All(f) ELSE {}
  BY DEF Owned, Exists, All, Refs
<1> HIDE DEF R
<1>3. FbTypeOK
  <2>1. disk.freemap \subseteq Blocks /\ disk.freeblk \in 0 .. NBLOCKS
    BY <1>1 DEF Space, Marked, Scanned
  <2>2. lost \subseteq Blocks
    <3>1. lost \subseteq Data
      BY <1>1 DEF Space, Apart
    <3> QED
      BY <3>1, FileBlocksAssumption DEF Data, Blocks
  <2> QED
    BY <2>1, <2>2, <1>1 DEF FbTypeOK, DiskOK, Sizes, Asked, Busy, Exists
<1>4. MapsInRange
  BY <1>1, <1>2 DEF MapsInRange, Present, Blks, Space, InRange, Data
<1>5. OneOwner
  <2> DEFINE places == UNION {{<<f, r>> : r \in All(f)} : f \in Present}
  <2>1. ASSUME NEW x \in places
        PROVE  \E f \in Files : \E r \in R[f] : x = <<f, r>>
    BY <1>2 DEF Present
  <2> HIDE DEF places
  <2>2. ASSUME NEW x \in places, NEW y \in places, x[2][2] = y[2][2] PROVE x = y
    <3>a. PICK f \in Files : \E r \in R[f] : x = <<f, r>>
      BY <2>1
    <3>b. PICK g \in Files : \E s \in R[g] : y = <<g, s>>
      BY <2>1
    <3>1. PICK r \in R[f] : x = <<f, r>>
      BY <3>a
    <3>2. PICK s \in R[g] : y = <<g, s>>
      BY <3>b
    <3>3. x[2] = r /\ y[2] = s
      BY <3>1, <3>2
    <3>4. r[2] = s[2]
      BY <3>3, <2>2
    <3>5. f = g /\ r = s
      BY <3>4, <1>1 DEF Space, Once
    <3> QED
      BY <3>1, <3>2, <3>5
  <2> QED
    BY <2>2 DEF OneOwner, places
<1>6. UsedMarked
  <2> DEFINE T == UNION {Blks(All(f)) : f \in Present}
  <2>1. \A b : b \in T <=> Uses(R, b)
    BY <1>2 DEF Blks, Present, Uses
  <2>2. \A b : Uses(R, b) => b \in Data
    BY <1>1 DEF Space, InRange, Uses
  <2>3. lost \subseteq Data
    BY <1>1 DEF Space, Apart
  <2> HIDE DEF T
  <2>4. ASSUME NEW b PROVE b \in disk.freemap <=> b \in (0 .. DBLOCK - 1) \cup lost \cup T
    <3>1. b \in Blocks => (b \in disk.freemap <=> b < DBLOCK \/ b \in lost \/ b \in T)
      BY <1>1, <2>1 DEF Space, Marked
    <3>2. disk.freemap \subseteq Blocks
      BY <1>1 DEF Space, Marked
    <3>3. b \in lost \/ b \in T => b \in Blocks
      <4>1. Data \subseteq Blocks
        BY FileBlocksAssumption DEF Data, Blocks
      <4> QED
        BY <4>1, <2>1, <2>2, <2>3
    <3>4. b \in 0 .. DBLOCK - 1 <=> b \in Blocks /\ b < DBLOCK
      BY FileBlocksAssumption DEF Blocks
    <3> QED
      BY <3>1, <3>2, <3>3, <3>4
  <2>5. disk.freemap = (0 .. DBLOCK - 1) \cup lost \cup T
    BY <2>4
  <2> QED
    BY <2>5 DEF UsedMarked, T
<1>7. ScanStart
  BY <1>1 DEF ScanStart, Space, Scanned
<1>8. BlocksCount
  BY <1>1 DEF BlocksCount, Present, Exists, Counts, Refs
<1> QED
  BY <1>3, <1>4, <1>5, <1>6, <1>7, <1>8 DEF BlocksExact, SpaceExact

\* Over creat, open with O_TRUNC, the last inode_put of a file without a name
\* and every step of reg_write, with truncations that cannot read a map, writes
\* that fail anywhere in bmap_alloc and creations that are put back
\* (kern/fs/alloc.c, bmap.c, rw.c): no block is in two places or out of range,
\* the free map marks what is in use or was lost, the scan of alloc_blk starts
\* above no free block, and d.blocks is the number of blocks of the file, for
\* any disk, any maps and any limit that keeps files out of bmap2.
THEOREM BlocksCorrect == ShallowLimit => (FbSpec => []BlocksExact)
<1> SUFFICES ASSUME ShallowLimit
             PROVE  FbSpec => []BlocksExact
  OBVIOUS
<1>1. FbInit => FbInv
  BY SoundInit
<1>2. FbInv /\ [FbNext]_fbVars => FbInv'
  BY SoundNext
<1>3. FbInv => BlocksExact
  BY SoundExact
<1> QED
  BY <1>1, <1>2, <1>3, PTL DEF FbSpec

----------------------------------------------------------------------------
(* The refinement.                                                           *)

\* What Store takes for exists and size.
There(F) == [f \in Files |-> F[f].ino # 0]
Ends(F)  == [f \in Files |-> F[f].size]

\* Texts, There and Ends are the variables of Store.
LEMMA StoreView ==
  /\ [f \in Files |-> Exists(f)] = There(fbInode)
  /\ [f \in Files |-> fbInode[f].size] = Ends(fbInode)
  /\ [f \in Files |-> [p \in 0 .. Longest - 1 |-> ReadWord(disk, fbInode[f], p)]]
       = Texts(disk, fbInode)
BY DEF There, Ends, Texts, Exists

\* What a step leaves of the other files.
LEMMA OthersView ==
  ASSUME ShallowLimit, NEW f \in Files, Elsewhere(f)
  PROVE  \A g \in Files \ {f} :
           /\ There(fbInode)'[g] = There(fbInode)[g] /\ Ends(fbInode)'[g] = Ends(fbInode)[g]
           /\ Texts(disk, fbInode)'[g] = Texts(disk, fbInode)[g]
<1> SUFFICES ASSUME NEW g \in Files \ {f}
             PROVE  /\ There(fbInode)'[g] = There(fbInode)[g] /\ Ends(fbInode)'[g] = Ends(fbInode)[g]
                    /\ Texts(disk, fbInode)'[g] = Texts(disk, fbInode)[g]
  OBVIOUS
<1>1. fbInode'[g] = fbInode[g] /\ SameFile(disk, fbInode, disk', fbInode', g)
  BY DEF Elsewhere, Others
<1>2. Texts(disk', fbInode')[g] = Texts(disk, fbInode)[g]
  BY <1>1, TextKept
<1>3. There(fbInode')[g] = There(fbInode)[g] /\ Ends(fbInode')[g] = Ends(fbInode)[g]
  BY <1>1 DEF There, Ends
<1> QED
  BY <1>2, <1>3

\* A file made, emptied or removed.
LEMMA StoreClear ==
  ASSUME ShallowLimit, NEW f \in Files, Elsewhere(f), fbInode'[f].size = 0
  PROVE  /\ fbInode'[f].ino # 0 => Store!Clear(f)
         /\ fbInode'[f].ino = 0 => Store!Remove(f)
<1> DEFINE T == There(fbInode)
           S == Ends(fbInode)
           X == Texts(disk, fbInode)
<1>1. /\ Store!Clear(f) <=> /\ T' = [T EXCEPT ![f] = TRUE] /\ S' = [S EXCEPT ![f] = 0]
                            /\ X' = [X EXCEPT ![f] = Store!Empty]
      /\ Store!Remove(f) <=> /\ T' = [T EXCEPT ![f] = FALSE] /\ S' = [S EXCEPT ![f] = 0]
                             /\ X' = [X EXCEPT ![f] = Store!Empty]
  BY DEF Store!Clear, Store!Remove, There, Ends, Texts, Exists
<1>2. \A g \in Files \ {f} : T'[g] = T[g] /\ S'[g] = S[g] /\ X'[g] = X[g]
  BY OthersView
<1>3. S'[f] = 0 /\ (T'[f] <=> fbInode'[f].ino # 0) /\ X'[f] = Store!Empty
  <2>1. Texts(disk', fbInode')[f] = Zeroes
    BY EmptyText
  <2>2. Store!Empty = Zeroes
    BY DEF Store!Empty, Zeroes
  <2> QED
    BY <2>1, <2>2 DEF Ends, There
<1>4. /\ T = [g \in Files |-> T[g]] /\ T' = [g \in Files |-> T'[g]]
      /\ S = [g \in Files |-> S[g]] /\ S' = [g \in Files |-> S'[g]]
      /\ X = [g \in Files |-> X[g]] /\ X' = [g \in Files |-> X'[g]]
  BY DEF There, Ends, Texts
<1>5. \A g \in Files : T[g] \in BOOLEAN /\ T'[g] \in BOOLEAN
  BY DEF There
<1> HIDE DEF T, S, X
<1> QED
  BY <1>1, <1>2, <1>3, <1>4, <1>5

SameStore ==
  /\ There(fbInode)' = There(fbInode) /\ Ends(fbInode)' = Ends(fbInode)
  /\ Texts(disk, fbInode)' = Texts(disk, fbInode)

\* A write that fails changes nothing to be seen ...
LEMMA StoreStays ==
  ASSUME ShallowLimit, NEW f \in Files, Elsewhere(f), fbInode'[f].ino = fbInode[f].ino,
         SameFile(disk, fbInode, disk', fbInode', f)
  PROVE  SameStore
<1>1. \A g \in Files \ {f} :
        /\ There(fbInode)'[g] = There(fbInode)[g] /\ Ends(fbInode)'[g] = Ends(fbInode)[g]
        /\ Texts(disk, fbInode)'[g] = Texts(disk, fbInode)[g]
  BY OthersView
<1>2. Texts(disk', fbInode')[f] = Texts(disk, fbInode)[f]
  BY TextKept
<1>3. There(fbInode')[f] = There(fbInode)[f] /\ Ends(fbInode')[f] = Ends(fbInode)[f]
  BY DEF There, Ends, SameFile
<1> DEFINE T == There(fbInode)
           S == Ends(fbInode)
           X == Texts(disk, fbInode)
<1>4. /\ T = [g \in Files |-> T[g]] /\ T' = [g \in Files |-> T'[g]]
      /\ S = [g \in Files |-> S[g]] /\ S' = [g \in Files |-> S'[g]]
      /\ X = [g \in Files |-> X[g]] /\ X' = [g \in Files |-> X'[g]]
  BY DEF There, Ends, Texts
<1>5. \A g \in Files : T'[g] = T[g] /\ S'[g] = S[g] /\ X'[g] = X[g]
  BY <1>1, <1>2, <1>3
<1> HIDE DEF T, S, X
<1>6. T' = T /\ S' = S /\ X' = X
  BY <1>4, <1>5
<1> QED
  BY <1>6 DEF SameStore, T, S, X

\* ... nor does a file that is not made after all.
LEMMA StoreSame ==
  ASSUME ShallowLimit, Same(disk, fbInode, disk'), fbInode' = fbInode
  PROVE  SameStore
<1>1. \A g \in Files : Texts(disk', fbInode')[g] = Texts(disk, fbInode)[g]
  BY TextKept DEF Same
<1>2. Texts(disk', fbInode') = Texts(disk, fbInode)
  BY <1>1 DEF Texts
<1> QED
  BY <1>2 DEF SameStore

\* The start of a write moves the end of the file.
LEMMA StoreExtend ==
  ASSUME ShallowLimit, NEW f \in Files, Elsewhere(f), fbInode'[f].ino = fbInode[f].ino,
         fbInode[f].ino # 0, fbInode'[f].size \in fbInode[f].size .. Longest,
         Texts(disk', fbInode')[f] = Texts(disk, fbInode)[f]
  PROVE  Store!Extend(f)
<1> DEFINE T == There(fbInode)
           S == Ends(fbInode)
           X == Texts(disk, fbInode)
<1>1. Store!Extend(f) <=> /\ T[f] /\ \E n \in S[f] .. Longest : S' = [S EXCEPT ![f] = n]
                          /\ T' = T /\ X' = X
  BY DEF Store!Extend, There, Ends, Texts, Exists
<1>2. \A g \in Files \ {f} : T'[g] = T[g] /\ S'[g] = S[g] /\ X'[g] = X[g]
  BY OthersView
<1>3. T[f] /\ T'[f] = T[f] /\ S'[f] \in S[f] .. Longest /\ X'[f] = X[f]
  BY DEF Ends, There
<1>4. /\ T = [g \in Files |-> T[g]] /\ T' = [g \in Files |-> T'[g]]
      /\ S = [g \in Files |-> S[g]] /\ S' = [g \in Files |-> S'[g]]
      /\ X = [g \in Files |-> X[g]] /\ X' = [g \in Files |-> X'[g]]
  BY DEF There, Ends, Texts
<1> HIDE DEF T, S, X
<1>5. T' = T /\ X' = X
  BY <1>2, <1>3, <1>4
<1>6. S' = [S EXCEPT ![f] = S'[f]]
  BY <1>2, <1>4
<1> QED
  BY <1>1, <1>3, <1>5, <1>6

\* One round of a write changes words before the end.
LEMMA StoreWrite ==
  ASSUME ShallowLimit, NEW f \in Files, Elsewhere(f), fbInode'[f].ino = fbInode[f].ino,
         fbInode[f].ino # 0, fbInode'[f].size = fbInode[f].size,
         WritesSome(f, Texts(disk, fbInode)[f], Texts(disk', fbInode')[f])
  PROVE  Store!Write(f)
<1> DEFINE T == There(fbInode)
           S == Ends(fbInode)
           X == Texts(disk, fbInode)
<1>1. Store!Write(f) <=>
        /\ T[f]
        /\ \E w \in {0, Datum} : \A p \in 0 .. Longest - 1 :
             X'[f][p] = X[f][p] \/ (p < S[f] /\ X'[f][p] = w)
        /\ \A g \in Files \ {f} : X'[g] = X[g]
        /\ T' = T /\ S' = S
  BY DEF Store!Write, There, Ends, Texts, Exists
<1>2. \A g \in Files \ {f} : T'[g] = T[g] /\ S'[g] = S[g] /\ X'[g] = X[g]
  BY OthersView
<1>3. T[f] /\ T'[f] = T[f] /\ S'[f] = S[f]
  BY DEF Ends, There
<1>4. /\ T = [g \in Files |-> T[g]] /\ T' = [g \in Files |-> T'[g]]
      /\ S = [g \in Files |-> S[g]] /\ S' = [g \in Files |-> S'[g]]
  BY DEF There, Ends
<1>5. \A p \in 0 .. Longest - 1 : X'[f][p] = X[f][p] \/ (p < S[f] /\ X'[f][p] = Datum)
  BY DEF WritesSome, Ends
<1> HIDE DEF T, S, X
<1>6. T' = T /\ S' = S
  BY <1>2, <1>3, <1>4
<1> QED
  BY <1>1, <1>2, <1>3, <1>5, <1>6

\* Every step is one of Store, or shows nothing.
LEMMA StoreStep ==
  ASSUME ShallowLimit, FbInv, FbNext
  PROVE  Store!SNext \/ SameStore
<1>1. ASSUME NEW f \in Files, Create(f) PROVE Store!SNext
  <2>1. Store!Clear(f)
    BY <1>1, Creates, StoreClear
  <2> QED
    BY <2>1 DEF Store!SNext
<1>2. ASSUME NEW f \in Files, NEW bad, OpenTrunc(f, bad) PROVE Store!SNext
  <2>1. Store!Clear(f)
    BY <1>2, ThrowsAway, StoreClear
  <2> QED
    BY <2>1 DEF Store!SNext
<1>3. ASSUME NEW f \in Files, NEW bad, Remove(f, bad) PROVE Store!SNext
  <2>1. Store!Remove(f)
    BY <1>3, Removes, StoreClear
  <2> QED
    BY <2>1 DEF Store!SNext
<1>4. ASSUME NEW f \in Files, NEW pos \in Starts, NEW count \in Lengths, WriteStart(f, pos, count)
      PROVE  Store!SNext
  <2>1. pos \in Nat /\ count \in Nat \ {0}
    BY FileBlocksAssumption
  <2>2. Store!Extend(f)
    BY <2>1, <1>4, StartsWrite, StoreExtend
  <2> QED
    BY <2>2 DEF Store!SNext
<1>5. CASE CreateFails
  BY <1>5, FailsToCreate, StoreSame
<1>6. CASE WriteBlock
  <2>1. req.file \in Files /\ Store!Write(req.file)
    BY <1>6, WritesBlock, StoreWrite
  <2> QED
    BY <2>1 DEF Store!SNext
<1>7. CASE WriteFails
  BY <1>7, FailsToWrite, StoreStays
<1> QED
  BY <1>1, <1>2, <1>3, <1>4, <1>5, <1>6, <1>7 DEF FbNext

\* Under the same limit the free map, the block maps and the loop of reg_write
\* (kern/fs/alloc.c, bmap.c, rw.c) implement FileStore: every call is a step of
\* it, or none, so a file reads as what was written to it, as zero elsewhere,
\* and shows nothing of another file or of a deleted one.
THEOREM FilesRefined == ShallowLimit => (FbSpec => RefinesStore)
<1> SUFFICES ASSUME ShallowLimit
             PROVE  FbSpec => RefinesStore
  OBVIOUS
<1>1. FbInit => Store!SInit
  <2> SUFFICES ASSUME FbInit PROVE Store!SInit
    OBVIOUS
  <2>1. \A f \in Files : fbInode[f].ino = 0 /\ fbInode[f].size = 0
    BY DEF FbInit, NoInode
  <2>2. \A f \in Files : Texts(disk, fbInode)[f] = Store!Empty
    <3>1. Store!Empty = Zeroes
      BY DEF Store!Empty, Zeroes
    <3>2. ASSUME NEW f \in Files PROVE Texts(disk, fbInode)[f] = Zeroes
      BY <2>1, EmptyText
    <3> QED
      BY <3>1, <3>2
  <2>3. \A f \in Files : Exists(f) = FALSE
    BY <2>1 DEF Exists
  <2> QED
    BY <2>1, <2>2, <2>3 DEF Store!SInit, Texts
<1>2. FbInv /\ [FbNext]_fbVars => [Store!SNext]_Store!svars
  <2> SUFFICES ASSUME FbInv, [FbNext]_fbVars PROVE [Store!SNext]_Store!svars
    OBVIOUS
  <2>1. CASE FbNext
    <3>1. SameStore => UNCHANGED Store!svars
      BY DEF SameStore, Store!svars, There, Ends, Texts, Exists
    <3> QED
      BY <2>1, <3>1, StoreStep
  <2>2. CASE UNCHANGED fbVars
    BY <2>2 DEF fbVars, Store!svars, Exists
  <2> QED
    BY <2>1, <2>2
<1>3. FbInit => FbInv
  BY SoundInit
<1>4. FbInv /\ [FbNext]_fbVars => FbInv'
  BY SoundNext
<1> QED
  BY <1>1, <1>2, <1>3, <1>4, PTL DEF FbSpec, RefinesStore, Store!SSpec
=============================================================================
