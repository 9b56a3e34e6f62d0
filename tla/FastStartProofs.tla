-------------------------- MODULE FastStartProofs --------------------------
(***************************************************************************)
(* Proofs about FastStart, for any files, any moov atoms and any sizes,    *)
(* within the assumptions FastStart names.                                 *)
(*                                                                         *)
(* The argument: while the scan goes on, the sizes it keeps are those of   *)
(* the atoms it has passed (ScanInv, FreeInv, FtypInv).  So counting back  *)
(* from the end finds moov exactly if only free atoms are behind it        *)
(* (MoovAtTheEnd), and then ftyp is what is in front of startOffset.       *)
(* From there on the invariant says what each table of moov_atom is in     *)
(* terms of the input's (PatchInv, UpgradeInv, OutputInv), and             *)
(* OffsetComesBack that a size which was added modulo Max32 + 1 comes off  *)
(* again.  Sums over the atoms and the tables need induction, which is     *)
(* done on sets of numbers (InductionOnSets).                              *)
(***************************************************************************)
EXTENDS FastStart, TLAPS, WellFoundedInduction
-----------------------------------------------------------------------------
(* Sums.                                                                    *)

NatOrder == {s \in Nat \X Nat : s[1] < s[2]}

LEMMA NatOrderIsWellFounded == IsWellFoundedOn(NatOrder, Nat)
  BY NatLessThanWellFounded, Zenon DEF OpToRel, NatOrder

\* Induction over the natural numbers, for a set instead of a predicate.
LEMMA InductionOnSets ==
    ASSUME NEW S, 0 \in S, \A n \in Nat : n \in S => n + 1 \in S
    PROVE  Nat \subseteq S
<1> SUFFICES ASSUME ~(Nat \subseteq S) PROVE FALSE
  OBVIOUS
<1> DEFINE T == {n \in Nat : n \notin S}
<1>1. T \subseteq Nat /\ T # {}
  OBVIOUS
<1>2. \E x \in T : \A y \in T : ~(<<y, x>> \in NatOrder)
  <2> HIDE DEF T
  <2> QED
    BY <1>1, WFMin, NatOrderIsWellFounded
<1>3. PICK x \in T : \A y \in T : ~(<<y, x>> \in NatOrder)
  BY <1>2
<1>4. x \in Nat /\ x \notin S /\ x # 0
  OBVIOUS
<1>5. x - 1 \in Nat /\ x - 1 \notin S
  BY <1>4
<1>6. <<x - 1, x>> \in NatOrder
  BY <1>4, <1>5 DEF NatOrder
<1> QED
  BY <1>3, <1>5, <1>6

\* g holds the sums of f up to n, as Sum computes them.
SumsUpTo(g, f, n) == g = [i \in 0 .. n |-> IF i = 0 THEN 0 ELSE g[i - 1] + f[i]]

LEMMA SumsExist == ASSUME NEW f, NEW n \in Nat PROVE \E g : SumsUpTo(g, f, n)
<1> DEFINE S == {m \in Nat : \E g : SumsUpTo(g, f, m)}
<1>1. 0 \in S
  <2> DEFINE g == [i \in 0 .. 0 |-> 0]
  <2>1. SumsUpTo(g, f, 0)
    BY DEF SumsUpTo
  <2> QED
    BY <2>1
<1>2. ASSUME NEW m \in Nat, NEW g, SumsUpTo(g, f, m) PROVE m + 1 \in S
  <2> DEFINE h == [i \in 0 .. m + 1 |-> IF i = m + 1 THEN g[m] + f[m + 1] ELSE g[i]]
  <2>1. ASSUME NEW i \in 0 .. m + 1
        PROVE  h[i] = IF i = 0 THEN 0 ELSE h[i - 1] + f[i]
    <3>1. CASE i = m + 1
      BY <3>1
    <3>2. CASE i # m + 1
      <4>1. i \in 0 .. m /\ (i # 0 => i - 1 \in 0 .. m)
        BY <3>2
      <4>2. g[i] = IF i = 0 THEN 0 ELSE g[i - 1] + f[i]
        BY <1>2, <4>1 DEF SumsUpTo
      <4> QED
        BY <3>2, <4>1, <4>2
    <3> QED
      BY <3>1, <3>2
  <2>2. SumsUpTo(h, f, m + 1)
    BY <2>1 DEF SumsUpTo
  <2> QED
    BY <2>2
<1>3. \A m \in Nat : m \in S => m + 1 \in S
  BY <1>2
<1> HIDE DEF S
<1>4. n \in S
  BY <1>1, <1>3, InductionOnSets
<1> QED
  BY <1>4 DEF S

LEMMA SumsAgree ==
    ASSUME NEW f, NEW n \in Nat, NEW m \in 0 .. n, NEW g, NEW h,
           SumsUpTo(g, f, m), SumsUpTo(h, f, n)
    PROVE  g[m] = h[m]
<1> DEFINE S == {i \in Nat : i <= m => g[i] = h[i]}
<1>1. \A i \in 0 .. m : /\ g[i] = IF i = 0 THEN 0 ELSE g[i - 1] + f[i]
                        /\ h[i] = IF i = 0 THEN 0 ELSE h[i - 1] + f[i]
  BY DEF SumsUpTo
<1>2. 0 \in S
  BY <1>1
<1>3. \A i \in Nat : i \in S => i + 1 \in S
  BY <1>1
<1> HIDE DEF S
<1>4. m \in S
  BY <1>2, <1>3, InductionOnSets
<1> QED
  BY <1>4 DEF S

LEMMA SumIs ==
    ASSUME NEW f, NEW n \in Nat
    PROVE  \E g : SumsUpTo(g, f, n) /\ Sum(f, n) = g[n]
<1> DEFINE g == CHOOSE g : SumsUpTo(g, f, n)
<1>1. SumsUpTo(g, f, n)
  BY SumsExist
<1>2. Sum(f, n) = g[n]
  BY DEF Sum, SumsUpTo
<1> QED
  BY <1>1, <1>2

LEMMA SumZero == ASSUME NEW f PROVE Sum(f, 0) = 0
<1>1. PICK g : SumsUpTo(g, f, 0) /\ Sum(f, 0) = g[0]
  BY SumIs
<1> QED
  BY <1>1 DEF SumsUpTo

LEMMA SumNext ==
    ASSUME NEW f, NEW n \in Nat
    PROVE  Sum(f, n + 1) = Sum(f, n) + f[n + 1]
<1>1. PICK g : SumsUpTo(g, f, n) /\ Sum(f, n) = g[n]
  BY SumIs
<1>2. PICK h : SumsUpTo(h, f, n + 1) /\ Sum(f, n + 1) = h[n + 1]
  BY SumIs
<1>3. h[n + 1] = h[n] + f[n + 1]
  BY <1>2 DEF SumsUpTo
<1>4. g[n] = h[n]
  BY <1>1, <1>2, SumsAgree
<1> QED
  BY <1>1, <1>2, <1>3, <1>4

LEMMA SumInNat ==
    ASSUME NEW f, NEW n \in Nat, \A i \in 1 .. n : f[i] \in Nat
    PROVE  Sum(f, n) \in Nat
<1> DEFINE S == {m \in Nat : m <= n => Sum(f, m) \in Nat}
<1>1. 0 \in S
  BY SumZero
<1>2. ASSUME NEW m \in Nat, m \in S PROVE m + 1 \in S
  <2>1. Sum(f, m + 1) = Sum(f, m) + f[m + 1]
    BY SumNext
  <2> QED
    BY <1>2, <2>1
<1> HIDE DEF S
<1>3. n \in S
  BY <1>1, <1>2, InductionOnSets
<1> QED
  BY <1>3 DEF S

\* Sums of natural numbers do not shrink.
LEMMA SumGrows ==
    ASSUME NEW f, NEW n \in Nat, NEW m \in 0 .. n, \A i \in 1 .. n : f[i] \in Nat
    PROVE  Sum(f, m) <= Sum(f, n)
<1> DEFINE S == {d \in Nat : m + d <= n => Sum(f, m) <= Sum(f, m + d)}
<1>1. \A d \in Nat : m + d <= n => Sum(f, m + d) \in Nat
  BY SumInNat
<1>2. 0 \in S
  BY <1>1
<1>3. ASSUME NEW d \in Nat, d \in S PROVE d + 1 \in S
  <2> SUFFICES ASSUME m + (d + 1) <= n PROVE Sum(f, m) <= Sum(f, m + (d + 1))
    OBVIOUS
  <2>1. Sum(f, (m + d) + 1) = Sum(f, m + d) + f[(m + d) + 1]
    BY SumNext
  <2>2. /\ (m + d) + 1 = m + (d + 1) /\ m + d <= n /\ m + 0 = m
        /\ m + d \in Nat /\ (m + d) + 1 \in 1 .. n
    OBVIOUS
  <2>3. Sum(f, m) \in Nat /\ Sum(f, m + d) \in Nat /\ f[(m + d) + 1] \in Nat
    BY <1>1, <2>2
  <2>4. Sum(f, m) <= Sum(f, m + d)
    BY <1>3, <2>2
  <2> QED
    BY <2>1, <2>2, <2>3, <2>4
<1> HIDE DEF S
<1>4. n - m \in S
  BY <1>2, <1>3, InductionOnSets
<1> QED
  BY <1>4 DEF S

\* Sums of sums.
LEMMA SumAdds ==
    ASSUME NEW f, NEW g, NEW h, NEW n \in Nat,
           \A i \in 1 .. n : f[i] \in Int /\ g[i] \in Int /\ h[i] = f[i] + g[i]
    PROVE  Sum(f, n) \in Int /\ Sum(g, n) \in Int /\ Sum(h, n) = Sum(f, n) + Sum(g, n)
<1> DEFINE P(m) == Sum(f, m) \in Int /\ Sum(g, m) \in Int /\ Sum(h, m) = Sum(f, m) + Sum(g, m)
           S == {m \in Nat : m <= n => P(m)}
<1>1. 0 \in S
  BY SumZero
<1>2. ASSUME NEW m \in Nat, m \in S PROVE m + 1 \in S
  <2> SUFFICES ASSUME m + 1 <= n PROVE P(m + 1)
    OBVIOUS
  <2>1. /\ Sum(f, m + 1) = Sum(f, m) + f[m + 1] /\ Sum(g, m + 1) = Sum(g, m) + g[m + 1]
        /\ Sum(h, m + 1) = Sum(h, m) + h[m + 1]
    BY SumNext
  <2>2. m + 1 \in 1 .. n /\ P(m)
    BY <1>2
  <2> QED
    BY <2>1, <2>2
<1> HIDE DEF S
<1>3. n \in S
  BY <1>1, <1>2, InductionOnSets
<1> QED
  BY <1>3 DEF S
-----------------------------------------------------------------------------
(* Offsets modulo UINT_MAX + 1.                                             *)

LEMMA Modulo ==
    ASSUME NEW n \in Int, NEW q \in Int, NEW r \in 0 .. Max32, n = (Max32 + 1) * q + r
    PROVE  Mod32(n) = r
  BY SizeAssumption DEF Mod32

LEMMA ModuloInRange == ASSUME NEW n \in Int PROVE Mod32(n) \in 0 .. Max32
  BY SizeAssumption DEF Mod32

\* A size that was added and is taken off again leaves the offset, wrapped or not.
LEMMA OffsetComesBack ==
    ASSUME NEW o \in 0 .. Max32, NEW size \in 0 .. Max32
    PROVE  /\ o + size <= Max32 => Mod32(o + size) = o + size
           /\ Mod32(Mod32(o + size) - size) = o
<1>1. CASE o + size <= Max32
  <2>1. o + size = (Max32 + 1) * 0 + (o + size) /\ o + size \in 0 .. Max32
    BY <1>1, SizeAssumption
  <2>2. Mod32(o + size) = o + size
    BY <2>1, Modulo
  <2>3. (o + size) - size = (Max32 + 1) * 0 + o
    BY SizeAssumption
  <2>4. Mod32((o + size) - size) = o
    BY <2>3, Modulo
  <2> QED
    BY <2>2, <2>4
<1>2. CASE ~(o + size <= Max32)
  <2> DEFINE r == o + size - (Max32 + 1)
  <2>1. o + size = (Max32 + 1) * 1 + r /\ r \in 0 .. Max32
    BY <1>2, SizeAssumption
  <2>2. Mod32(o + size) = r
    BY <2>1, Modulo
  <2>3. r - size = (Max32 + 1) * (-1) + o /\ r - size \in Int
    BY SizeAssumption
  <2>4. Mod32(r - size) = o
    BY <2>3, Modulo
  <2> QED
    BY <1>2, <2>2, <2>4
<1> QED
  BY <1>1, <1>2
-----------------------------------------------------------------------------
(* Tables.                                                                  *)

LEMMA TableType ==
    ASSUME NEW t \in Table
    PROVE  /\ t.kind \in {"stco", "co64"} /\ t.pad \in Nat
           /\ t.at \in Seq(Nat) /\ Len(t.at) \in Nat
           /\ \A j \in DOMAIN t.at : t.at[j] \in Nat /\ (t.kind = "stco" => t.at[j] \in 0 .. Max32)
           /\ TableSize(t) \in Nat /\ Growth(t) \in Int /\ UpgradedSize(t) \in Nat
<1>1. /\ t.kind \in {"stco", "co64"} /\ t.pad \in Nat /\ t.at \in Seq(Nat)
      /\ t.kind = "stco" => \A j \in DOMAIN t.at : t.at[j] <= Max32
  BY DEF Table
<1>2. Len(t.at) \in Nat /\ \A j \in DOMAIN t.at : t.at[j] \in Nat
  BY <1>1
<1>3. \A j \in DOMAIN t.at : t.kind = "stco" => t.at[j] \in 0 .. Max32
  BY <1>1, <1>2, SizeAssumption
<1>4. CASE t.kind = "stco"
  <2>1. /\ TableSize(t) = 2 + 2 + 1 * Len(t.at) + t.pad
        /\ Growth(t) = 2 * Len(t.at) - (Len(t.at) + t.pad)
    BY <1>4 DEF TableSize, Width, Growth, StcoData, Header
  <2>2. TableSize(t) \in Nat /\ Growth(t) \in Int /\ TableSize(t) + Growth(t) \in Nat
    BY <1>1, <1>2, <2>1
  <2> QED
    BY <1>1, <1>2, <1>3, <2>2 DEF UpgradedSize
<1>5. CASE t.kind = "co64"
  <2>1. TableSize(t) = 2 + 2 + 2 * Len(t.at) + t.pad /\ Growth(t) = 0
    BY <1>5 DEF TableSize, Width, Growth, Header
  <2> QED
    BY <1>1, <1>2, <1>3, <2>1 DEF UpgradedSize
<1> QED
  BY <1>1, <1>4, <1>5

\* Patching keeps the form of a table.
LEMMA MovedTable ==
    ASSUME NEW t \in Table, atomSize \in Nat
    PROVE  /\ Moved(t) \in Table
           /\ Moved(t).kind = t.kind /\ Moved(t).pad = t.pad /\ Len(Moved(t).at) = Len(t.at)
           /\ DOMAIN Moved(t).at = DOMAIN t.at
           /\ \A j \in DOMAIN t.at :
                  Moved(t).at[j] = IF t.kind = "stco" THEN Mod32(t.at[j] + atomSize)
                                   ELSE t.at[j] + atomSize
           /\ Growth(Moved(t)) = Growth(t)
<1> DEFINE at == [j \in DOMAIN t.at |->
                     IF t.kind = "stco" THEN Mod32(t.at[j] + atomSize) ELSE t.at[j] + atomSize]
<1>1. t \in [kind : {"stco", "co64"}, at : Seq(Nat), pad : Nat]
  BY DEF Table
<1>2. Moved(t).kind = t.kind /\ Moved(t).pad = t.pad /\ Moved(t).at = at
  BY <1>1 DEF Moved
<1>3. ASSUME NEW j \in DOMAIN t.at
      PROVE  at[j] \in Nat /\ (t.kind = "stco" => at[j] <= Max32)
  <2>1. t.at[j] \in Nat
    BY TableType
  <2>2. CASE t.kind = "stco"
    <3>1. Mod32(t.at[j] + atomSize) \in 0 .. Max32
      BY <2>1, ModuloInRange
    <3> QED
      BY <2>2, <3>1, SizeAssumption
  <2>3. CASE t.kind # "stco"
    BY <2>1, <2>3
  <2> QED
    BY <2>2, <2>3
<1>4. DOMAIN t.at = 1 .. Len(t.at) /\ Len(t.at) \in Nat
  BY TableType
<1>5. at \in Seq(Nat) /\ Len(at) = Len(t.at) /\ DOMAIN at = DOMAIN t.at
  <2>1. at \in [1 .. Len(t.at) -> Nat]
    BY <1>3, <1>4
  <2> HIDE DEF at
  <2> QED
    BY <1>4, <2>1
<1>6. Moved(t) \in [kind : {"stco", "co64"}, at : Seq(Nat), pad : Nat]
  BY <1>1, <1>5 DEF Moved
<1>7. Moved(t) \in Table
  <2>1. \A j \in DOMAIN Moved(t).at : Moved(t).kind = "stco" => Moved(t).at[j] <= Max32
    BY <1>2, <1>3, <1>5
  <2> QED
    BY <1>6, <2>1 DEF Table
<1>8. \A j \in DOMAIN t.at : at[j] = IF t.kind = "stco" THEN Mod32(t.at[j] + atomSize)
                                     ELSE t.at[j] + atomSize
  OBVIOUS
<1>9. Growth(Moved(t)) = Growth(t)
  BY <1>2, <1>5 DEF Growth, StcoData
<1> HIDE DEF at
<1> QED
  BY <1>2, <1>5, <1>7, <1>8, <1>9

\* Upgrading writes what was computed, and any 64-bit offset.
LEMMA UpgradedTable ==
    ASSUME NEW t \in Table, atomSize \in Nat, newSize \in Nat
    PROVE  /\ Upgraded(t) \in Table
           /\ TableSize(Upgraded(t)) = UpgradedSize(t)
           /\ t.kind = "stco" => \A j \in DOMAIN t.at :
                  Upgraded(t).at[j] = Mod32(t.at[j] - atomSize) + newSize
           /\ t.kind # "stco" => Upgraded(t) = t
<1>1. CASE t.kind = "stco"
  <2> DEFINE at == [j \in DOMAIN t.at |-> Mod32(t.at[j] - atomSize) + newSize]
  <2>1. Upgraded(t) = [kind |-> "co64", pad |-> 0, at |-> at]
    BY <1>1 DEF Upgraded
  <2>2. ASSUME NEW j \in DOMAIN t.at PROVE at[j] \in Nat
    <3>1. t.at[j] - atomSize \in Int
      BY TableType
    <3>2. Mod32(t.at[j] - atomSize) \in 0 .. Max32
      BY <3>1, ModuloInRange
    <3> QED
      BY <3>2, SizeAssumption
  <2>3. DOMAIN t.at = 1 .. Len(t.at) /\ Len(t.at) \in Nat
    BY TableType
  <2>4. at \in Seq(Nat) /\ Len(at) = Len(t.at)
    <3>1. at \in [1 .. Len(t.at) -> Nat]
      BY <2>2, <2>3
    <3> HIDE DEF at
    <3> QED
      BY <2>3, <3>1
  <2>5. \A j \in DOMAIN t.at : at[j] = Mod32(t.at[j] - atomSize) + newSize
    OBVIOUS
  <2> HIDE DEF at
  <2>6. Upgraded(t) \in Table
    BY <2>1, <2>4 DEF Table
  <2>7. TableSize(Upgraded(t)) = UpgradedSize(t)
    <3>1. TableSize(Upgraded(t)) = 2 + 2 + 2 * Len(t.at) + 0
      BY <2>1, <2>4 DEF TableSize, Width, Header
    <3>2. /\ TableSize(t) = 2 + 2 + 1 * Len(t.at) + t.pad
          /\ Growth(t) = 2 * Len(t.at) - (Len(t.at) + t.pad)
      BY <1>1 DEF TableSize, Width, Growth, StcoData, Header
    <3>3. Len(t.at) \in Nat /\ t.pad \in Nat
      BY TableType
    <3> QED
      BY <3>1, <3>2, <3>3 DEF UpgradedSize
  <2> QED
    BY <1>1, <2>1, <2>5, <2>6, <2>7
<1>2. CASE t.kind # "stco"
  BY <1>2, TableType DEF Upgraded, UpgradedSize, Growth
<1> QED
  BY <1>1, <1>2

LEMMA UpgradedMovedSize ==
    ASSUME NEW t \in Table, atomSize \in Nat, newSize \in Nat
    PROVE  TableSize(Upgraded(Moved(t))) = UpgradedSize(t)
<1>1. TableSize(Upgraded(Moved(t))) = UpgradedSize(Moved(t))
  BY MovedTable, UpgradedTable
<1>2. TableSize(Moved(t)) = TableSize(t)
  BY MovedTable DEF TableSize
<1> QED
  BY <1>1, <1>2, MovedTable DEF UpgradedSize
-----------------------------------------------------------------------------
(* The input.                                                               *)

LEMMA InputType ==
    ASSUME InputInv
    PROVE  /\ Len(file) \in Nat /\ DOMAIN file = 1 .. Len(file)
           /\ \A i \in 1 .. Len(file) :
                  /\ file[i].size \in Nat /\ file[i].type \in AtomType /\ file[i].toEnd \in BOOLEAN
                  /\ file[i].type = "moov" <=> i = MoovAt
                  /\ file[i].type = "ftyp" => i = 1 \/ MoovAt < i
           /\ MoovAt \in 1 .. Len(file)
           /\ tables \in Seq(Table) /\ rest \in Nat /\ Len(tables) \in Nat
           /\ DOMAIN tables = 1 .. Len(tables) /\ \A i \in DOMAIN tables : tables[i] \in Table
           /\ file[MoovAt].size \in 0 .. Max32
<1>1. /\ file \in Seq([type : AtomType, size : Nat, toEnd : BOOLEAN])
      /\ \A i, j \in DOMAIN file : file[i].type = "moov" /\ file[j].type = "moov" => i = j
      /\ \A i \in DOMAIN file : file[i].type = "ftyp" /\ i # 1 =>
             \E j \in 1 .. i - 1 : file[j].type = "moov"
  BY FilesAssumption DEF InputInv
<1>2. /\ Len(file) \in Nat /\ DOMAIN file = 1 .. Len(file)
      /\ \A i \in 1 .. Len(file) : file[i] \in [type : AtomType, size : Nat, toEnd : BOOLEAN]
  <2> DEFINE A == [type : AtomType, size : Nat, toEnd : BOOLEAN]
  <2>1. file \in Seq(A)
    BY <1>1
  <2> HIDE DEF A
  <2>2. Len(file) \in Nat /\ DOMAIN file = 1 .. Len(file) /\ \A i \in 1 .. Len(file) : file[i] \in A
    BY <2>1
  <2> QED
    BY <2>2 DEF A
<1>3. MoovAt \in 1 .. Len(file) /\ file[MoovAt].type = "moov"
  BY <1>2 DEF InputInv
<1>4. ASSUME NEW i \in 1 .. Len(file)
      PROVE  /\ file[i].size \in Nat /\ file[i].type \in AtomType /\ file[i].toEnd \in BOOLEAN
             /\ file[i].type = "moov" <=> i = MoovAt
             /\ file[i].type = "ftyp" => i = 1 \/ MoovAt < i
  <2>1. file[i].size \in Nat /\ file[i].type \in AtomType /\ file[i].toEnd \in BOOLEAN
    BY <1>2
  <2>2. file[i].type = "moov" <=> i = MoovAt
    BY <1>1, <1>2, <1>3
  <2>3. ASSUME file[i].type = "ftyp", i # 1 PROVE MoovAt < i
    <3>1. PICK j \in 1 .. i - 1 : file[j].type = "moov"
      BY <1>1, <1>2, <2>3
    <3>2. j \in 1 .. Len(file) /\ j < i
      BY <1>2
    <3>3. j = MoovAt
      BY <1>1, <1>2, <1>3, <3>1, <3>2
    <3> QED
      BY <3>2, <3>3
  <2> QED
    BY <2>1, <2>2, <2>3
<1>5. /\ tables \in Seq(Table) /\ rest \in Nat
      /\ Header + TablesSize(tables) + rest <= Max32
  BY MoovsAssumption DEF InputInv
<1>6. file[MoovAt].size \in 0 .. Max32
  BY <1>3, <1>4, <1>5, SizeAssumption DEF InputInv
<1>7. /\ Len(tables) \in Nat /\ DOMAIN tables = 1 .. Len(tables)
      /\ \A i \in DOMAIN tables : tables[i] \in Table
  BY <1>5
<1> QED
  BY <1>2, <1>3, <1>4, <1>5, <1>6, <1>7

LEMMA StartNext ==
    ASSUME InputInv, NEW i \in 1 .. Len(file)
    PROVE  /\ Start(i) \in Nat /\ Start(i + 1) \in Nat
           /\ Start(i + 1) = Start(i) + file[i].size
<1> DEFINE f == [j \in DOMAIN file |-> file[j].size]
<1>1. i \in Nat /\ i - 1 \in Nat /\ (i - 1) + 1 = i /\ (i + 1) - 1 = i
  BY InputType
<1>2. f[i] = file[i].size /\ \A j \in 1 .. i : f[j] \in Nat
  BY InputType
<1>3. Start(i) = Sum(f, i - 1) /\ Start(i + 1) = Sum(f, i)
  BY <1>1 DEF Start
<1> HIDE DEF f
<1>4. Sum(f, i) = Sum(f, i - 1) + f[i]
  BY <1>1, SumNext
<1>5. Sum(f, i - 1) \in Nat /\ Sum(f, i) \in Nat
  BY <1>1, <1>2, SumInNat
<1> QED
  BY <1>2, <1>3, <1>4, <1>5

LEMMA StartGrows ==
    ASSUME InputInv, NEW i \in 1 .. Len(file) + 1, NEW j \in i .. Len(file) + 1
    PROVE  Start(i) \in Nat /\ Start(j) \in Nat /\ Start(i) <= Start(j)
<1> DEFINE f == [n \in DOMAIN file |-> file[n].size]
<1>1. i - 1 \in 0 .. j - 1 /\ j - 1 \in Nat /\ i - 1 \in Nat
  BY InputType
<1>2. \A n \in 1 .. j - 1 : f[n] \in Nat
  BY InputType
<1>3. Start(i) = Sum(f, i - 1) /\ Start(j) = Sum(f, j - 1)
  BY DEF Start
<1> HIDE DEF f
<1>4. Sum(f, i - 1) <= Sum(f, j - 1) /\ Sum(f, i - 1) \in Nat /\ Sum(f, j - 1) \in Nat
  <2>1. \A n \in 1 .. i - 1 : f[n] \in Nat
    BY <1>1, <1>2
  <2> QED
    BY <1>1, <1>2, <2>1, SumGrows, SumInNat
<1> QED
  BY <1>3, <1>4

LEMMA StartOne == Start(1) = 0
  BY SumZero DEF Start

LEMMA UpgradedNext ==
    ASSUME InputInv, NEW n \in 0 .. Len(tables)
    PROVE  /\ UpgradedUpTo(n) \in Nat
           /\ n < Len(tables) => UpgradedUpTo(n + 1) = UpgradedUpTo(n) + UpgradedSize(tables[n + 1])
<1> DEFINE f == [i \in DOMAIN tables |-> UpgradedSize(tables[i])]
<1>1. \A i \in 1 .. Len(tables) : f[i] \in Nat /\ f[i] = UpgradedSize(tables[i])
  BY InputType, TableType
<1>2. \A m \in Nat : UpgradedUpTo(m) = Sum(f, m)
  BY DEF UpgradedUpTo
<1>3. n \in Nat /\ n + 1 \in Nat
  BY InputType
<1> HIDE DEF f
<1>4. Sum(f, n + 1) = Sum(f, n) + f[n + 1]
  BY <1>3, SumNext
<1>5. Sum(f, n) \in Nat
  <2>1. \A i \in 1 .. n : f[i] \in Nat
    BY <1>1, InputType
  <2> QED
    BY <1>3, <2>1, SumInNat
<1> QED
  BY <1>1, <1>2, <1>3, <1>4, <1>5, InputType

\* The sizes that upgrading adds up are those of the tables and what they grow.
LEMMA UpgradedSum ==
    ASSUME InputInv
    PROVE  /\ TablesSize(tables) \in Int
           /\ Sum([i \in DOMAIN tables |-> Growth(tables[i])], Len(tables)) \in Int
           /\ UpgradedUpTo(Len(tables)) =
                  TablesSize(tables) + Sum([i \in DOMAIN tables |-> Growth(tables[i])], Len(tables))
<1> DEFINE f == [i \in DOMAIN tables |-> TableSize(tables[i])]
           g == [i \in DOMAIN tables |-> Growth(tables[i])]
           h == [i \in DOMAIN tables |-> UpgradedSize(tables[i])]
<1>1. \A i \in 1 .. Len(tables) : f[i] \in Int /\ g[i] \in Int /\ h[i] = f[i] + g[i]
  BY InputType, TableType DEF UpgradedSize
<1>2. TablesSize(tables) = Sum(f, Len(tables)) /\ UpgradedUpTo(Len(tables)) = Sum(h, Len(tables))
  BY DEF TablesSize, UpgradedUpTo
<1>3. Len(tables) \in Nat
  BY InputType
<1> HIDE DEF f, h
<1> SUFFICES /\ Sum(f, Len(tables)) \in Int /\ Sum(g, Len(tables)) \in Int
             /\ Sum(h, Len(tables)) = Sum(f, Len(tables)) + Sum(g, Len(tables))
  BY <1>2
<1> HIDE DEF g
<1> QED
  BY <1>1, <1>3, SumAdds
-----------------------------------------------------------------------------
(* What a step leaves as it was.                                            *)

LEMMA InputLeft ==
    ASSUME InputInv, UNCHANGED input
    PROVE  /\ InputInv'
           /\ MoovAt' = MoovAt /\ FileSize' = FileSize /\ \A i : Start(i)' = Start(i)
           /\ \A n : UpgradedUpTo(n)' = UpgradedUpTo(n)
<1>1. file' = file /\ tables' = tables /\ rest' = rest
  BY DEF input
<1>2. MoovAt' = MoovAt
  BY <1>1 DEF MoovAt
<1>3. \A i : Start(i)' = Start(i)
  BY <1>1 DEF Start
<1>4. FileSize' = FileSize
  BY <1>1, <1>3 DEF FileSize
<1>5. \A n : UpgradedUpTo(n)' = UpgradedUpTo(n)
  BY <1>1 DEF UpgradedUpTo, UpgradedSize, TableSize, Growth, StcoData, Width
<1>6. InputInv'
  BY <1>1, <1>2 DEF InputInv
<1> QED
  BY <1>2, <1>3, <1>4, <1>5, <1>6

\* Behind the scan, what it has found is left alone.
LEMMA ScanLeft ==
    ASSUME InputInv, ScanInv, FreeInv, FtypInv, UNCHANGED <<input, scanVars>>,
           pc' # "scan", pc = "scan" => pos = Len(file), Found' => Found
    PROVE  ScanInv' /\ FreeInv' /\ FtypInv'
<1>1. /\ UNCHANGED <<file, pos, atomType, atomSize, ftypSize, startOffset, moovSize, freeSize>>
      /\ MoovAt' = MoovAt /\ \A i : Start(i)' = Start(i)
  BY InputLeft DEF scanVars, input
<1>2. ScanInv'
  BY <1>1 DEF ScanInv, Ordinary
<1>3. OnlyFree(pos)' <=> OnlyFree(pos)
  BY <1>1 DEF OnlyFree
<1>4. FreeInv'
  BY <1>1, <1>3 DEF FreeInv
<1>5. FtypInv'
  BY <1>1, <1>3 DEF FtypInv
<1> QED
  BY <1>2, <1>4, <1>5

\* What has been loaded stays where it was read.
LEMMA LoadLeft ==
    ASSUME InputInv, UNCHANGED <<input, atomSize, freeSize, readAt>>
    PROVE  (IsMoov' <=> IsMoov) /\ Behind' = Behind /\ \A t : Moved(t)' = Moved(t)
<1>1. MoovAt' = MoovAt /\ FileSize' = FileSize /\ \A i : Start(i)' = Start(i) /\ file' = file
  BY InputLeft DEF input
<1> QED
  BY <1>1 DEF IsMoov, Behind, Moved, Mod32

\* The type of the tables in moov_atom is that of the input's.
LEMMA MoovType ==
    ASSUME NEW s \in Seq(Table)
    PROVE  /\ Len(s) \in Nat /\ DOMAIN s = 1 .. Len(s)
           /\ \A i \in DOMAIN s : s[i] \in Table
           /\ \A i \in DOMAIN s : \A j \in DOMAIN s[i].at :
                  s[i].at[j] \in IF s[i].kind = "stco" THEN 0 .. Max32 ELSE Nat
<1>1. Len(s) \in Nat /\ DOMAIN s = 1 .. Len(s) /\ \A i \in DOMAIN s : s[i] \in Table
  OBVIOUS
<1> QED
  BY <1>1, TableType

\* An overflow up to a table is one before it or one in it.
LEMMA OverflowNext ==
    ASSUME NEW n \in Nat
    PROVE  SomeOverflow(n + 1) <=>
               \/ SomeOverflow(n)
               \/ /\ tables[n + 1].kind = "stco"
                  /\ \E j \in DOMAIN tables[n + 1].at : tables[n + 1].at[j] > Max32 - atomSize
<1>1. \A i : i \in 1 .. n + 1 <=> i \in 1 .. n \/ i = n + 1
  OBVIOUS
<1> QED
  BY <1>1 DEF SomeOverflow

\* A step that returns without a moov atom written keeps the invariant.
LEMMA ReturnStep ==
    ASSUME IInv, UNCHANGED <<input, scanVars, moovVars, copyVars>>,
           pc' = "done", ret' \in {0, 1}, ret' = 0 => atomType # "moov"
    PROVE  IInv'
<1>1. InputInv'
  BY InputLeft DEF IInv
<1>2. TypeOK' /\ moov' \in Seq(Table)
  BY DEF IInv, TypeOK, input, scanVars, moovVars, copyVars
<1>3. ~Found' /\ ~Written' /\ ~Loaded'
  BY DEF Found, Written, Loaded, scanVars
<1>4. ScanInv' /\ FreeInv' /\ FtypInv'
  BY <1>3 DEF ScanInv, FreeInv, FtypInv
<1>5. LoadInv' /\ PatchInv' /\ UpgradeInv' /\ OutputInv' /\ SizeInv' /\ CopyInv'
  BY <1>3 DEF LoadInv, PatchInv, UpgradeInv, OutputInv, SizeInv, CopyInv
<1> QED
  BY <1>1, <1>2, <1>4, <1>5 DEF IInv
-----------------------------------------------------------------------------
(* The scan.                                                                *)

LEMMA InductiveInit == Init => IInv
<1> SUFFICES ASSUME Init PROVE IInv
  OBVIOUS
<1>1. /\ pc = "scan" /\ pos = 0 /\ atomType = "none" /\ atomSize = 0
      /\ ftypSize = 0 /\ startOffset = 0 /\ moovSize = 0 /\ freeSize = 0
      /\ lastOffset = 0 /\ readAt = 0 /\ moov = <<>> /\ k = 0 /\ overflow = FALSE
      /\ newSize = 0 /\ dest = 0 /\ copied = 0 /\ ret = -1
  BY DEF Init
<1>2. InputInv
  <2>1. /\ file \in Files
        /\ \E m \in Moovs : tables = m.tables /\ rest = m.rest
    BY DEF Init
  <2>2. PICK i \in DOMAIN file : /\ file[i].type = "moov"
                                 /\ file[i].size = Header + TablesSize(tables) + rest
    BY DEF Init
  <2>3. MoovAt \in DOMAIN file /\ file[MoovAt].type = "moov"
    BY <2>2 DEF MoovAt
  <2>4. MoovAt = i
    BY <2>1, <2>2, <2>3, FilesAssumption
  <2> QED
    BY <2>1, <2>2, <2>3, <2>4 DEF InputInv
<1>3. moov \in Seq(Table) /\ Len(moov) = 0 /\ DOMAIN moov = {}
  <2>1. <<>> \in Seq(Table) /\ Len(<<>>) = 0 /\ DOMAIN <<>> = {}
    OBVIOUS
  <2> QED
    BY <1>1, <2>1
<1>4. TypeOK
  <2>1. pos \in 0 .. Len(file) /\ k \in 0 .. Len(moov)
    BY <1>1, <1>2, <1>3, InputType
  <2> QED
    BY <1>1, <1>3, <2>1 DEF TypeOK
<1>5. ScanInv /\ FreeInv /\ FtypInv
  <2>1. pos < MoovAt /\ ~(MoovAt <= pos) /\ ~(pos >= 1)
    BY <1>1, <1>2, InputType
  <2> QED
    BY <1>1, <2>1 DEF ScanInv, FreeInv, FtypInv
<1>6. ~Loaded /\ ~Written
  BY <1>1 DEF Loaded, Written
<1>7. LoadInv /\ PatchInv /\ UpgradeInv /\ OutputInv /\ SizeInv /\ CopyInv
  BY <1>1, <1>6 DEF LoadInv, PatchInv, UpgradeInv, OutputInv, SizeInv, CopyInv
<1> QED
  BY <1>2, <1>3, <1>4, <1>5, <1>7 DEF IInv

LEMMA ScanStep == ASSUME IInv, Scan PROVE IInv'
<1> DEFINE i == pos + 1
           a == file[i]
           size == IF a.toEnd THEN 0 ELSE a.size
           ignored == FreeBehindMoov(a, size)
<1>1. /\ UNCHANGED <<input, moovVars, copyVars, ret>>
      /\ pc = "scan" /\ pos < Len(file)
      /\ atomType' = IF ignored THEN "moov" ELSE a.type
      /\ atomSize' = IF ignored THEN moovSize ELSE size
      /\ freeSize' = IF ignored THEN freeSize + size ELSE freeSize
      /\ moovSize' = IF a.type = "moov" /\ ~TooSmall(size) THEN size ELSE moovSize
      /\ pos' = IF size = 0 THEN pos ELSE i
      /\ pc' = IF a.type = "other" \/ TooSmall(size) THEN "scanned" ELSE "scan"
  BY DEF Scan
<1>2. IF a.type = "ftyp" THEN ftypSize' = size /\ startOffset' = Start(i + 1)
                         ELSE ftypSize' = ftypSize /\ startOffset' = startOffset
  <2>1. i + 1 = pos + 2
    BY DEF IInv, TypeOK
  <2> QED
    BY <2>1 DEF Scan
<1>3. /\ InputInv /\ InputInv' /\ file' = file /\ MoovAt' = MoovAt
      /\ \A n : Start(n)' = Start(n)
  BY <1>1, InputLeft DEF IInv, input
<1>4. /\ Len(file) \in Nat /\ pos \in Nat /\ i \in 1 .. Len(file) /\ i = pos + 1
      /\ MoovAt \in 1 .. Len(file)
  <2>1. pos \in 0 .. Len(file)
    BY DEF IInv, TypeOK
  <2> QED
    BY <1>1, <1>3, <2>1, InputType
<1>5. /\ a.size \in Nat /\ a.toEnd \in BOOLEAN /\ a = file[i]
      /\ a.type = "moov" <=> i = MoovAt
      /\ a.type = "ftyp" => i = 1 \/ MoovAt < i
  BY <1>3, <1>4, InputType
<1>6. Start(i) \in Nat /\ Start(i + 1) \in Nat /\ Start(i + 1) = Start(i) + a.size
  BY <1>3, <1>4, StartNext
<1>7. size \in Nat /\ (ignored <=> moovSize > 0 /\ a.type = "free" /\ ~(size < 2))
  BY <1>5 DEF FreeBehindMoov, TooSmall, Header
<1>8. size = IF a.toEnd THEN 0 ELSE a.size
  OBVIOUS
<1> HIDE DEF i, a, size, ignored
<1>9. TypeOK' /\ moov' \in Seq(Table)
  <2>1. pos' \in 0 .. Len(file') /\ k' \in 0 .. Len(moov')
    BY <1>1, <1>3, <1>4 DEF IInv, TypeOK, moovVars
  <2>2. {ftypSize, startOffset, moovSize, freeSize, atomSize} \subseteq Nat
    BY DEF IInv, TypeOK
  <2>3. ftypSize' \in Nat /\ startOffset' \in Nat
    BY <1>2, <1>6, <1>7, <2>2
  <2>4. moovSize' \in Nat /\ freeSize' \in Nat /\ atomSize' \in Nat
    BY <1>1, <1>7, <2>2
  <2> QED
    BY <1>1, <2>1, <2>3, <2>4 DEF IInv, TypeOK, moovVars, copyVars
<1>10. ~Loaded' /\ ~Written' /\ pc' \in {"scan", "scanned"}
  BY <1>1 DEF Loaded, Written
<1>11. LoadInv' /\ PatchInv' /\ UpgradeInv' /\ OutputInv' /\ SizeInv' /\ CopyInv'
  BY <1>1, <1>10 DEF IInv, LoadInv, PatchInv, UpgradeInv, OutputInv, SizeInv, CopyInv, moovVars,
                     copyVars
<1>12. SUFFICES ASSUME Found' PROVE ScanInv' /\ FreeInv' /\ FtypInv'
  <2>1. ScanInv' /\ FreeInv' /\ FtypInv'
    BY <1>12 DEF ScanInv, FreeInv, FtypInv
  <2> QED
    BY <1>3, <1>9, <1>11, <2>1 DEF IInv
\* The scan goes on: an atom that ends it is not moov, or too small to be one.
<1>13. a.type # "other" /\ ~(size < 2) /\ pc' = "scan"
  <2>1. CASE pc' = "scan"
    BY <1>1, <2>1 DEF TooSmall, Header
  <2>2. CASE pc' # "scan"
    <3>1. atomType' = "moov" /\ ~(atomSize' < 2)
      <4>1. atomType' = "moov" /\ atomSize' >= 2
        BY <1>12, <2>2 DEF Found, Header
      <4>2. atomSize' \in Nat
        BY <1>9 DEF TypeOK
      <4> QED
        BY <4>1, <4>2
    <3> QED
      BY <1>1, <1>7, <2>2, <3>1 DEF TooSmall, Header
  <2> QED
    BY <2>1, <2>2
<1>14. /\ pos' = i /\ size = a.size /\ size >= 2 /\ Ordinary(a)
       /\ moovSize' = IF a.type = "moov" THEN size ELSE moovSize
       /\ ignored <=> moovSize > 0 /\ a.type = "free"
  BY <1>1, <1>5, <1>7, <1>8, <1>13 DEF Ordinary, TooSmall, Header
<1>15. /\ \A n \in 1 .. pos : Ordinary(file[n])
       /\ moovSize = IF MoovAt <= pos THEN file[MoovAt].size ELSE 0
       /\ IF MoovAt <= pos
          THEN /\ freeSize <= Start(i) - Start(MoovAt + 1)
               /\ freeSize = Start(i) - Start(MoovAt + 1) <=> OnlyFree(pos)
          ELSE freeSize = 0
       /\ OnlyFree(pos) =>
              /\ ftypSize = startOffset
              /\ startOffset = IF pos >= 1 /\ file[1].type = "ftyp" THEN file[1].size ELSE 0
  BY <1>1, <1>4 DEF IInv, ScanInv, FreeInv, FtypInv, Found
<1>16. moovSize > 0 <=> MoovAt <= pos
  <2>1. MoovAt <= pos => Ordinary(file[MoovAt])
    BY <1>4, <1>15
  <2> QED
    BY <1>15, <2>1, <1>3, <1>4, InputType DEF Ordinary, Header
<1>17. ScanInv'
  <2>1. ASSUME NEW n \in 1 .. pos' PROVE Ordinary(file'[n])
    <3>1. CASE n = i
      BY <1>3, <1>5, <1>14, <3>1
    <3>2. CASE n # i
      <4>1. n \in 1 .. pos
        BY <1>4, <1>14, <3>2
      <4> QED
        BY <1>3, <1>15, <4>1
    <3> QED
      BY <3>1, <3>2
  <2>2. moovSize' = IF MoovAt <= i THEN file[MoovAt].size ELSE 0
    <3>1. CASE i = MoovAt
      BY <1>4, <1>5, <1>14, <3>1
    <3>2. CASE i # MoovAt
      BY <1>4, <1>5, <1>14, <1>15, <3>2
    <3> QED
      BY <3>1, <3>2
  <2>3. atomType' = "moov" => MoovAt <= i /\ atomSize' = moovSize'
    <3>1. CASE ignored
      BY <1>1, <1>4, <1>14, <1>16, <3>1
    <3>2. CASE ~ignored
      BY <1>1, <1>4, <1>5, <1>14, <3>2
    <3> QED
      BY <3>1, <3>2
  <2>4. \A n \in 1 .. pos' : Ordinary(file'[n])
    BY <2>1
  <2> QED
    BY <1>3, <1>13, <1>14, <2>2, <2>3, <2>4 DEF ScanInv, Ordinary
<1>18. OnlyFree(pos)' <=> IF i <= MoovAt THEN TRUE ELSE OnlyFree(pos) /\ a.type = "free"
  <2>1. OnlyFree(pos)' <=> \A n \in MoovAt + 1 .. i : file[n].type = "free"
    BY <1>3, <1>14 DEF OnlyFree
  <2>2. CASE i <= MoovAt
    BY <1>4, <2>1, <2>2
  <2>3. CASE ~(i <= MoovAt)
    <3>1. \A n : n \in MoovAt + 1 .. i <=> n \in MoovAt + 1 .. pos \/ n = i
      BY <1>4, <2>3
    <3> QED
      BY <1>5, <2>1, <2>3, <3>1 DEF OnlyFree
  <2> QED
    BY <2>2, <2>3
<1>19. FreeInv'
  <2>1. SUFFICES IF MoovAt <= i
                 THEN /\ freeSize' <= Start(i + 1) - Start(MoovAt + 1)
                      /\ freeSize' = Start(i + 1) - Start(MoovAt + 1) <=> OnlyFree(pos)'
                 ELSE freeSize' = 0
    BY <1>3, <1>14 DEF FreeInv
  <2>2. CASE i = MoovAt
    <3>1. freeSize' = 0 /\ Start(i + 1) - Start(MoovAt + 1) = 0
      BY <1>1, <1>4, <1>6, <1>14, <1>15, <1>16, <2>2
    <3> QED
      BY <1>4, <1>18, <2>2, <3>1
  <2>3. CASE i < MoovAt
    BY <1>1, <1>4, <1>14, <1>15, <1>16, <2>3
  <2>4. CASE MoovAt < i
    <3>1. /\ freeSize \in Nat /\ Start(MoovAt + 1) \in Nat /\ MoovAt <= pos
          /\ freeSize <= Start(i) - Start(MoovAt + 1)
          /\ freeSize = Start(i) - Start(MoovAt + 1) <=> OnlyFree(pos)
      BY <1>3, <1>4, <1>15, <2>4, StartNext DEF IInv, TypeOK
    <3>2. OnlyFree(pos)' <=> OnlyFree(pos) /\ a.type = "free"
      BY <1>4, <1>18, <2>4
    <3>3. freeSize' = IF a.type = "free" THEN freeSize + size ELSE freeSize
      BY <1>1, <1>14, <1>16, <3>1
    <3>4. Start(i + 1) = Start(i) + size /\ size >= 2
      BY <1>6, <1>14
    <3>5. CASE a.type = "free"
      <4>1. freeSize' <= Start(i + 1) - Start(MoovAt + 1)
        BY <1>6, <1>7, <3>1, <3>3, <3>4, <3>5
      <4>2. freeSize' = Start(i + 1) - Start(MoovAt + 1) <=> freeSize = Start(i) - Start(MoovAt + 1)
        BY <1>6, <1>7, <3>1, <3>3, <3>4, <3>5
      <4> QED
        BY <1>4, <2>4, <3>1, <3>2, <3>5, <4>1, <4>2
    <3>6. CASE a.type # "free"
      BY <1>4, <1>6, <1>7, <2>4, <3>1, <3>2, <3>3, <3>4, <3>6
    <3> QED
      BY <3>5, <3>6
  <2> QED
    BY <1>4, <2>2, <2>3, <2>4
<1>20. FtypInv'
  <2>1. SUFFICES ASSUME OnlyFree(pos)'
                 PROVE  /\ ftypSize' = startOffset'
                        /\ startOffset' = IF file[1].type = "ftyp" THEN file[1].size ELSE 0
    BY <1>3, <1>4, <1>14 DEF FtypInv
  <2>2. OnlyFree(pos) /\ (MoovAt < i => a.type = "free")
    <3>1. CASE i <= MoovAt
      BY <1>4, <3>1 DEF OnlyFree
    <3>2. CASE ~(i <= MoovAt)
      BY <1>18, <2>1, <3>2
    <3> QED
      BY <1>4, <3>1, <3>2
  <2>3. CASE a.type = "ftyp"
    <3>1. i = 1
      BY <1>5, <2>2, <2>3
    <3>2. Start(i + 1) = size
      <4>1. Start(i) = 0
        BY <3>1, StartOne
      <4> QED
        BY <1>6, <1>7, <1>14, <4>1
    <3> QED
      BY <1>2, <1>5, <1>14, <2>3, <3>1, <3>2
  <2>4. CASE a.type # "ftyp"
    <3>1. ftypSize' = ftypSize /\ startOffset' = startOffset
      BY <1>2, <2>4
    <3>2. CASE pos = 0
      BY <1>4, <1>5, <1>15, <2>2, <2>4, <3>1, <3>2
    <3>3. CASE pos # 0
      BY <1>4, <1>15, <2>2, <3>1, <3>3
    <3> QED
      BY <3>2, <3>3
  <2> QED
    BY <2>3, <2>4
<1> QED
  BY <1>17, <1>19, <1>20

LEMMA ScanEndsStep == ASSUME IInv, ScanEnds PROVE IInv'
<1>1. /\ pc = "scan" /\ pos = Len(file) /\ pc' = "scanned"
      /\ UNCHANGED <<input, scanVars, moovVars, copyVars, ret>>
  BY DEF ScanEnds
<1>2. InputInv' /\ TypeOK' /\ moov' \in Seq(Table)
  BY <1>1, InputLeft DEF IInv, TypeOK, input, scanVars, moovVars, copyVars
<1>3. ScanInv' /\ FreeInv' /\ FtypInv'
  BY <1>1, ScanLeft DEF IInv, Found
<1>4. ~Loaded' /\ ~Written'
  BY <1>1 DEF Loaded, Written
<1>5. LoadInv' /\ PatchInv' /\ UpgradeInv' /\ OutputInv' /\ SizeInv' /\ CopyInv'
  BY <1>1, <1>4 DEF IInv, LoadInv, PatchInv, UpgradeInv, OutputInv, SizeInv, CopyInv,
                    moovVars, copyVars
<1> QED
  BY <1>2, <1>3, <1>5 DEF IInv
-----------------------------------------------------------------------------
(* What was loaded.                                                         *)

LEMMA FileSizeType == ASSUME InputInv PROVE FileSize = Start(Len(file) + 1) /\ FileSize \in Nat
  BY InputType, StartGrows DEF FileSize

\* moov is at the end of the file, but for free atoms, exactly if those have been counted.
LEMMA MoovAtTheEnd ==
    ASSUME IInv, Loaded
    PROVE  /\ IsMoov <=> OnlyFree(pos)
           /\ pos = Len(file) /\ atomSize = file[MoovAt].size
           /\ \A i \in 1 .. Len(file) : Ordinary(file[i])
<1>1. Found /\ pc # "scan" /\ atomType = "moov" /\ readAt = Behind
  BY DEF IInv, LoadInv, Loaded, Found, Written, TypeOK, Header
<1>2. /\ pos = Len(file) /\ MoovAt <= pos /\ atomSize = file[MoovAt].size
      /\ \A i \in 1 .. Len(file) : Ordinary(file[i])
  BY <1>1 DEF IInv, ScanInv
<1>3. freeSize = Start(pos + 1) - Start(MoovAt + 1) <=> OnlyFree(pos)
  BY <1>1, <1>2 DEF IInv, FreeInv
<1>4. /\ MoovAt \in 1 .. Len(file) /\ Start(MoovAt) \in Nat /\ Start(MoovAt + 1) \in Nat
      /\ Start(MoovAt + 1) = Start(MoovAt) + atomSize
      /\ FileSize = Start(pos + 1) /\ FileSize \in Nat
  BY <1>2, InputType, StartNext, FileSizeType DEF IInv
<1>5. freeSize \in Nat /\ atomSize \in Nat
  BY DEF IInv, TypeOK
<1>6. IsMoov <=> freeSize = Start(pos + 1) - Start(MoovAt + 1)
  <2>1. IsMoov <=> FileSize - (atomSize + freeSize) = Start(MoovAt)
    BY <1>1, <1>2 DEF IsMoov, Behind
  <2>2. FileSize - (atomSize + freeSize) = Start(MoovAt)
            <=> freeSize = FileSize - (Start(MoovAt) + atomSize)
    <3>1. FileSize \in Nat /\ Start(MoovAt) \in Nat
      BY <1>4
    <3>2. \A a, b, d, e \in Nat : a - (b + d) = e <=> d = a - (e + b)
      OBVIOUS
    <3> QED
      BY <1>5, <3>1, <3>2
  <2>3. Start(pos + 1) - Start(MoovAt + 1) = FileSize - (Start(MoovAt) + atomSize)
    BY <1>4
  <2> QED
    BY <2>1, <2>2, <2>3
<1> QED
  BY <1>2, <1>3, <1>6

LEMMA LoadStep == ASSUME IInv, Load PROVE IInv'
<1>1. /\ pc = "scanned" /\ atomType = "moov" /\ pc' = "patch"
      /\ atomSize >= 2 * Header /\ atomSize + freeSize <= FileSize
      /\ lastOffset' = Behind /\ readAt' = Behind /\ newSize' = atomSize
      /\ moov' = IF Behind = Start(MoovAt) /\ atomSize = file[MoovAt].size THEN tables ELSE <<>>
      /\ UNCHANGED <<input, scanVars, k, overflow, dest, copied, ret>>
  BY DEF Load
<1>2. moov = <<>> /\ k = 0 /\ ~overflow /\ copied = 0
  BY <1>1 DEF IInv, LoadInv
<1>3. /\ InputInv /\ InputInv' /\ file' = file /\ tables' = tables /\ MoovAt' = MoovAt
      /\ FileSize' = FileSize /\ \A i : Start(i)' = Start(i)
  BY <1>1, InputLeft DEF IInv, input
<1>4. atomSize \in Nat /\ freeSize \in Nat /\ Behind \in Nat
  <2>1. atomSize \in Nat /\ freeSize \in Nat
    BY DEF IInv, TypeOK
  <2> QED
    BY <1>1, <1>3, <2>1, FileSizeType DEF Behind
<1>5. Behind' = Behind /\ (IsMoov' <=> Behind = Start(MoovAt) /\ atomSize = file[MoovAt].size)
  BY <1>1, <1>3 DEF Behind, IsMoov, scanVars
<1>6. moov' = IF IsMoov' THEN tables ELSE <<>>
  BY <1>1, <1>5
<1>7. moov' \in Seq(Table) /\ Len(moov') \in Nat
  <2>1. <<>> \in Seq(Table)
    OBVIOUS
  <2>2. moov' \in Seq(Table)
    BY <1>3, <1>6, <2>1, InputType
  <2> QED
    BY <2>2
<1>8. TypeOK'
  <2>1. k' \in 0 .. Len(moov')
    BY <1>1, <1>2, <1>7
  <2>2. \A i \in DOMAIN moov' : \A j \in DOMAIN moov'[i].at :
            moov'[i].at[j] \in IF moov'[i].kind = "stco" THEN 0 .. Max32 ELSE Nat
    BY <1>7, MoovType
  <2>3. {ftypSize, startOffset, moovSize, freeSize, atomSize, dest, copied} \subseteq Nat
    BY DEF IInv, TypeOK
  <2> QED
    BY <1>1, <1>3, <1>4, <2>1, <2>2, <2>3 DEF IInv, TypeOK, scanVars
<1>9. Found
  BY <1>1, <1>4 DEF Found, Header
<1>10. ScanInv' /\ FreeInv' /\ FtypInv'
  BY <1>1, <1>3, <1>9, ScanLeft DEF IInv
<1>11. LoadInv'
  BY <1>1, <1>2, <1>3, <1>5, <1>6 DEF LoadInv, scanVars
<1>12. PatchInv'
  <2>1. k' = 0 /\ ~overflow'
    BY <1>1, <1>2
  <2>2. ~SomeOverflow(k)'
    BY <2>1 DEF SomeOverflow
  <2>3. ASSUME IsMoov', NEW i \in DOMAIN tables
        PROVE  ~(i <= k') /\ moov'[i] = tables[i]
    BY <1>3, <1>6, <2>1, <2>3, InputType
  <2> QED
    BY <1>3, <2>1, <2>2, <2>3 DEF PatchInv
<1>13. UpgradeInv' /\ OutputInv' /\ SizeInv' /\ CopyInv'
  BY <1>1, <1>2 DEF UpgradeInv, OutputInv, SizeInv, CopyInv, Written, scanVars
<1> QED
  BY <1>3, <1>7, <1>8, <1>10, <1>11, <1>12, <1>13 DEF IInv
-----------------------------------------------------------------------------
(* The tables.                                                              *)

\* Behind the load, the input and what was read are the same.
LEMMA LoadedLeft ==
    ASSUME IInv, Loaded, pc' # "scan", UNCHANGED <<input, scanVars, readAt>>
    PROVE  /\ InputInv'
           /\ ScanInv' /\ FreeInv' /\ FtypInv'
           /\ atomType' = "moov" /\ atomSize' >= 2 * Header /\ readAt' = Behind'
           /\ IsMoov' <=> IsMoov
           /\ \A n : UpgradedUpTo(n)' = UpgradedUpTo(n)
           /\ \A n : SomeOverflow(n)' <=> SomeOverflow(n)
           /\ \A t : Moved(t)' = Moved(t)
           /\ tables' = tables /\ rest' = rest /\ atomSize' = atomSize
           /\ UNCHANGED <<file, pos, ftypSize, startOffset, moovSize, freeSize>>
<1>1. Found /\ pc # "scan" /\ atomType = "moov" /\ readAt = Behind /\ atomSize >= 2 * Header
  BY DEF IInv, LoadInv, Loaded, Found, Written, TypeOK, Header
<1>2. InputInv' /\ \A n : UpgradedUpTo(n)' = UpgradedUpTo(n)
  BY InputLeft DEF IInv
<1>3. ScanInv' /\ FreeInv' /\ FtypInv'
  BY <1>1, ScanLeft DEF IInv
<1>4. /\ UNCHANGED <<tables, rest, file, atomType, atomSize, pos, ftypSize, startOffset, moovSize>>
      /\ UNCHANGED freeSize
  BY DEF input, scanVars
<1>5. Behind' = Behind /\ (IsMoov' <=> IsMoov) /\ \A t : Moved(t)' = Moved(t)
  BY <1>4, LoadLeft DEF IInv
<1>6. \A n : SomeOverflow(n)' <=> SomeOverflow(n)
  BY <1>4 DEF SomeOverflow
<1> QED
  BY <1>1, <1>2, <1>3, <1>4, <1>5, <1>6

\* The types of the same, once those of the variables that change are known.
LEMMA LoadedTypes ==
    ASSUME IInv, UNCHANGED <<input, scanVars, readAt>>,
           pc' \in {"patch", "upgrade", "write", "copy", "done"},
           moov' \in Seq(Table), k' \in 0 .. Len(moov'),
           newSize' \in Nat, dest' \in Nat, copied' \in Nat, lastOffset' \in Int,
           ret' \in {-1, 0, 1}
    PROVE  TypeOK'
<1>1. \A i \in DOMAIN moov' : \A j \in DOMAIN moov'[i].at :
          moov'[i].at[j] \in IF moov'[i].kind = "stco" THEN 0 .. Max32 ELSE Nat
  BY MoovType
<1>2. /\ {ftypSize, startOffset, moovSize, freeSize, atomSize, readAt} \subseteq Nat
      /\ pos \in 0 .. Len(file)
  BY DEF IInv, TypeOK
<1> QED
  BY <1>1, <1>2 DEF TypeOK, input, scanVars

\* What is replaced in moov_atom is one table.
LEMMA TableReplaced ==
    ASSUME NEW s \in Seq(Table), NEW n \in 1 .. Len(s), NEW t \in Table
    PROVE  /\ [s EXCEPT ![n] = t] \in Seq(Table)
           /\ Len([s EXCEPT ![n] = t]) = Len(s)
           /\ [s EXCEPT ![n] = t][n] = t
           /\ \A i \in 1 .. Len(s) : i # n => [s EXCEPT ![n] = t][i] = s[i]
  OBVIOUS

LEMMA PatchStep == ASSUME IInv, Patch PROVE IInv'
<1>1. /\ pc = "patch" /\ k < Len(moov)
      /\ moov' = [moov EXCEPT ![k + 1] = Patched(moov[k + 1])]
      /\ overflow' = (overflow \/ /\ moov[k + 1].kind = "stco"
                                  /\ \E j \in DOMAIN moov[k + 1].at : Overflows(moov[k + 1].at[j]))
      /\ k' = k + 1
      /\ UNCHANGED <<input, pc, scanVars, newSize, dest, lastOffset, readAt, copied, ret>>
  BY DEF Patch, copyVars
<1>2. Loaded /\ Loaded' /\ ~Written'
  BY <1>1 DEF Loaded, Written
<1>3. k \in Nat /\ Len(moov) \in Nat /\ moov \in Seq(Table) /\ k + 1 \in 1 .. Len(moov)
  <2>1. k \in 0 .. Len(moov) /\ moov \in Seq(Table)
    BY DEF IInv, TypeOK
  <2> QED
    BY <1>1, <2>1, MoovType
<1>4. IsMoov /\ Len(moov) = Len(tables)
  <2>1. moov # <<>>
    BY <1>3
  <2> QED
    BY <1>2, <2>1 DEF IInv, LoadInv
<1>5. /\ newSize = atomSize /\ (overflow <=> SomeOverflow(k))
      /\ \A i \in DOMAIN tables : moov[i] = IF i <= k THEN Moved(tables[i]) ELSE tables[i]
  BY <1>1, <1>2, <1>4 DEF IInv, SizeInv, PatchInv
<1>6. /\ InputInv /\ k + 1 \in DOMAIN tables /\ tables[k + 1] \in Table
      /\ DOMAIN tables = 1 .. Len(tables)
  BY <1>3, <1>4, InputType DEF IInv
<1>7. moov[k + 1] = tables[k + 1]
  BY <1>3, <1>5, <1>6
<1>8. Patched(moov[k + 1]) = Moved(tables[k + 1])
  BY <1>5, <1>7 DEF Patched, Moved
<1>9. atomSize \in Nat /\ atomSize <= Max32 /\ Moved(tables[k + 1]) \in Table
  <2>1. atomSize = file[MoovAt].size
    BY <1>4 DEF IsMoov
  <2> QED
    BY <1>6, <2>1, InputType, MovedTable, SizeAssumption
<1>10. /\ moov' \in Seq(Table) /\ Len(moov') = Len(moov)
       /\ moov'[k + 1] = Moved(tables[k + 1])
       /\ \A i \in 1 .. Len(moov) : i # k + 1 => moov'[i] = moov[i]
  BY <1>1, <1>3, <1>8, <1>9, TableReplaced
<1>11. TypeOK'
  <2>1. k' \in 0 .. Len(moov')
    BY <1>1, <1>3, <1>10
  <2> QED
    BY <1>1, <1>10, <2>1, LoadedTypes DEF IInv, TypeOK
<1>12. /\ InputInv' /\ ScanInv' /\ FreeInv' /\ FtypInv'
       /\ atomType' = "moov" /\ atomSize' >= 2 * Header /\ readAt' = Behind' /\ IsMoov'
       /\ \A n : SomeOverflow(n)' <=> SomeOverflow(n)
       /\ \A t : Moved(t)' = Moved(t)
       /\ tables' = tables /\ atomSize' = atomSize
  BY <1>1, <1>2, <1>4, LoadedLeft
<1>13. overflow' <=> SomeOverflow(k + 1)
  <2>1. \A o : Overflows(o) <=> o > Max32 - atomSize
    BY <1>5, <1>9 DEF Overflows
  <2> QED
    BY <1>1, <1>3, <1>5, <1>7, <2>1, OverflowNext
<1>14. ASSUME NEW i \in DOMAIN tables
       PROVE  moov'[i] = IF i <= k + 1 THEN Moved(tables[i]) ELSE tables[i]
  <2>1. i \in 1 .. Len(moov) /\ i \in Nat
    BY <1>4, <1>6
  <2>2. CASE i = k + 1
    BY <1>3, <1>10, <2>2
  <2>3. CASE i # k + 1
    <3>1. i <= k + 1 <=> i <= k
      BY <1>3, <2>1, <2>3
    <3> QED
      BY <1>5, <1>10, <2>1, <2>3, <3>1
  <2> QED
    BY <2>2, <2>3
<1>15. PatchInv'
  BY <1>1, <1>12, <1>13, <1>14 DEF PatchInv
<1>16. LoadInv' /\ SizeInv' /\ CopyInv'
  BY <1>1, <1>2, <1>4, <1>5, <1>10, <1>12 DEF IInv, LoadInv, SizeInv, CopyInv
<1>17. UpgradeInv' /\ OutputInv'
  BY <1>1, <1>2 DEF UpgradeInv, OutputInv
<1> QED
  BY <1>10, <1>11, <1>12, <1>15, <1>16, <1>17 DEF IInv

\* From the tables to the output, with what is in moov_atom.
LEMMA ToWriteStep ==
    ASSUME IInv, Loaded, pc \in {"patch", "upgrade"}, pc' = "write",
           k = Len(moov), pc = "patch" => ~overflow,
           lastOffset' = lastOffset - startOffset,
           UNCHANGED <<input, scanVars, moovVars, readAt, copied, ret>>
    PROVE  IInv'
<1>1. /\ InputInv' /\ ScanInv' /\ FreeInv' /\ FtypInv'
      /\ atomType' = "moov" /\ atomSize' >= 2 * Header /\ readAt' = Behind'
      /\ IsMoov' <=> IsMoov
      /\ \A n : SomeOverflow(n)' <=> SomeOverflow(n)
      /\ \A t : Moved(t)' = Moved(t)
      /\ tables' = tables /\ atomSize' = atomSize /\ startOffset' = startOffset
  BY LoadedLeft
<1>2. UNCHANGED <<moov, k, overflow, newSize, dest>> /\ readAt' = readAt /\ copied' = copied
  BY DEF moovVars
<1>3. Loaded' /\ ~Written'
  BY DEF Loaded, Written
<1>4. /\ readAt \in Nat /\ startOffset \in Nat
      /\ moov \in Seq(Table) /\ newSize \in Nat /\ dest \in Nat /\ copied \in Nat
      /\ k \in 0 .. Len(moov) /\ ret \in {-1, 0, 1}
  BY DEF IInv, TypeOK
<1>5. lastOffset = readAt /\ copied = 0
  BY DEF IInv, CopyInv
<1>6. TypeOK'
  BY <1>2, <1>4, <1>5, LoadedTypes
<1>7. LoadInv'
  BY <1>1, <1>2, <1>3 DEF IInv, LoadInv
<1>8. CopyInv'
  BY <1>1, <1>2, <1>3, <1>4, <1>5 DEF CopyInv
<1>9. ASSUME IsMoov
      PROVE  /\ overflow <=> SomeOverflow(Len(tables))
             /\ \A i \in DOMAIN tables :
                    moov[i] = IF overflow THEN Upgraded(Moved(tables[i])) ELSE Moved(tables[i])
  <2>1. k = Len(tables) /\ \A i \in DOMAIN tables : i <= k
    <3>1. k = Len(tables)
      BY <1>9 DEF IInv, LoadInv
    <3> QED
      BY <3>1, InputType DEF IInv
  <2>2. CASE pc = "patch"
    BY <1>9, <2>1, <2>2 DEF IInv, PatchInv
  <2>3. CASE pc = "upgrade"
    BY <1>9, <2>1, <2>3 DEF IInv, UpgradeInv, SizeInv
  <2> QED
    BY <2>2, <2>3
<1>10. \A t : Upgraded(t)' = Upgraded(t)
  BY <1>1, <1>2 DEF Upgraded, Mod32
<1>11. OutputInv'
  BY <1>1, <1>2, <1>9, <1>10 DEF OutputInv
<1>12. SizeInv'
  BY <1>1, <1>2, <1>3, <1>9 DEF IInv, SizeInv
<1>13. PatchInv' /\ UpgradeInv'
  BY DEF PatchInv, UpgradeInv
<1> QED
  BY <1>1, <1>2, <1>4, <1>6, <1>7, <1>8, <1>11, <1>12, <1>13 DEF IInv

LEMMA PatchEndsStep == ASSUME IInv, PatchEnds PROVE IInv'
  BY ToWriteStep DEF PatchEnds, Loaded

LEMMA UpgradeBeginsStep == ASSUME IInv, UpgradeBegins PROVE IInv'
<1> DEFINE growth == Sum([i \in DOMAIN moov |-> Growth(moov[i])], Len(moov))
<1>1. /\ pc = "patch" /\ k = Len(moov) /\ overflow /\ pc' = "upgrade" /\ k' = 0 /\ dest' = Header
      /\ newSize' = newSize + growth
      /\ UNCHANGED <<input, scanVars, moov, overflow, lastOffset, readAt, copied, ret>>
  BY DEF UpgradeBegins, copyVars
<1>2. Loaded /\ Loaded' /\ ~Written'
  BY <1>1 DEF Loaded, Written
<1>3. IsMoov /\ Len(moov) = Len(tables) /\ newSize = atomSize /\ InputInv
  BY <1>1, <1>2 DEF IInv, LoadInv, SizeInv
<1>4. /\ moov \in Seq(Table) /\ DOMAIN moov = DOMAIN tables
      /\ DOMAIN tables = 1 .. Len(tables) /\ Len(tables) \in Nat
      /\ \A i \in DOMAIN tables : tables[i] \in Table
      /\ atomSize \in Nat
  BY <1>3, InputType, MoovType DEF IInv, TypeOK
<1>5. overflow <=> SomeOverflow(Len(tables))
  BY <1>1, <1>3 DEF IInv, PatchInv
<1>6. \A i \in DOMAIN tables : moov[i] = Moved(tables[i])
  BY <1>1, <1>3, <1>4 DEF IInv, PatchInv
<1>7. [i \in DOMAIN moov |-> Growth(moov[i])] = [i \in DOMAIN tables |-> Growth(tables[i])]
  <2>1. \A i \in DOMAIN tables : Growth(moov[i]) = Growth(tables[i])
    BY <1>4, <1>6, MovedTable
  <2> QED
    BY <1>4, <2>1
<1>8. UpgradedUpTo(Len(tables)) = TablesSize(tables) + growth
  BY <1>3, <1>7, UpgradedSum
<1>9. atomSize = Header + TablesSize(tables) + rest
  BY <1>3 DEF IsMoov, InputInv
<1>10. /\ newSize' = Header + UpgradedUpTo(Len(tables)) + rest
       /\ newSize' \in Nat
  <2>1. growth \in Int /\ TablesSize(tables) \in Int
    BY <1>3, <1>7, UpgradedSum
  <2>2. UpgradedUpTo(Len(tables)) \in Nat /\ rest \in Nat
    BY <1>3, InputType, UpgradedNext
  <2> HIDE DEF growth
  <2>3. newSize' = atomSize + growth
    BY <1>1, <1>3
  <2>4. newSize' = Header + TablesSize(tables) + rest + growth
    BY <1>9, <2>3
  <2> QED
    BY <1>8, <2>1, <2>2, <2>4 DEF Header
<1>11. UpgradedUpTo(0) = 0
  BY SumZero DEF UpgradedUpTo
<1>12. TypeOK'
  <2>1. k' \in 0 .. Len(moov') /\ dest' \in Nat
    BY <1>1, <1>3, <1>4 DEF Header
  <2> QED
    BY <1>1, <1>4, <1>10, <2>1, LoadedTypes DEF IInv, TypeOK
<1>13. /\ InputInv' /\ ScanInv' /\ FreeInv' /\ FtypInv'
       /\ atomType' = "moov" /\ atomSize' >= 2 * Header /\ readAt' = Behind' /\ IsMoov'
       /\ \A n : UpgradedUpTo(n)' = UpgradedUpTo(n)
       /\ \A n : SomeOverflow(n)' <=> SomeOverflow(n)
       /\ \A t : Moved(t)' = Moved(t)
       /\ tables' = tables /\ rest' = rest /\ atomSize' = atomSize
  BY <1>1, <1>2, <1>3, LoadedLeft
<1>14. UpgradeInv'
  <2>1. \A i \in DOMAIN tables : ~(i <= k')
    BY <1>1, <1>4
  <2>2. dest' = Header + UpgradedUpTo(k')
    BY <1>1, <1>11 DEF Header
  <2> QED
    BY <1>1, <1>6, <1>10, <1>13, <2>1, <2>2 DEF UpgradeInv
<1>15. LoadInv' /\ SizeInv' /\ CopyInv'
  BY <1>1, <1>2, <1>3, <1>5, <1>13 DEF IInv, LoadInv, SizeInv, CopyInv
<1>16. PatchInv' /\ OutputInv'
  BY <1>1, <1>2 DEF PatchInv, OutputInv
<1> QED
  BY <1>1, <1>4, <1>12, <1>13, <1>14, <1>15, <1>16 DEF IInv

LEMMA UpgradeStep == ASSUME IInv, Upgrade PROVE IInv'
<1>1. /\ pc = "upgrade" /\ k < Len(moov)
      /\ moov' = [moov EXCEPT ![k + 1] = Upgraded(moov[k + 1])]
      /\ dest' = dest + TableSize(Upgraded(moov[k + 1]))
      /\ k' = k + 1
      /\ UNCHANGED <<input, pc, scanVars, overflow, newSize, lastOffset, readAt, copied, ret>>
  BY DEF Upgrade, copyVars
<1>2. Loaded /\ Loaded' /\ ~Written'
  BY <1>1 DEF Loaded, Written
<1>3. /\ IsMoov /\ overflow /\ InputInv
      /\ newSize = Header + UpgradedUpTo(Len(tables)) + rest
      /\ dest = Header + UpgradedUpTo(k)
      /\ \A i \in DOMAIN tables :
             moov[i] = IF i <= k THEN Upgraded(Moved(tables[i])) ELSE Moved(tables[i])
  BY <1>1 DEF IInv, UpgradeInv
<1>4. Len(moov) = Len(tables)
  BY <1>2, <1>3 DEF IInv, LoadInv
<1>5. k \in Nat /\ Len(moov) \in Nat /\ moov \in Seq(Table) /\ k + 1 \in 1 .. Len(moov)
  <2>1. k \in 0 .. Len(moov) /\ moov \in Seq(Table)
    BY DEF IInv, TypeOK
  <2> QED
    BY <1>1, <2>1, MoovType
<1>6. /\ k + 1 \in DOMAIN tables /\ tables[k + 1] \in Table
      /\ DOMAIN tables = 1 .. Len(tables)
  BY <1>3, <1>4, <1>5, InputType
<1>7. atomSize \in Nat /\ newSize \in Nat
  BY DEF IInv, TypeOK
<1>8. moov[k + 1] = Moved(tables[k + 1])
  <2>1. ~(k + 1 <= k)
    BY <1>5
  <2> QED
    BY <1>3, <1>6, <2>1
<1>9. /\ Upgraded(Moved(tables[k + 1])) \in Table
      /\ TableSize(Upgraded(Moved(tables[k + 1]))) = UpgradedSize(tables[k + 1])
  BY <1>6, <1>7, MovedTable, UpgradedTable, UpgradedMovedSize
<1>10. /\ moov' \in Seq(Table) /\ Len(moov') = Len(moov)
       /\ moov'[k + 1] = Upgraded(Moved(tables[k + 1]))
       /\ \A i \in 1 .. Len(moov) : i # k + 1 => moov'[i] = moov[i]
  BY <1>1, <1>5, <1>8, <1>9, TableReplaced
<1>11. dest' = Header + UpgradedUpTo(k + 1) /\ dest' \in Nat
  <2>1. /\ UpgradedUpTo(k) \in Nat
        /\ UpgradedUpTo(k + 1) = UpgradedUpTo(k) + UpgradedSize(tables[k + 1])
    BY <1>1, <1>3, <1>4, <1>5, UpgradedNext
  <2>2. UpgradedSize(tables[k + 1]) \in Nat
    BY <1>6, TableType
  <2>3. dest' = dest + UpgradedSize(tables[k + 1])
    BY <1>1, <1>8, <1>9
  <2> QED
    BY <1>3, <2>1, <2>2, <2>3 DEF Header
<1>12. TypeOK'
  <2>1. k' \in 0 .. Len(moov')
    BY <1>1, <1>5, <1>10
  <2> QED
    BY <1>1, <1>10, <1>11, <2>1, LoadedTypes DEF IInv, TypeOK
<1>13. /\ InputInv' /\ ScanInv' /\ FreeInv' /\ FtypInv'
       /\ atomType' = "moov" /\ atomSize' >= 2 * Header /\ readAt' = Behind' /\ IsMoov'
       /\ \A n : UpgradedUpTo(n)' = UpgradedUpTo(n)
       /\ \A n : SomeOverflow(n)' <=> SomeOverflow(n)
       /\ \A t : Moved(t)' = Moved(t)
       /\ tables' = tables /\ rest' = rest /\ atomSize' = atomSize
  BY <1>1, <1>2, <1>3, LoadedLeft
<1>14. \A t : Upgraded(t)' = Upgraded(t)
  BY <1>1, <1>13 DEF Upgraded, Mod32
<1>15. ASSUME NEW i \in DOMAIN tables
       PROVE  moov'[i] = IF i <= k + 1 THEN Upgraded(Moved(tables[i])) ELSE Moved(tables[i])
  <2>1. i \in 1 .. Len(moov) /\ i \in Nat
    BY <1>4, <1>6
  <2>2. CASE i = k + 1
    BY <1>5, <1>10, <2>2
  <2>3. CASE i # k + 1
    <3>1. i <= k + 1 <=> i <= k
      BY <1>5, <2>1, <2>3
    <3> QED
      BY <1>3, <1>10, <2>1, <2>3, <3>1
  <2> QED
    BY <2>2, <2>3
<1>16. UpgradeInv'
  <2>1. \A i \in DOMAIN tables :
            moov'[i] = IF i <= k' THEN Upgraded(Moved(tables[i]))' ELSE Moved(tables[i])'
    BY <1>1, <1>13, <1>14, <1>15
  <2>2. newSize' = Header + UpgradedUpTo(Len(tables))' + rest' /\ dest' = Header + UpgradedUpTo(k')
    BY <1>1, <1>3, <1>11, <1>13
  <2> QED
    BY <1>1, <1>3, <1>13, <2>1, <2>2 DEF UpgradeInv
<1>17. LoadInv' /\ SizeInv' /\ CopyInv'
  BY <1>1, <1>2, <1>3, <1>4, <1>10, <1>13 DEF IInv, LoadInv, SizeInv, CopyInv
<1>18. PatchInv' /\ OutputInv'
  BY <1>1, <1>2 DEF PatchInv, OutputInv
<1> QED
  BY <1>10, <1>12, <1>13, <1>16, <1>17, <1>18 DEF IInv

LEMMA UpgradeEndsStep == ASSUME IInv, UpgradeEnds PROVE IInv'
<1>1. CASE pc' = "write"
  BY <1>1, ToWriteStep DEF UpgradeEnds, Return, Loaded
<1>2. CASE pc' # "write"
  BY <1>2, ReturnStep DEF UpgradeEnds, Return, copyVars
<1> QED
  BY <1>1, <1>2
-----------------------------------------------------------------------------
(* The output.                                                              *)

\* While the rest is copied, and when all of it is, moov_atom stays as it was written.
LEMMA CopyingLeft ==
    ASSUME IInv, Loaded, pc \in {"write", "copy"}, pc' = "copy" \/ (pc' = "done" /\ ret' = 0),
           UNCHANGED <<input, scanVars, moovVars, readAt>>,
           copied' \in Nat, lastOffset' \in Int, ret' \in {-1, 0, 1}, CopyInv'
    PROVE  IInv'
<1>1. /\ InputInv' /\ ScanInv' /\ FreeInv' /\ FtypInv'
      /\ atomType' = "moov" /\ atomSize' >= 2 * Header /\ readAt' = Behind'
      /\ IsMoov' <=> IsMoov
      /\ \A n : SomeOverflow(n)' <=> SomeOverflow(n)
      /\ \A t : Moved(t)' = Moved(t)
      /\ tables' = tables /\ atomSize' = atomSize
  BY LoadedLeft
<1>2. UNCHANGED <<moov, k, overflow, newSize, dest>>
  BY DEF moovVars
<1>3. Loaded'
  BY <1>1 DEF Loaded, Written
<1>4. TypeOK'
  BY <1>2, LoadedTypes DEF IInv, TypeOK
<1>5. LoadInv'
  BY <1>1, <1>2, <1>3 DEF IInv, LoadInv
<1>6. \A t : Upgraded(t)' = Upgraded(t)
  BY <1>1, <1>2 DEF Upgraded, Mod32
<1>7. OutputInv'
  BY <1>1, <1>2, <1>6 DEF IInv, OutputInv
<1>8. SizeInv'
  BY <1>1, <1>2, <1>3 DEF IInv, SizeInv
<1>9. PatchInv' /\ UpgradeInv'
  BY DEF PatchInv, UpgradeInv
<1> QED
  BY <1>1, <1>2, <1>4, <1>5, <1>7, <1>8, <1>9 DEF IInv

LEMMA WriteStep == ASSUME IInv, Write PROVE IInv'
<1>1. /\ pc = "write" /\ UNCHANGED <<input, scanVars, moovVars, copyVars>>
      /\ UNCHANGED <<lastOffset, readAt, copied, startOffset>>
      /\ \/ pc' = "done" /\ ret' = 1
         \/ pc' = "copy" /\ lastOffset >= 0 /\ ret' = ret
  BY DEF Write, Return, copyVars, scanVars
<1>2. CASE pc' = "done"
  BY <1>1, <1>2, ReturnStep
<1>3. CASE pc' = "copy"
  <2>1. CopyInv' /\ Loaded
    BY <1>1, <1>3 DEF IInv, CopyInv, Written, Loaded
  <2>2. copied' \in Nat /\ lastOffset' \in Int /\ ret' \in {-1, 0, 1}
    BY <1>1, <1>3 DEF IInv, TypeOK
  <2> QED
    BY <1>1, <1>3, <2>1, <2>2, CopyingLeft
<1> QED
  BY <1>1, <1>2, <1>3

LEMMA CopyStep == ASSUME IInv, Copy PROVE IInv'
<1>1. /\ pc = "copy" /\ pc' = "copy"
      /\ copied' = copied + Min2(Buffer, lastOffset)
      /\ lastOffset' = lastOffset - Min2(Buffer, lastOffset)
      /\ UNCHANGED <<input, scanVars, moovVars, readAt, ret, startOffset>>
  BY DEF Copy, scanVars
<1>2. /\ copied \in Nat /\ lastOffset \in Nat /\ ret \in {-1, 0, 1}
      /\ readAt \in Nat /\ startOffset \in Nat
      /\ copied + lastOffset = readAt - startOffset
  BY <1>1 DEF IInv, TypeOK, CopyInv
<1>3. Min2(Buffer, lastOffset) \in 0 .. lastOffset
  BY <1>2, SizeAssumption DEF Min2
<1>4. /\ copied' \in Nat /\ lastOffset' \in Nat
      /\ copied' + lastOffset' = readAt - startOffset
  BY <1>1, <1>2, <1>3
<1>5. CopyInv'
  BY <1>1, <1>4 DEF CopyInv, Written
<1>6. Loaded
  BY <1>1 DEF Loaded
<1> QED
  BY <1>1, <1>2, <1>4, <1>5, <1>6, CopyingLeft

LEMMA FinishStep == ASSUME IInv, Finish PROVE IInv'
<1>1. /\ pc = "copy" /\ lastOffset = 0 /\ pc' = "done" /\ ret' = 0
      /\ UNCHANGED <<input, scanVars, moovVars, copyVars>>
      /\ UNCHANGED <<lastOffset, readAt, copied, startOffset>>
  BY DEF Finish, Return, LeftToCopy, copyVars, scanVars
<1>2. /\ copied \in Nat /\ lastOffset \in Int /\ copied + lastOffset = readAt - startOffset
  BY <1>1 DEF IInv, TypeOK, CopyInv
<1>3. copied = readAt - startOffset
  BY <1>1, <1>2
<1>4. CopyInv' /\ Loaded
  BY <1>1, <1>3 DEF CopyInv, Loaded
<1> QED
  BY <1>1, <1>2, <1>4, CopyingLeft

LEMMA NotMoovStep == ASSUME IInv, NotMoov PROVE IInv'
  BY ReturnStep DEF NotMoov, Return

LEMMA BadMoovStep == ASSUME IInv, BadMoov PROVE IInv'
  BY ReturnStep DEF BadMoov, Return

LEMMA FailStep == ASSUME IInv, Fail PROVE IInv'
  BY ReturnStep DEF Fail, Return

LEMMA NothingStep == ASSUME IInv, UNCHANGED vars PROVE IInv'
<1>1. /\ UNCHANGED <<input, scanVars, moovVars, copyVars, pc, ret>>
      /\ UNCHANGED <<moov, k, overflow, newSize, dest, lastOffset, readAt, copied>>
      /\ UNCHANGED <<file, tables, rest, pos, atomType, atomSize, ftypSize, startOffset>>
      /\ UNCHANGED <<moovSize, freeSize>>
  BY DEF vars, input, scanVars, moovVars, copyVars
<1>2. /\ InputInv' /\ MoovAt' = MoovAt /\ FileSize' = FileSize /\ \A i : Start(i)' = Start(i)
      /\ \A n : UpgradedUpTo(n)' = UpgradedUpTo(n)
  BY <1>1, InputLeft DEF IInv
<1>3. (IsMoov' <=> IsMoov) /\ Behind' = Behind /\ \A t : Moved(t)' = Moved(t)
  BY <1>1, LoadLeft DEF IInv
<1>4. \A n : SomeOverflow(n)' <=> SomeOverflow(n)
  BY <1>1 DEF SomeOverflow
<1>5. \A t : Upgraded(t)' = Upgraded(t)
  BY <1>1 DEF Upgraded, Mod32
<1>6. (Found' <=> Found) /\ (Loaded' <=> Loaded) /\ (Written' <=> Written)
  BY <1>1 DEF Found, Loaded, Written
<1>7. OnlyFree(pos)' <=> OnlyFree(pos)
  BY <1>1, <1>2 DEF OnlyFree
<1>8. TypeOK' /\ moov' \in Seq(Table)
  BY <1>1 DEF IInv, TypeOK
<1>9. ScanInv' /\ FreeInv' /\ FtypInv'
  BY <1>1, <1>2, <1>6, <1>7 DEF IInv, ScanInv, FreeInv, FtypInv, Ordinary
<1>10. LoadInv' /\ PatchInv' /\ UpgradeInv'
  BY <1>1, <1>2, <1>3, <1>4, <1>5, <1>6 DEF IInv, LoadInv, PatchInv, UpgradeInv
<1>11. OutputInv' /\ SizeInv' /\ CopyInv'
  BY <1>1, <1>2, <1>3, <1>4, <1>5, <1>6 DEF IInv, OutputInv, SizeInv, CopyInv
<1> QED
  BY <1>2, <1>8, <1>9, <1>10, <1>11 DEF IInv

LEMMA InductiveStep == IInv /\ [Next]_vars => IInv'
<1> SUFFICES ASSUME IInv, [Next]_vars PROVE IInv'
  OBVIOUS
<1>1. CASE Scan
  BY <1>1, ScanStep
<1>2. CASE ScanEnds
  BY <1>2, ScanEndsStep
<1>3. CASE NotMoov
  BY <1>3, NotMoovStep
<1>4. CASE BadMoov
  BY <1>4, BadMoovStep
<1>5. CASE Load
  BY <1>5, LoadStep
<1>6. CASE Patch
  BY <1>6, PatchStep
<1>7. CASE PatchEnds
  BY <1>7, PatchEndsStep
<1>8. CASE UpgradeBegins
  BY <1>8, UpgradeBeginsStep
<1>9. CASE Upgrade
  BY <1>9, UpgradeStep
<1>10. CASE UpgradeEnds
  BY <1>10, UpgradeEndsStep
<1>11. CASE Write
  BY <1>11, WriteStep
<1>12. CASE Copy
  BY <1>12, CopyStep
<1>13. CASE Finish
  BY <1>13, FinishStep
<1>14. CASE Fail
  BY <1>14, FailStep
<1>15. CASE UNCHANGED vars
  BY <1>15, NothingStep
<1> QED
  BY <1>1, <1>2, <1>3, <1>4, <1>5, <1>6, <1>7, <1>8, <1>9, <1>10, <1>11, <1>12, <1>13, <1>14, <1>15
     DEF Next, Proceed

LEMMA Inductive == Spec => []IInv
<1> QED
  BY InductiveInit, InductiveStep, PTL DEF Spec
-----------------------------------------------------------------------------
(* The results.                                                             *)

\* Every variable of fastStart holds a value of its type, whatever the file holds.
THEOREM TypeCorrect == Spec => []TypeOK
<1>1. IInv => TypeOK
  BY DEF IInv
<1> QED
  BY <1>1, Inductive, PTL

\* The chunk offsets of the output, by the kind of their table and by overflow.
LEMMA PlaceOfOffset ==
    ASSUME IInv, Written, IsMoov
    PROVE  \A i \in DOMAIN tables : \A j \in DOMAIN tables[i].at :
               \/ overflow /\ Mixed /\ tables[i].kind = "co64"
               \/ moov[i].at[j] = NewPlace(tables[i].at[j])
<1>1. Loaded /\ pc # "patch" /\ pc = "done"
  BY DEF Loaded, Written
<1>2. /\ IInv /\ InputInv /\ atomSize \in Nat /\ newSize \in Nat
      /\ ftypSize \in Nat /\ startOffset \in Nat
  BY DEF IInv, TypeOK
<1>3. ftypSize = startOffset
  <2>1. OnlyFree(pos) /\ Found
    BY <1>1, MoovAtTheEnd DEF Found, Written, IInv, LoadInv, TypeOK, Header
  <2> QED
    BY <1>2, <2>1 DEF IInv, FtypInv
<1>4. \A o \in Nat : NewPlace(o) = o + newSize
  BY <1>2, <1>3 DEF NewPlace
<1>5. /\ \A i \in DOMAIN tables :
             moov[i] = IF overflow THEN Upgraded(Moved(tables[i])) ELSE Moved(tables[i])
      /\ ~overflow => newSize = atomSize
      /\ overflow <=> SomeOverflow(Len(tables))
  BY <1>1 DEF IInv, OutputInv, SizeInv
<1>6. atomSize \in 0 .. Max32
  BY <1>2, InputType DEF IsMoov
<1> SUFFICES ASSUME NEW i \in DOMAIN tables, NEW j \in DOMAIN tables[i].at
             PROVE  \/ overflow /\ Mixed /\ tables[i].kind = "co64"
                    \/ moov[i].at[j] = NewPlace(tables[i].at[j])
  OBVIOUS
<1> DEFINE t == tables[i]
           o == tables[i].at[j]
<1>7. /\ t \in Table /\ o \in Nat /\ t.kind \in {"stco", "co64"}
      /\ t.kind = "stco" => o \in 0 .. Max32
  BY <1>2, InputType, TableType
<1>8. /\ Moved(t) \in Table /\ Moved(t).kind = t.kind /\ j \in DOMAIN Moved(t).at
      /\ Moved(t).at[j] = IF t.kind = "stco" THEN Mod32(o + atomSize) ELSE o + atomSize
  BY <1>2, <1>7, MovedTable
<1>9. CASE t.kind = "stco" /\ overflow
  <2>1. moov[i].at[j] = Mod32(Moved(t).at[j] - atomSize) + newSize
    BY <1>2, <1>5, <1>8, <1>9, UpgradedTable
  <2>2. Mod32(Moved(t).at[j] - atomSize) = o
    BY <1>6, <1>7, <1>8, <1>9, OffsetComesBack
  <2> QED
    BY <1>4, <1>7, <2>1, <2>2
<1>10. CASE t.kind = "stco" /\ ~overflow
  <2>1. ~(o > Max32 - atomSize)
    <3>1. i \in 1 .. Len(tables)
      BY <1>2, InputType
    <3> QED
      BY <1>5, <1>10, <3>1 DEF SomeOverflow
  <2>2. o + atomSize <= Max32
    BY <1>6, <1>7, <1>10, <2>1, SizeAssumption
  <2>3. moov[i].at[j] = o + atomSize
    BY <1>5, <1>6, <1>7, <1>8, <1>10, <2>2, OffsetComesBack
  <2> QED
    BY <1>4, <1>5, <1>7, <1>10, <2>3
<1>11. CASE t.kind = "co64" /\ overflow
  <2>1. PICK n \in DOMAIN tables : tables[n].kind = "stco"
    <3>1. PICK n \in 1 .. Len(tables) : tables[n].kind = "stco"
      BY <1>5, <1>11 DEF SomeOverflow
    <3> QED
      BY <1>2, <3>1, InputType
  <2>2. Mixed
    BY <1>11, <2>1 DEF Mixed
  <2> QED
    BY <1>11, <2>2
<1>12. CASE t.kind = "co64" /\ ~overflow
  BY <1>4, <1>5, <1>7, <1>8, <1>12
<1> QED
  BY <1>7, <1>9, <1>10, <1>11, <1>12

\* In a file that has been written, every chunk offset is where its chunk went, whatever
\* the sizes of the atoms, the tables and their offsets: whether 32-bit sums wrapped and
\* the tables were upgraded or not, but for co64 tables next to upgraded stco tables.
THEOREM OffsetsPointToChunks == Spec => []OffsetsFollowChunks
<1>1. IInv => OffsetsFollowChunks
  BY PlaceOfOffset DEF OffsetsFollowChunks
<1> QED
  BY <1>1, Inductive, PTL

\* The part of the input that was copied goes from startOffset to the moov atom, so it
\* holds all media data, whatever the size of the copy buffer.
THEOREM MediaIsCopied == Spec => []NoMediaIsLost
<1>1. ASSUME IInv, Written, IsMoov, NEW i \in DOMAIN file, file[i].type = "mdat"
      PROVE  startOffset <= Start(i) /\ Start(i + 1) - startOffset <= copied
  <2>1. Loaded /\ Found /\ InputInv
    BY <1>1 DEF Loaded, Found, Written, IInv, LoadInv, TypeOK, Header
  <2>2. /\ OnlyFree(pos) /\ pos = Len(file)
        /\ MoovAt \in 1 .. Len(file) /\ i \in 1 .. Len(file) /\ i # MoovAt
    BY <1>1, <2>1, MoovAtTheEnd, InputType
  <2>3. i < MoovAt
    <3>1. ~(i \in MoovAt + 1 .. Len(file))
      BY <1>1, <2>2 DEF OnlyFree
    <3> QED
      BY <2>1, <2>2, <3>1, InputType
  <2>4. Start(i) \in Nat /\ Start(i + 1) \in Nat /\ Start(i + 1) <= Start(MoovAt)
    <3>1. i + 1 \in 1 .. Len(file) + 1 /\ MoovAt \in i + 1 .. Len(file) + 1
      BY <2>1, <2>2, <2>3, InputType
    <3> QED
      BY <2>1, <2>2, <3>1, StartNext, StartGrows
  <2>5. startOffset <= Start(i)
    <3>1. startOffset = IF pos >= 1 /\ file[1].type = "ftyp" THEN file[1].size ELSE 0
      BY <1>1, <2>1, <2>2 DEF IInv, FtypInv
    <3>2. CASE startOffset = 0
      BY <2>4, <3>2
    <3>3. CASE startOffset # 0
      <4>1. startOffset = file[1].size /\ file[1].type = "ftyp" /\ i # 1
        BY <1>1, <3>1, <3>3
      <4>2. 1 \in 1 .. Len(file) /\ 2 \in 1 .. Len(file) + 1 /\ i \in 2 .. Len(file) + 1
        BY <2>1, <2>2, <4>1, InputType
      <4>3. Start(1 + 1) = Start(1) + file[1].size /\ file[1].size \in Nat
        BY <2>1, <4>2, StartNext, InputType
      <4>4. Start(2) <= Start(i)
        BY <2>1, <4>2, StartGrows
      <4> QED
        BY <4>1, <4>3, <4>4, StartOne
    <3> QED
      BY <3>2, <3>3
  <2>6. copied = Start(MoovAt) - startOffset
    BY <1>1 DEF IInv, CopyInv, IsMoov
  <2>7. Start(MoovAt) \in Nat /\ startOffset \in Nat
    BY <1>1, <2>1, <2>2, StartNext DEF IInv, TypeOK
  <2> QED
    BY <2>4, <2>5, <2>6, <2>7
<1>2. IInv => NoMediaIsLost
  BY <1>1 DEF NoMediaIsLost
<1> QED
  BY <1>2, Inductive, PTL

\* "unexpected - wrong number of moov bytes written" is reported of no moov that is made
\* of whole atoms, whatever tables are in it.
THEOREM UpgradeFillsTheMoov == Spec => []UpgradeIsAsLongAsComputed
<1>1. ASSUME IInv, pc = "upgrade", k = Len(moov), rest = 0 PROVE dest = newSize
  <2>1. /\ newSize = Header + UpgradedUpTo(Len(tables)) + rest
        /\ dest = Header + UpgradedUpTo(k) /\ IsMoov /\ InputInv
    BY <1>1 DEF IInv, UpgradeInv
  <2>2. k = Len(tables) /\ Loaded
    BY <1>1, <2>1 DEF IInv, LoadInv, Loaded
  <2>3. UpgradedUpTo(Len(tables)) \in Nat
    BY <2>1, InputType, UpgradedNext
  <2> QED
    BY <1>1, <2>1, <2>2, <2>3 DEF Header
<1>2. IInv => UpgradeIsAsLongAsComputed
  BY <1>1 DEF UpgradeIsAsLongAsComputed
<1> QED
  BY <1>2, Inductive, PTL

\* Counting back from the end of the file finds a moov with nothing but free atoms behind
\* it, whatever is in front of it.
THEOREM FindsTheMoov == Spec => []LoadsTheMoovAtTheEnd
<1>1. ASSUME IInv, pc = "patch", \A i \in MoovAt + 1 .. Len(file) : file[i].type = "free"
      PROVE  IsMoov
  <2>1. Loaded
    BY <1>1 DEF Loaded
  <2> QED
    BY <1>1, <2>1, MoovAtTheEnd DEF OnlyFree
<1>2. IInv => LoadsTheMoovAtTheEnd
  BY <1>1 DEF LoadsTheMoovAtTheEnd
<1> QED
  BY <1>2, Inductive, PTL
=============================================================================
