----------------------------- MODULE FastStart -----------------------------
(***************************************************************************)
(* fast_start.c: moves the moov atom of an MP4 file to the front and makes *)
(* its chunk offsets follow the media data.  One step per atom scanned,    *)
(* per chunk offset table patched or upgraded and per buffer copied.       *)
(*                                                                         *)
(* Sizes and offsets count units of 4 bytes, the size of an stco entry, so *)
(* that the 8 bytes of an atom header are 2 units.  Offsets in an stco     *)
(* table are numbers modulo Max32 + 1.  Atoms between moov and its tables  *)
(* (trak, mdia, minf, stbl) are not told apart.                            *)
(***************************************************************************)
EXTENDS Integers, Sequences

CONSTANTS Max32,         \* UINT_MAX
          Buffer,        \* COPY_BUFFER_SIZE
          Files,         \* the files: sequences of [type, size, toEnd]
          Moovs          \* what is in moov: [tables, rest], see below

Header == 2
ASSUME SizeAssumption == Max32 \in Nat /\ Buffer \in Nat \ {0}

\* A file has no second moov; its ftyp, if it has one, is the first atom or behind moov,
\* where it keeps counting back from the end from finding moov.
AtomType == {"ftyp", "mdat", "moov", "free", "other"}
ASSUME FilesAssumption ==
    \A f \in Files :
        /\ f \in Seq([type : AtomType, size : Nat, toEnd : BOOLEAN])
        /\ \A i, j \in DOMAIN f : f[i].type = "moov" /\ f[j].type = "moov" => i = j
        /\ \A i \in DOMAIN f : f[i].type = "ftyp" /\ i # 1 =>
               \E j \in 1 .. i - 1 : f[j].type = "moov"

\* A table is [kind |-> "stco" or "co64", at |-> its offsets, pad |-> unused units after
\* them]; rest is what is left in moov after the last atom, less than a header.
Width(kind) == IF kind = "stco" THEN 1 ELSE 2
TableSize(t) == Header + 2 + Width(t.kind) * Len(t.at) + t.pad

Sum(f, n) == LET upTo[i \in 0 .. n] == IF i = 0 THEN 0 ELSE upTo[i - 1] + f[i] IN upTo[n]
TablesSize(ts) == Sum([i \in DOMAIN ts |-> TableSize(ts[i])], Len(ts))

\* The entries of an stco table are of 32 bits, and so is the size in the header of moov.
Table ==
    {t \in [kind : {"stco", "co64"}, at : Seq(Nat), pad : Nat] :
        t.kind = "stco" => \A j \in DOMAIN t.at : t.at[j] <= Max32}
ASSUME MoovsAssumption ==
    \A m \in Moovs :
        /\ m.tables \in Seq(Table) /\ m.rest \in Nat
        /\ Header + TablesSize(m.tables) + m.rest <= Max32

VARIABLES
    file, rest,        \* the input: its atoms, and what is left over in moov
    tables,            \* the input: the tables of its moov
    pc,
    pos,               \* atoms scanned
    atomType, atomSize,
    ftypSize, startOffset, moovSize, freeSize,
    lastOffset,        \* where the moov atom is read, then what is left to copy
    readAt,            \* history: where it was read
    moov,              \* the tables in moov_atom
    k,                 \* tables of it that have been dealt with
    overflow,          \* stco_overflow
    newSize,           \* the size of moov_atom: what moov_atom_size says
    dest,              \* what upgrading has written
    copied,            \* what has been copied behind it
    ret                \* the result, or -1 before it returns

input == <<file, rest, tables>>
scanVars == <<pos, atomType, atomSize, ftypSize, startOffset, moovSize, freeSize>>
moovVars == <<moov, k, overflow, newSize, dest>>
copyVars == <<lastOffset, readAt, copied>>
vars == <<input, pc, scanVars, moovVars, copyVars, ret>>

Start(i) == Sum([j \in DOMAIN file |-> file[j].size], i - 1)
FileSize == Start(Len(file) + 1)
MoovAt == CHOOSE i \in DOMAIN file : file[i].type = "moov"

\* The offsets are those of chunks, so they lie in media data.
PointsToMedia(o) == \E i \in DOMAIN file : file[i].type = "mdat" /\ o \in Start(i) .. Start(i + 1) - 1

Init ==
    /\ file \in Files
    /\ \E m \in Moovs :
          /\ tables = m.tables /\ rest = m.rest
          /\ \E i \in DOMAIN file : file[i].type = "moov" /\ file[i].size = Header + TablesSize(tables) + rest
    /\ \A i \in DOMAIN tables : \A j \in DOMAIN tables[i].at : PointsToMedia(tables[i].at[j])
    /\ pc = "scan"
    /\ pos = 0 /\ atomType = "none" /\ atomSize = 0
    /\ ftypSize = 0 /\ startOffset = 0 /\ moovSize = 0 /\ freeSize = 0
    /\ lastOffset = 0 /\ readAt = 0
    /\ moov = <<>> /\ k = 0 /\ overflow = FALSE /\ newSize = 0 /\ dest = 0
    /\ copied = 0
    /\ ret = -1

Return(r) == pc' = "done" /\ ret' = r
-----------------------------------------------------------------------------
(* The traversal of the top-level atoms.                                     *)

\* Mutated form of TooSmall: an atom of size 0 is scanned past.
NotTooSmall(size) == FALSE

\* An atom of no known type ends the scan, and so does a size of 0, which
\* an atom that reaches to the end of the file may have.
TooSmall(size) == size < Header

\* Mutated form of FreeBehindMoov: a free atom anywhere counts.
FreeAnywhere(a, size) == a.type = "free" /\ ~TooSmall(size)

\* Free atoms met after moov are taken together with it, whatever is in between.
FreeBehindMoov(a, size) == moovSize > 0 /\ a.type = "free" /\ ~TooSmall(size)

Scan ==
    /\ pc = "scan" /\ pos < Len(file)
    /\ LET a == file[pos + 1]
           size == IF a.toEnd THEN 0 ELSE a.size
           ignored == FreeBehindMoov(a, size)
       IN /\ atomType' = IF ignored THEN "moov" ELSE a.type
          /\ atomSize' = IF ignored THEN moovSize ELSE size
          /\ freeSize' = IF ignored THEN freeSize + size ELSE freeSize
          /\ moovSize' = IF a.type = "moov" /\ ~TooSmall(size) THEN size ELSE moovSize
          /\ \/ a.type = "ftyp" /\ ftypSize' = size /\ startOffset' = Start(pos + 2)
             \/ a.type # "ftyp" /\ UNCHANGED <<ftypSize, startOffset>>
          /\ pos' = IF size = 0 THEN pos ELSE pos + 1
          /\ pc' = IF a.type = "other" \/ TooSmall(size) THEN "scanned" ELSE "scan"
    /\ UNCHANGED <<input, moovVars, copyVars, ret>>

ScanEnds ==
    /\ pc = "scan" /\ pos = Len(file)
    /\ pc' = "scanned"
    /\ UNCHANGED <<input, scanVars, moovVars, copyVars, ret>>

NotMoov ==
    /\ pc = "scanned" /\ atomType # "moov"
    /\ Return(0)
    /\ UNCHANGED <<input, scanVars, moovVars, copyVars>>

BadMoov ==
    /\ pc = "scanned" /\ atomType = "moov"
    /\ atomSize < 2 * Header \/ atomSize + freeSize > FileSize
    /\ Return(1)
    /\ UNCHANGED <<input, scanVars, moovVars, copyVars>>

IsMoov == readAt = Start(MoovAt) /\ atomSize = file[MoovAt].size
Behind == FileSize - (atomSize + freeSize)

\* Loads what should be the moov atom, counting back from the end of the file.
Load ==
    /\ pc = "scanned" /\ atomType = "moov"
    /\ atomSize >= 2 * Header /\ atomSize + freeSize <= FileSize
    /\ lastOffset' = Behind
    /\ readAt' = Behind
    /\ newSize' = atomSize
    /\ moov' = IF Behind = Start(MoovAt) /\ atomSize = file[MoovAt].size THEN tables ELSE <<>>
    /\ pc' = "patch"
    /\ UNCHANGED <<input, scanVars, k, overflow, dest, copied, ret>>
-----------------------------------------------------------------------------
(* update_moov_atom.                                                         *)

\* Mutated form of Mod32: a table entry grows beyond 32 bits.
Unbounded(n) == n

Mod32(n) == n % (Max32 + 1)

\* The difference is one of 64 bits: with a moov beyond UINT_MAX it would wrap.
Overflows(o) == newSize <= Max32 /\ o > Max32 - newSize

\* update_stco_offsets and update_co64_offsets.
Patched(t) ==
    [t EXCEPT !.at = [j \in DOMAIN t.at |->
        IF t.kind = "stco" THEN Mod32(t.at[j] + newSize) ELSE t.at[j] + newSize]]

Patch ==
    /\ pc = "patch" /\ k < Len(moov)
    /\ moov' = [moov EXCEPT ![k + 1] = Patched(@)]
    /\ overflow' = (overflow \/ /\ moov[k + 1].kind = "stco"
                                /\ \E j \in DOMAIN moov[k + 1].at : Overflows(moov[k + 1].at[j]))
    /\ k' = k + 1
    /\ UNCHANGED <<input, pc, scanVars, newSize, dest, copyVars, ret>>

\* What was loaded is no moov atom: it may pass as one without tables.
PatchEnds ==
    /\ pc = "patch" /\ k = Len(moov)
    /\ ~overflow
    /\ pc' = "write"
    /\ lastOffset' = lastOffset - startOffset
    /\ UNCHANGED <<input, scanVars, moovVars, readAt, copied, ret>>

\* Mutated form of StcoData: the unused units of a table are forgotten.
StcoEntries(t) == Len(t.at)

\* stco_data_size counts all that is in an stco atom behind its count.
StcoData(t) == Len(t.at) + t.pad

Growth(t) == IF t.kind = "stco" THEN 2 * Len(t.at) - StcoData(t) ELSE 0

UpgradeBegins ==
    /\ pc = "patch" /\ k = Len(moov)
    /\ overflow
    /\ pc' = "upgrade"
    /\ k' = 0
    /\ dest' = Header
    /\ newSize' = newSize + Sum([i \in DOMAIN moov |-> Growth(moov[i])], Len(moov))
    /\ UNCHANGED <<input, scanVars, moov, overflow, copyVars, ret>>

\* Mutated form of Upgraded: the wrapped offset is kept and grows by the difference.
UpgradedWrapped(t) ==
    IF t.kind = "stco"
    THEN [kind |-> "co64", pad |-> 0,
          at |-> [j \in DOMAIN t.at |-> t.at[j] - atomSize + newSize]]
    ELSE t

\* upgrade_stco_atom: takes the size off again, and adds the new one.
Upgraded(t) ==
    IF t.kind = "stco"
    THEN [kind |-> "co64", pad |-> 0,
          at |-> [j \in DOMAIN t.at |-> Mod32(t.at[j] - atomSize) + newSize]]
    ELSE t

Upgrade ==
    /\ pc = "upgrade" /\ k < Len(moov)
    /\ moov' = [moov EXCEPT ![k + 1] = Upgraded(@)]
    /\ dest' = dest + TableSize(Upgraded(moov[k + 1]))
    /\ k' = k + 1
    /\ UNCHANGED <<input, pc, scanVars, overflow, newSize, copyVars, ret>>

\* "unexpected - wrong number of moov bytes written", or on to the output.
UpgradeEnds ==
    /\ pc = "upgrade" /\ k = Len(moov)
    /\ \/ dest # newSize /\ Return(1) /\ UNCHANGED lastOffset
       \/ /\ dest = newSize
          /\ pc' = "write"
          /\ lastOffset' = lastOffset - startOffset
          /\ UNCHANGED ret
    /\ UNCHANGED <<input, scanVars, moovVars, readAt, copied>>
-----------------------------------------------------------------------------
\* A negative size of the copy buffer cannot be allocated.
Write ==
    /\ pc = "write"
    /\ \/ lastOffset >= 0 /\ pc' = "copy" /\ UNCHANGED ret
       \/ lastOffset < 0 /\ Return(1)
    /\ UNCHANGED <<input, scanVars, moovVars, copyVars>>

Min2(a, b) == IF a < b THEN a ELSE b

\* Mutated form of LeftToCopy: what does not fill the buffer is not copied.
FullBufferLeft == lastOffset >= Buffer

LeftToCopy == lastOffset # 0

Copy ==
    /\ pc = "copy" /\ LeftToCopy
    /\ copied' = copied + Min2(Buffer, lastOffset)
    /\ lastOffset' = lastOffset - Min2(Buffer, lastOffset)
    /\ UNCHANGED <<input, pc, scanVars, moovVars, readAt, ret>>

Finish ==
    /\ pc = "copy" /\ ~LeftToCopy
    /\ Return(0)
    /\ UNCHANGED <<input, scanVars, moovVars, copyVars>>

\* A file or memory operation, or the parsing of a malformed moov, fails.
Fail ==
    /\ pc # "done"
    /\ Return(1)
    /\ UNCHANGED <<input, scanVars, moovVars, copyVars>>

Proceed ==
    \/ Scan \/ ScanEnds \/ NotMoov \/ BadMoov \/ Load
    \/ Patch \/ PatchEnds \/ UpgradeBegins \/ Upgrade \/ UpgradeEnds
    \/ Write \/ Copy \/ Finish

Next == Proceed \/ Fail

Spec == Init /\ [][Next]_vars
FairSpec == Spec /\ WF_vars(Proceed)
-----------------------------------------------------------------------------
(* Properties.                                                               *)

\* Every variable holds a value of its type.
TypeOK ==
    /\ pc \in {"scan", "scanned", "patch", "upgrade", "write", "copy", "done"}
    /\ pos \in 0 .. Len(file) /\ k \in 0 .. Len(moov)
    /\ {ftypSize, startOffset, moovSize, freeSize, atomSize, newSize, dest, copied, readAt} \subseteq Nat
    /\ lastOffset \in Int
    /\ \A i \in DOMAIN moov : \A j \in DOMAIN moov[i].at :
           moov[i].at[j] \in IF moov[i].kind = "stco" THEN 0 .. Max32 ELSE Nat
    /\ ret \in {-1, 0, 1}

Written == pc = "done" /\ ret = 0 /\ atomType = "moov"

\* Where the unit at o of the input is in the output: behind ftyp and the new moov.
NewPlace(o) == ftypSize + newSize + (o - startOffset)

Mixed == \E t, u \in {tables[i] : i \in DOMAIN tables} : t.kind # u.kind

\* In the output, every chunk offset is where its chunk went, whether the tables were
\* upgraded or not and whether 32-bit sums wrapped on the way; the exception is a co64
\* table next to upgraded stco tables, which keeps the sum with the old size
\* (update_co64_offsets and upgrade_stco_callback).
OffsetsFollowChunks ==
    Written /\ IsMoov =>
        \A i \in DOMAIN tables : \A j \in DOMAIN tables[i].at :
            \/ overflow /\ Mixed /\ tables[i].kind = "co64"
            \/ moov[i].at[j] = NewPlace(tables[i].at[j])

\* The output holds all the media data of the input behind the new moov.
NoMediaIsLost ==
    Written /\ IsMoov =>
        \A i \in DOMAIN file : file[i].type = "mdat" =>
            /\ startOffset <= Start(i)
            /\ Start(i + 1) - startOffset <= copied

\* "unexpected - wrong number of moov bytes written" (fast_start.c:398-401) is reported of
\* no moov that is made of whole atoms: the size computed before the upgrade is what the
\* upgrade writes.
UpgradeIsAsLongAsComputed ==
    pc = "upgrade" /\ k = Len(moov) /\ rest = 0 => dest = newSize

\* fastStart always returns: no atom makes the scan, and no size the copying, go on for
\* ever.
Terminates == <>(pc = "done")

\* A moov with nothing but free atoms behind it, and free atoms anywhere before it, is
\* what is loaded, counting back from the end of the file (fast_start.c:515-519,
\* 534-540).  Not so a moov with media between it and a free atom at the end.
LoadsTheMoovAtTheEnd ==
    pc = "patch" /\ (\A i \in MoovAt + 1 .. Len(file) : file[i].type = "free") => IsMoov
-----------------------------------------------------------------------------
(* The inductive invariant.                                                 *)

\* The input stays what Init chose.
InputInv ==
    /\ file \in Files
    /\ \E m \in Moovs : tables = m.tables /\ rest = m.rest
    /\ MoovAt \in DOMAIN file /\ file[MoovAt].type = "moov"
    /\ file[MoovAt].size = Header + TablesSize(tables) + rest

\* An atom that does not end the scan.
Ordinary(a) == ~a.toEnd /\ a.size >= Header /\ a.type # "other"

\* Only free atoms from behind moov up to the n-th atom.
OnlyFree(n) == \A i \in MoovAt + 1 .. n : file[i].type = "free"

\* The scan goes on, or has come to the end of the file with what should be moov.
Found == pc = "scan" \/ ((pc # "done" \/ ret = 0) /\ atomType = "moov" /\ atomSize >= Header)

ScanInv ==
    Found =>
        /\ pc # "scan" => pos = Len(file)
        /\ \A i \in 1 .. pos : Ordinary(file[i])
        /\ moovSize = IF MoovAt <= pos THEN file[MoovAt].size ELSE 0
        /\ atomType = "moov" => MoovAt <= pos /\ atomSize = moovSize

\* The free atoms counted are all there is behind moov, or less than that.
FreeInv ==
    Found =>
        IF MoovAt <= pos
        THEN /\ freeSize <= Start(pos + 1) - Start(MoovAt + 1)
             /\ freeSize = Start(pos + 1) - Start(MoovAt + 1) <=> OnlyFree(pos)
        ELSE freeSize = 0

\* Unless something else is behind moov, ftyp is what is in front of startOffset.
FtypInv ==
    Found /\ OnlyFree(pos) =>
        /\ ftypSize = startOffset
        /\ startOffset = IF pos >= 1 /\ file[1].type = "ftyp" THEN file[1].size ELSE 0

Loaded == pc \in {"patch", "upgrade", "write", "copy"} \/ Written

LoadInv ==
    /\ pc \in {"scan", "scanned"} => moov = <<>> /\ k = 0 /\ ~overflow /\ copied = 0
    /\ Loaded =>
           /\ atomType = "moov" /\ atomSize >= 2 * Header
           /\ readAt = Behind
           /\ IF IsMoov THEN Len(moov) = Len(tables) ELSE moov = <<>> /\ ~overflow

\* A table of the input when it has been patched, and the size it has upgraded.
Moved(t) ==
    [t EXCEPT !.at = [j \in DOMAIN t.at |->
        IF t.kind = "stco" THEN Mod32(t.at[j] + atomSize) ELSE t.at[j] + atomSize]]
UpgradedSize(t) == TableSize(t) + Growth(t)
UpgradedUpTo(n) == Sum([i \in DOMAIN tables |-> UpgradedSize(tables[i])], n)

SomeOverflow(n) ==
    \E i \in 1 .. n : tables[i].kind = "stco" /\ \E j \in DOMAIN tables[i].at :
        tables[i].at[j] > Max32 - atomSize

\* The moov atom, table by table, while it is patched, while it is upgraded, and then.
PatchInv ==
    pc = "patch" /\ IsMoov =>
        /\ overflow <=> SomeOverflow(k)
        /\ \A i \in DOMAIN tables : moov[i] = IF i <= k THEN Moved(tables[i]) ELSE tables[i]
UpgradeInv ==
    pc = "upgrade" =>
        /\ IsMoov /\ overflow
        /\ newSize = Header + UpgradedUpTo(Len(tables)) + rest
        /\ dest = Header + UpgradedUpTo(k)
        /\ \A i \in DOMAIN tables :
               moov[i] = IF i <= k THEN Upgraded(Moved(tables[i])) ELSE Moved(tables[i])
OutputInv ==
    (pc \in {"write", "copy"} \/ Written) /\ IsMoov =>
        \A i \in DOMAIN tables :
            moov[i] = IF overflow THEN Upgraded(Moved(tables[i])) ELSE Moved(tables[i])
SizeInv ==
    /\ Loaded /\ (pc = "patch" \/ ~overflow) => newSize = atomSize
    /\ Loaded /\ IsMoov /\ pc # "patch" => (overflow <=> SomeOverflow(Len(tables)))

\* What is copied and what is left to copy make the part from startOffset to moov.
CopyInv ==
    /\ pc \in {"patch", "upgrade"} => lastOffset = readAt /\ copied = 0
    /\ pc \in {"write", "copy"} => copied + lastOffset = readAt - startOffset
    /\ pc = "copy" => lastOffset >= 0
    /\ Written => copied = readAt - startOffset

IInv ==
    /\ InputInv /\ TypeOK /\ moov \in Seq(Table)
    /\ ScanInv /\ FreeInv /\ FtypInv
    /\ LoadInv /\ PatchInv /\ UpgradeInv /\ OutputInv /\ SizeInv
    /\ CopyInv
=============================================================================
