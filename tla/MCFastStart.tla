---------------------------- MODULE MCFastStart ----------------------------
(***************************************************************************)
(* Instances of FastStart for TLC: files of up to four atoms with ftyp, if *)
(* there is one, in front or behind all media, and moovs of one or two     *)
(* tables, so that small 32-bit offsets wrap in some tables and not in     *)
(* others.                                                                 *)
(***************************************************************************)
EXTENDS FastStart, FiniteSets

MCTable ==
    {[kind |-> kd, at |-> at, pad |-> p] :
        kd \in {"stco", "co64"}, at \in {<<3>>, <<21>>, <<3, 21>>}, p \in {0, 1}}
MCMoovs ==
    {[tables |-> ts, rest |-> r] :
        ts \in {<<t>> : t \in MCTable} \union {<<t, u>> : t, u \in {x \in MCTable : x.pad = 0}},
        r \in {0, 1}}

MCSizes == {Header + TablesSize(m.tables) + m.rest : m \in MCMoovs}
Atom(t, s) == [type |-> t, size |-> s, toEnd |-> FALSE]
MCAtoms == {Atom("mdat", 22), Atom("free", 2), Atom("other", 3)} \union {Atom("moov", s) : s \in MCSizes}
MCLast == MCAtoms \union {[a EXCEPT !.toEnd = TRUE] : a \in {b \in MCAtoms : b.type \in {"mdat", "moov"}}}

MCFiles ==
    LET bodies == {<<a, b>> : a \in MCAtoms, b \in MCLast}
                  \union {<<a, b, c>> : a \in MCAtoms, b \in MCAtoms, c \in MCLast}
        OneMoov(f) == Cardinality({i \in DOMAIN f : f[i].type = "moov"}) = 1
        good == {f \in bodies : OneMoov(f)}
        late == {<<Atom("moov", s), Atom("mdat", 22), Atom("ftyp", 3), Atom("free", 2)>> : s \in MCSizes}
    IN good \union {<<Atom("ftyp", 3)>> \o f : f \in good} \union late
=============================================================================
