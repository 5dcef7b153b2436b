-------------------------------- MODULE Sii --------------------------------
(***************************************************************************)
(* The slave information in the EEPROM: the byte cache of ecx_siigetbyte   *)
(* and the sections ecx_siifind, ecx_siistring, ecx_siiFMMU, ecx_siiSM and *)
(* ecx_siiPDO read through it.                                             *)
(*                                                                         *)
(* A section is read as a whole: v is what ecx_siigetbyte answers for each *)
(* address, from the cache or from the slave, and used the addresses asked *)
(* for, in ascending order.                                                *)
(***************************************************************************)
EXTENDS Integers, SequencesExt

CONSTANTS
  EC_MAXEEPBUF,   \* bytes of the cache
  ECT_SII_START,  \* word address of the first section
  EC_MAXNAME      \* characters of a name

ECT_SII_MANUF    == 8
ECT_SII_ID       == 10
ECT_SII_REV      == 12
ECT_SII_RXMBXADR == 24
ECT_SII_TXMBXADR == 26
ECT_SII_MBXPROTO == 28

ECT_SII_STRING   == 10
ECT_SII_GENERAL  == 30
ECT_SII_FMMU     == 40
ECT_SII_SM       == 41
ECT_SII_PDO      == 50

Cells == 0 .. EC_MAXEEPBUF - 1

\* after ecx_init_context has asked for a byte of slave 0
NoCache == [slave |-> 0, map |-> {}, buf |-> <<>>]

-----------------------------------------------------------------------------
\* variant: the map of the bytes that are there is not cleared for another slave
EsiKept(esi, s) == [esi EXCEPT !.slave = s]

\* the cache when it is asked for a byte of slave s
EsiOf(esi, s) == IF s = esi.slave THEN esi ELSE [NoCache EXCEPT !.slave = s]

\* what ecx_siigetbyte answers: from the cache what is there, else from the image
View(esi, image) == [a \in Cells |-> IF a \in esi.map THEN esi.buf[a] ELSE image[a]]

\* reads of four or eight bytes from the word of the address on fill the cache
Got(map, used, chunk) ==
  LET got[m \in SUBSET Cells] ==
        IF used \subseteq m THEN m
        ELSE LET first == 2 * (Min(used \ m) \div 2) IN got[m \cup (Cells \cap first .. first + chunk - 1)]
  IN  got[map]

Filled(esi, v, used, chunk) ==
  LET got == Got(esi.map, used \cap Cells, chunk)
  IN  [esi EXCEPT !.map = got, !.buf = [a \in got |-> v[a]]]

At(v, a)     == IF a \in Cells THEN v[a] ELSE 255
WordAt(v, a) == At(v, a) + 256 * At(v, a + 1)

-----------------------------------------------------------------------------
\* the section headers from byte a on until the category is found or 0xffff ends
\* them: <<category at>>
Headers(v, a, cat) ==
  LET from[b \in Nat] ==
        IF WordAt(v, b) \in {cat, 65535} THEN <<b>> ELSE <<b>> \o from[b + 4 + 2 * WordAt(v, b + 2)]
  IN  from[a]

\* ecx_siifind: the byte address of the length of the section, 0 if there is none
ecx_siifind(v, cat) ==
  LET a == Last(Headers(v, 2 * ECT_SII_START, cat))
  IN  IF WordAt(v, a) = cat THEN a + 2 ELSE 0

FindUses(v, cat) ==
  LET path == Headers(v, 2 * ECT_SII_START, cat)
  IN  UNION {path[i] .. path[i] + 3 : i \in 1 .. Len(path) - 1} \cup (Last(path) .. Last(path) + 1)

-----------------------------------------------------------------------------
\* ecx_siistring walks over the strings before: the length of the n-th string
StringAt(v, a, n) ==
  LET start[i \in 1 .. n] == IF i = 1 THEN a ELSE LET b == start[i - 1] IN b + 1 + At(v, b)
  IN  start[n]

\* the name of a slave: the bytes of string n, none when there are fewer strings
ecx_siistring(v, n) ==
  LET a    == ecx_siifind(v, ECT_SII_STRING)
      here == StringAt(v, a + 3, n)
  IN  IF n > At(v, a + 2) THEN <<>>
      ELSE [j \in 1 .. Min({At(v, here), EC_MAXNAME}) |-> At(v, here + j)]

StringUses(v, n) ==
  LET a    == ecx_siifind(v, ECT_SII_STRING)
      here == StringAt(v, a + 3, n)
  IN  IF n > At(v, a + 2) THEN {a + 2}
      ELSE {a + 2} \cup {StringAt(v, a + 3, i) : i \in 1 .. n}
                   \cup (here + 1 .. here + Min({At(v, here), EC_MAXNAME}))

-----------------------------------------------------------------------------
\* ecx_siiFMMU: the functions of the first two FMMUs, and of two more if there are
FmmuFuncs(v) ==
  LET a == ecx_siifind(v, ECT_SII_FMMU)
  IN  IF a = 0 \/ WordAt(v, a) = 0 THEN <<>>
      ELSE [i \in 1 .. (IF 2 * WordAt(v, a) > 2 THEN 4 ELSE 2) |-> At(v, a + 1 + i)]

\* ecx_siiSM and ecx_siiSMnext: the start of each sync manager of the section
SmCount(v) == (WordAt(v, ecx_siifind(v, ECT_SII_SM)) \div 4) % 256

SmStarts(v) ==
  LET a == ecx_siifind(v, ECT_SII_SM)
  IN  IF a = 0 THEN <<>> ELSE [i \in 1 .. Min({SmCount(v), 4}) |-> WordAt(v, a + 2 + 8 * (i - 1))]

SectionUses(v, cat, len) ==
  LET a == ecx_siifind(v, cat)
  IN  FindUses(v, cat) \cup (IF a = 0 THEN {} ELSE a .. a + len - 1)

-----------------------------------------------------------------------------
\* ecx_siiPDO: the PDOs from byte a on, c words of the section being done.  The
\* first one is read even of an empty section.  The bits of a PDO count for its
\* sync manager, of one whose sync manager is 0xff they do not count at all.
EC_MAXSM == 8

Bits(v, a) == LET entry(e) == At(v, a + 8 * e + 5)
              IN  MapThenSumSet(entry, 1 .. At(v, a + 2))

Pdos(v, a, c, length) ==
  LET from[b \in Nat, d \in Nat] ==
        LET next == 4 + 4 * At(v, b + 2)
        IN  <<[at |-> b, sm |-> At(v, b + 3), bits |-> IF At(v, b + 3) < EC_MAXSM THEN Bits(v, b) ELSE 0]>>
            \o (IF d + next < length THEN from[b + 2 * next, d + next] ELSE <<>>)
  IN  from[a, c]

PdosOf(v, t) ==
  LET a == ecx_siifind(v, ECT_SII_PDO + t)
  IN  IF a = 0 THEN <<>> ELSE Pdos(v, a + 2, 1, WordAt(v, a))

SmBits(pdos, n) == MapThenSumSet(LAMBDA i : IF pdos[i].sm = n THEN pdos[i].bits ELSE 0, DOMAIN pdos)

TotalBits(v, t) == MapThenSumSet(LAMBDA i : PdosOf(v, t)[i].bits, DOMAIN PdosOf(v, t))
=============================================================================
