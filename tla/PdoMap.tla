------------------------------- MODULE PdoMap -------------------------------
(***************************************************************************)
(* The size of the process data as a slave tells it by CoE or SoE:         *)
(* ecx_readPDOmap and ecx_readPDOmapCA of soem/ethercatcoe.c and           *)
(* ecx_readIDNmap of soem/ethercatsoe.c.  The mailbox transfers they are   *)
(* made of are those of module MailboxTransfers; here all of them succeed. *)
(*                                                                         *)
(* od.smtypes[n] is the type of sync manager n - 1 in object 0x1c00,       *)
(* od.assign[n] the PDOs of sync manager n, of which od.pdos has the bit   *)
(* lengths of the entries, and od.drives the mapped IDNs of a drive.       *)
(***************************************************************************)
EXTENDS Integers, Sequences, FiniteSetsExt

Sum(f) == MapThenSumSet(LAMBDA i : f[i], DOMAIN f)

\* ecx_readPDOassign: no PDO at index 0 of an assignment
AssignedBits(od, n) ==
  Sum([i \in DOMAIN od.assign[n] |-> IF od.assign[n][i] = 0 THEN 0 ELSE Sum(od.pdos[od.assign[n][i]])])

\* what the code makes of the types some slaves get wrong: 0 1 2 3 for 1 2 3 4,
\* and without complete access no type at sync managers 2 and 3
BugAdd(od) == IF od.smtypes[3] = 2 THEN 1 ELSE 0

SMtypeSingle(od, n) ==
  LET t == od.smtypes[n + 1]
  IN  IF t # 0 THEN t + BugAdd(od) ELSE IF n \in {2, 3} THEN n + 1 ELSE 0

SMtypeCA(od, n) ==
  LET t == od.smtypes[n + 1] IN IF t # 0 THEN t + BugAdd(od) ELSE 0

\* the entry after the reads, if the object has more than the mailbox types
Mapped(me, od, ca) ==
  LET nSM     == Len(od.smtypes)
      type(n) == IF ca THEN SMtypeCA(od, n) ELSE SMtypeSingle(od, n)
      used    == {n \in 2 .. nSM - 1 : type(n) \in {3, 4} /\ AssignedBits(od, n) > 0}
      bits(t) == MapThenSumSet(LAMBDA n : AssignedBits(od, n), {n \in used : type(n) = t})
  IN  IF nSM <= 2 THEN [me EXCEPT !.Obits = 0, !.Ibits = 0]
      ELSE [me EXCEPT !.SMtype = [n \in 0 .. 3 |-> IF n \in 2 .. nSM - 1 THEN type(n) ELSE @[n]],
                      !.SMlength = [n \in 0 .. 3 |-> IF n \in used THEN (AssignedBits(od, n) + 7) \div 8
                                                     ELSE @[n]],
                      !.Obits = bits(3), !.Ibits = bits(4)]

ecx_readPDOmap(me, od)   == Mapped(me, od, FALSE)
ecx_readPDOmapCA(me, od) == Mapped(me, od, TRUE)

\* ecx_readIDNmap: command and status word of each drive are always mapped, a list
\* cannot be
IdnBits(idns) ==
  IF idns = <<>> THEN 0
  ELSE 16 + Sum([i \in DOMAIN idns |-> IF idns[i].list THEN 0 ELSE 8 * 2 ^ idns[i].length])

ecx_readIDNmap(od) ==
  [out |-> Sum([d \in DOMAIN od.drives |-> IdnBits(od.drives[d].mdt)]),
   in  |-> Sum([d \in DOMAIN od.drives |-> IdnBits(od.drives[d].at)])]
=============================================================================
