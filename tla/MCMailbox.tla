----------------------------- MODULE MCMailbox -----------------------------
EXTENDS MailboxTransfers

\* the objects are named for their bytes
MCObjSize == [o0 |-> 0, o4 |-> 4, o26 |-> 26, o40 |-> 40, o58 |-> 58, o64 |-> 64, o65 |-> 65, o135 |-> 135, o136 |-> 136, o138 |-> 138, o68 |-> 68, o70 |-> 70,
              o71 |-> 71, o100 |-> 100, o6 |-> 6]

Job(proc, obj, size) == [proc |-> proc, obj |-> obj, sub |-> 1, ca |-> FALSE, size |-> size]

Plan(jbs, cnt) == [jobs |-> jbs, hook |-> FALSE, traffic |-> <<>>, cnt |-> cnt, rl |-> 80]

\* a slave whose mailboxes are not of one length
Uneven(jbs, rl) == [Plan(jbs, 0) EXCEPT !.rl = rl]

\* the application has set the EoE hook or not, and fragments arrive
Amid(jbs, set, t) == [Plan(jbs, 0) EXCEPT !.hook = set, !.traffic = t]

\* a fragment of a frame: its number, its place and its length
Fragment(frame, name, frag, offset, off, len, last) ==
  EoeAnswer([kind |-> "frag", port |-> 1, frag |-> frag, frame |-> frame, offset |-> offset, last |-> last,
             stamp |-> FALSE, len |-> len, off |-> off, of |-> <<name, 1>>])

A0 == Fragment(1, "o100", 0, 4, 0, 64, FALSE)
A1 == Fragment(1, "o100", 1, 2, 64, 36, TRUE)
B0 == Fragment(2, "o71", 0, 3, 0, 64, FALSE)
B1 == Fragment(2, "o71", 1, 2, 64, 7, TRUE)
\* sixteen frames later, cut elsewhere
C1 == Fragment(1, "o68", 1, 1, 32, 36, TRUE)

MCPlans ==
  {Plan(<<Job("SDOread", "o4", 4), Job("SDOread", "o65", 65)>>, 6),
   Plan(<<Job("SDOread", "o138", 138)>>, 0), Plan(<<Job("SDOread", "o64", 64), Job("SDOwrite", "o0", 4)>>, 5),
   Plan(<<Job("SDOread", "o0", 4), Job("SDOread", "o65", 64)>>, 0),
   Plan(<<Job("SDOwrite", "o4", 4), Job("SDOwrite", "o64", 64)>>, 6),
   Plan(<<Job("SDOwrite", "o136", 136)>>, 0), Plan(<<Job("SDOwrite", "o135", 135), Job("TxPDO", "o6", 6)>>, 4),
   Plan(<<[Job("SDOwrite", "o4", 4) EXCEPT !.ca = TRUE, !.sub = 2], Job("RxPDO", "o6", 6)>>, 0),
   Plan(<<Job("ODlist", "o68", 40), Job("ODdescription", "o6", 6), Job("OEsingle", "o6", 6)>>, 0),
   Plan(<<Job("FOEread", "o68", 68)>>, 0), Plan(<<Job("FOEread", "o71", 71), Job("FOEread", "o0", 4)>>, 5),
   Plan(<<Job("FOEwrite", "o68", 68)>>, 0), Plan(<<Job("FOEwrite", "o71", 71), Job("FOEwrite", "o0", 4)>>, 6),
   Plan(<<Job("SoEread", "o70", 70), Job("SoEread", "o71", 71)>>, 0), Plan(<<Job("SoEread", "o71", 70)>>, 0),
   Plan(<<Job("SoEwrite", "o138", 138), Job("SoEwrite", "o70", 70)>>, 0),
   Plan(<<Job("SoEread", "o0", 4), Job("SoEwrite", "o0", 4)>>, 0),
   Plan(<<Job("EOEsend", "o100", 100), Job("EOEsetIp", "o6", 6), Job("EOEgetIp", "o58", 58)>>, 0),
   Plan(<<Job("EOEsetIp", "o0", 6)>>, 0)}
  \cup {Plan(<<[Job("EOEgetIp", "o26", 26) EXCEPT !.sub = 0], Job("EOEgetIp", "o40", 40)>>, 0)}
  \cup {Uneven(<<Job("SDOread", "o138", 138)>>, 72), Uneven(<<Job("ODlist", "o68", 40)>>, 72), Uneven(<<Job("SoEread", "o71", 71)>>, 64),
         Uneven(<<Job("FOEread", "o71", 71)>>, 72), Uneven(<<Job("FOEread", "o68", 68)>>, 88)}
  \cup {Amid(<<Job("EOErecv", "o100", 128)>>, FALSE, t) : t \in {<<A0, A1>>, <<A0, B1>>, <<A0, C1>>}}
  \cup {Amid(<<Job("SDOread", "o4", 4)>>, TRUE, t) : t \in {<<A0, A1>>, <<A0, B1>>, <<A0, C1>>}}
  \cup {Amid(<<Job("SDOread", "o4", 4), Job("SDOread", "o4", 4)>>, FALSE, <<A0>>)}
=============================================================================
