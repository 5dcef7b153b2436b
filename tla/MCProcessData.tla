--------------------------- MODULE MCProcessData ---------------------------
(***************************************************************************)
(* Networks of one to three slaves with segments of four bytes and three   *)
(* receive buffers: drives, terminals of a few bits that share bytes, a    *)
(* slave with two separate sync managers, one that cannot do LRW, one      *)
(* without outputs; mapped one after the other, byte by byte or            *)
(* overlapping; in one to four datagrams, the fourth of which finds no     *)
(* buffer; with and without a clock.                                       *)
(***************************************************************************)
EXTENDS ProcessData

Slave(o, i) ==
  [Obits |-> o, Ibits |-> i, blockLRW |-> FALSE,
   outSM |-> IF o = 0 THEN <<>> ELSE <<[start |-> 10, len |-> Bytes(o)]>>,
   inSM  |-> IF i = 0 THEN <<>> ELSE <<[start |-> 20, len |-> Bytes(i)]>>]

Drive    == Slave(16, 24)
Terminal == Slave(6, 4)
Sensor   == Slave(0, 16)
Wide     == Slave(24, 24)
Apart    == [Slave(24, 16) EXCEPT !.outSM = <<[start |-> 10, len |-> 1], [start |-> 14, len |-> 2]>>,
                                  !.inSM  = <<[start |-> 20, len |-> 1], [start |-> 21, len |-> 1]>>]
Plain    == [Slave(16, 8) EXCEPT !.blockLRW = TRUE]

Lines == {<<Drive, Drive>>, <<Terminal, Terminal, Drive>>, <<Terminal, Terminal, Wide>>, <<Terminal, Sensor>>,
          <<Sensor>>, <<Apart, Terminal>>, <<Plain, Drive>>, <<Terminal, Plain, Sensor>>,
          <<Plain, Wide>>}

MCNetworks ==
  {n \in [slaves : Lines, map : {"plain", "aligned", "overlap"}, hasdc : BOOLEAN] :
     ~(n.map = "overlap" /\ blockLRW(n))}

MCBitNetworks ==
  [slaves : {<<Terminal, Terminal, Wide>>}, map : {"plain"}, hasdc : {FALSE}]

MCOverlapNetworks ==
  [slaves : {<<Plain, Drive>>}, map : {"overlap"}, hasdc : {FALSE}]

MCDriveNetworks ==
  [slaves : {<<Drive, Drive>>}, map : {"plain"}, hasdc : {FALSE}]
=============================================================================
