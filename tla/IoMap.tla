------------------------------- MODULE IoMap -------------------------------
(***************************************************************************)
(* How soem/ethercatconfig.c lays the process data of the slaves of group  *)
(* 0 (logical start address 0) out over the logical address space, cuts it *)
(* into segments, and points the FMMUs of a slave at it.                   *)
(*                                                                         *)
(* LogAddr and BitPos are one position counted in bits, 8*LogAddr + BitPos.*)
(* A slave is [Obits, Ibits, outSM, inSM, blockLRW]: outSM and inSM are    *)
(* its sync managers of type 3 and 4, each [start, len] in bytes of its    *)
(* memory, together Bytes(Obits) and Bytes(Ibits) long.                    *)
(***************************************************************************)
EXTENDS Integers, SequencesExt

CONSTANTS
  MaxSegment,   \* EC_MAXLRWDATA - EC_FIRSTDCDATAGRAM, 1466 bytes
  MaxSegments   \* EC_MAXIOSEGMENTS, 64

ASSUME SegmentAssumption == MaxSegment \in Nat \ {0} /\ MaxSegments \in Nat \ {0}

Bytes(bits) == (bits + 7) \div 8
Aligned(p)  == 8 * Bytes(p)
Larger(a, b) == IF a > b THEN a ELSE b
Lesser(a, b) == IF a < b THEN a ELSE b

\* what the first k of some lengths add up to
Sums(lens) ==
  LET upto[k \in 0 .. Len(lens)] == IF k = 0 THEN 0 ELSE upto[k - 1] + lens[k]
  IN  upto

Total(lens) == Sums(lens)[Len(lens)]

-----------------------------------------------------------------------------
(***************************************************************************)
(* ecx_config_create_output_mappings and ..._input_mappings: where the     *)
(* data of a slave starts and ends if the position is p before.  A slave   *)
(* of less than 8 bits starts at any bit, any other one at a byte.         *)
(***************************************************************************)
StartOf(p, bits) == IF bits < 8 THEN p ELSE Aligned(p)
SizeOf(bits)     == IF bits < 8 THEN bits ELSE 8 * Bytes(bits)
EndOf(p, bits)   == IF bits = 0 THEN p ELSE StartOf(p, bits) + SizeOf(bits)

\* the logical bytes a slave's data occupies, from its first bit
Occupied(start, bits) ==
  IF bits = 0 THEN {} ELSE start \div 8 .. (start + SizeOf(bits) - 1) \div 8

\* variant: all sync managers of a direction get one FMMU
LastOfRunMerged(sms) == IF sms = <<>> THEN <<>> ELSE <<Len(sms)>>

\* a sync manager that does not connect to the one before it needs an FMMU of its own
LastOfRun(sms) == SetToSortSeq({k \in DOMAIN sms : k = Len(sms) \/
                                  sms[k + 1].start > sms[k].start + sms[k].len},
                               <)

(***************************************************************************)
(* The FMMUs of a slave that occupies whole bytes: logical start and       *)
(* length, and physical start.  ByteCount counts the sync managers of all  *)
(* FMMUs so far, not only those of the present one.                        *)
(***************************************************************************)
Fmmus(start, bits, sms) ==
  LET ends == LastOfRun(sms)
      ByteCount(r) == Total([k \in 1 .. ends[r] |-> sms[k].len])
      FMMUdone[r \in 1 .. Len(ends) + 1] ==
        IF r = 1 THEN 0
        ELSE FMMUdone[r - 1] + Lesser(ByteCount(r - 1), Bytes(bits) - FMMUdone[r - 1])
      used == {r \in DOMAIN ends : FMMUdone[r] < Bytes(bits)}
  IN  {[log  |-> start \div 8 + FMMUdone[r],
        len  |-> FMMUdone[r + 1] - FMMUdone[r],
        phys |-> sms[IF r = 1 THEN 1 ELSE ends[r - 1] + 1].start] : r \in used}

-----------------------------------------------------------------------------
(***************************************************************************)
(* ecx_main_config_map_group and ecx_config_overlap_map_group.  segs holds *)
(* the sizes of the segments closed so far and of the open one.            *)
(***************************************************************************)

\* variant: the open segment is filled up before the next one is begun
GrowFilling(segs, diff) ==
  LET room == MaxSegment - Last(segs)
  IN  IF diff > room
      THEN IF Len(segs) < MaxSegments
           THEN Append([segs EXCEPT ![Len(segs)] = MaxSegment], diff - room) ELSE segs
      ELSE [segs EXCEPT ![Len(segs)] = @ + diff]

\* diff more bytes: they go into the open segment or, if it is full, into the
\* next one; past the last segment they are dropped
Grow(segs, diff) ==
  IF Last(segs) + diff > MaxSegment
  THEN IF Len(segs) < MaxSegments THEN Append(segs, diff) ELSE segs
  ELSE [segs EXCEPT ![Len(segs)] = @ + diff]

\* the next slave of one direction: at is the position, starts that of each slave
PlaceSlave(m, bits, forceByteAlignment) ==
  LET e == EndOf(m.at, bits)
      p == IF forceByteAlignment /\ bits # 0 THEN Aligned(e) ELSE e
  IN  [at |-> p,
       segs |-> IF bits = 0 THEN m.segs ELSE Grow(m.segs, p \div 8 - m.at \div 8),
       starts |-> Append(m.starts, StartOf(m.at, bits))]

\* the first k slaves
Placed(st, bitsOf, forceByteAlignment) ==
  LET upto[k \in 0 .. Len(bitsOf)] ==
        IF k = 0 THEN [st EXCEPT !.starts = <<>>]
        ELSE PlaceSlave(upto[k - 1], bitsOf[k], forceByteAlignment)
  IN  upto

\* a byte that is not full is closed behind the last one
MapPart(st, bitsOf, forceByteAlignment) ==
  LET end == Placed(st, bitsOf, forceByteAlignment)[Len(bitsOf)]
  IN  IF end.at % 8 = 0 THEN end
      ELSE [end EXCEPT !.at = Aligned(@), !.segs = Grow(@, 1)]

Fresh == [at |-> 0, segs |-> <<0>>, starts |-> <<>>]

Obits(slaves) == [i \in DOMAIN slaves |-> slaves[i].Obits]
Ibits(slaves) == [i \in DOMAIN slaves |-> slaves[i].Ibits]

\* slaves with outputs, with inputs: each adds to the expected counter once
outputsWKC(slaves) == Cardinality({i \in DOMAIN slaves : slaves[i].Obits # 0})
inputsWKC(slaves)  == Cardinality({i \in DOMAIN slaves : slaves[i].Ibits # 0})

\* all outputs, then all inputs; Isegment counts from 1
ecx_main_config_map_group(slaves, forceByteAlignment) ==
  LET outs == MapPart(Fresh, Obits(slaves), forceByteAlignment)
      ins  == MapPart(outs, Ibits(slaves), forceByteAlignment)
  IN  [outAt |-> outs.starts, inAt |-> ins.starts, inputs |-> 0, IOsegment |-> ins.segs,
       Obytes |-> outs.at \div 8, Ibytes |-> ins.at \div 8 - outs.at \div 8,
       Isegment |-> Len(outs.segs), Ioffset |-> Last(outs.segs), size |-> ins.at \div 8]

\* Outputs and inputs of a slave start at the same logical address.  In the
\* IOmap the inputs are kept behind all outputs: inputs is their distance.
OverlapSlave(m, s) ==
  LET so == Aligned(EndOf(m.at, s.Obits))
      si == Aligned(EndOf(m.at, s.Ibits))
  IN  [at |-> Larger(so, si), so |-> so, si |-> si,
       segs |-> Grow(m.segs, (Larger(so, si) - m.at) \div 8),
       starts |-> Append(m.starts, m.at)]

Overlapped(slaves) ==
  LET upto[k \in 0 .. Len(slaves)] ==
        IF k = 0 THEN [at |-> 0, so |-> 0, si |-> 0, segs |-> <<0>>, starts |-> <<>>]
        ELSE OverlapSlave(upto[k - 1], slaves[k])
  IN  upto

ecx_config_overlap_map_group(slaves) ==
  LET end == Overlapped(slaves)[Len(slaves)]
  IN  [outAt |-> end.starts, inAt |-> end.starts, inputs |-> end.so \div 8,
       IOsegment |-> end.segs, Obytes |-> end.so \div 8, Ibytes |-> end.si \div 8,
       Isegment |-> 1, Ioffset |-> 0, size |-> end.so \div 8 + end.si \div 8]
=============================================================================
