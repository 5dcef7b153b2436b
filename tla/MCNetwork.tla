----------------------------- MODULE MCNetwork -----------------------------
EXTENDS Network

\* the EEPROM of a device: words 8 .. 28 and, from word 64 on, the sections
Word(n) == <<n % 256, n \div 256>>

Section(cat, bytes) == Word(cat) \o Word(Len(bytes) \div 2) \o bytes

Zeros(n) == [i \in 1 .. n |-> 0]

Pdo(sm, bits) == <<0, 26, Len(bits), sm, 0, 0, 0, 0>>
                 \o FlattenSeq([i \in DOMAIN bits |-> <<0, 96, 1, 0, 0, bits[i], 0, 0>>])

Text(k) == Section(ECT_SII_STRING, <<1, Len(k.text)>> \o k.text \o Zeros(Len(k.text) % 2))

General0(k) == Section(ECT_SII_GENERAL, <<0, 0, 0, 0, 0, k.coe, 0, 0, 0, 0, 0, IF k.block THEN 2 ELSE 0, 0, 0, 0, 0>>)

SmSection(k) ==
  Section(ECT_SII_SM, FlattenSeq([i \in DOMAIN k.sms |-> Word(k.sms[i]) \o <<128, 0, 38, 0, 1, 0>>]))

Sections(k) ==
  Text(k) \o General0(k) \o Section(ECT_SII_FMMU, k.fmmus) \o SmSection(k)
  \o (IF k.tx = <<>> THEN <<>> ELSE Section(ECT_SII_PDO, k.tx))
  \o (IF k.rx = <<>> THEN <<>> ELSE Section(ECT_SII_PDO + 1, k.rx))

Header(k) ==
  Zeros(16) \o Word(k.man) \o Zeros(2) \o Word(k.id) \o Zeros(2) \o Word(k.rev) \o Zeros(22)
  \o (IF k.mbx = 0 THEN Zeros(8) ELSE Word(k.sms[1]) \o Word(k.mbx) \o Word(k.sms[2]) \o Word(k.mbx))
  \o Word(k.proto) \o Zeros(70)

Image(k) ==
  LET bytes == Header(k) \o Sections(k) IN [a \in Cells |-> IF a < Len(bytes) THEN bytes[a + 1] ELSE 255]

\* the device, with what a reader of its EEPROM and objects should find
Device(k) ==
  k @@ [image |-> Image(k),
        sm    |-> [n \in 0 .. 3 |-> IF n < Len(k.sms) THEN k.sms[n + 1] ELSE 0],
        func  |-> [n \in 1 .. 4 |-> IF n <= Len(k.fmmus) /\ k.fmmus[n] # 255 THEN k.fmmus[n] ELSE 0],
        name  |-> [i \in 1 .. Min({Len(k.text), EC_MAXNAME}) |-> k.text[i]]]

NoObjects == [smtypes |-> <<>>, assign |-> <<>>, pdos |-> <<>>, drives |-> <<>>]

\* a drive as the demos use it: CoE with complete access, one PDO each way
DriveObjects ==
  [smtypes |-> <<1, 2, 3, 4>>, assign |-> [n \in 0 .. 3 |-> IF n = 2 THEN <<1>> ELSE IF n = 3 THEN <<0, 2>> ELSE <<>>],
   pdos |-> <<<<16, 32, 8>>, <<16, 32>>>>, drives |-> <<>>]

Drive ==
  [man |-> 90, id |-> 33, rev |-> 1, alias |-> 0, dc |-> TRUE, r64 |-> TRUE, needspdi |-> TRUE, block |-> FALSE,
   mbx |-> 128, proto |-> 4, coe |-> 33, sms |-> <<4096, 4224, 4352, 4608>>, fmmus |-> <<1, 2, 3, 255>>,
   text |-> <<65, 66, 67>>, tx |-> <<>>, rx |-> <<>>, od |-> DriveObjects, out |-> 56, in |-> 48, never |-> {},
   fixed |-> [rx |-> <<16, 32>>, tx |-> <<16, 32>>]]

MCKinds ==
  [drive |-> Device(Drive),
   other |-> Device([Drive EXCEPT !.id = 34, !.alias = 7, !.r64 = FALSE, !.coe = 1, !.text = <<70>>,
                                  !.od.smtypes = <<0, 1, 2, 3>>]),
   servo |-> Device([Drive EXCEPT !.id = 35, !.proto = 16, !.coe = 0, !.dc = FALSE, !.needspdi = FALSE,
                                  !.out = 48, !.in = 32,
                                  !.od = [NoObjects EXCEPT !.drives =
                                    <<[mdt |-> <<[list |-> FALSE, length |-> 2], [list |-> TRUE, length |-> 1]>>,
                                       at  |-> <<[list |-> FALSE, length |-> 1]>>]>>]]),
   io    |-> Device([Drive EXCEPT !.id = 36, !.mbx = 0, !.proto = 0, !.coe = 0, !.needspdi = FALSE, !.dc = FALSE,
                                  !.r64 = FALSE, !.block = TRUE, !.sms = <<3840, 4096>>, !.fmmus = <<1, 2>>,
                                  !.text = <<80, 81>>, !.od = NoObjects, !.out = 3, !.in = 12,
                                  !.rx = Pdo(0, <<1, 2>>) \o Pdo(255, <<8>>), !.tx = Pdo(1, <<4, 8>>)]),
   faulty |-> Device([Drive EXCEPT !.id = 38, !.never = {EC_STATE_SAFE_OP}]),
   hub   |-> Device([Drive EXCEPT !.id = 37, !.mbx = 0, !.proto = 0, !.coe = 0, !.needspdi = FALSE, !.dc = FALSE,
                                  !.sms = <<>>, !.fmmus = <<0, 0>>, !.od = NoObjects, !.out = 0, !.in = 0])]

-----------------------------------------------------------------------------
Wires(tree, delay) == [k \in DOMAIN tree |-> [parent |-> tree[k].parent, port |-> tree[k].port, delay |-> delay[k]]]

Line(n) == [k \in 1 .. n |-> [parent |-> k - 1, port |-> 1, delay |-> 1]]

\* a program that brings a network up undisturbed
Net(program, wires, kinds) ==
  [program |-> program, wires |-> wires, kinds |-> kinds, clock |-> 0, spare |-> {},
   adrs |-> [k \in DOMAIN wires |-> 0], trouble |-> 0, cuts |-> 0,
   drive |-> "SW_ON_DISABLED", start |-> 0, goals |-> <<>>, mode |-> "info"]

\* every tree of up to four devices, with and without a clock
Surveys ==
  UNION {{Net("slaveinfo", Wires(t, [k \in 1 .. n |-> k]), kinds) :
            t \in Trees(n), kinds \in [1 .. n -> {"drive", "hub"}]} : n \in 1 .. 4}

Mixed == {Net("slaveinfo", Line(3), kinds) : kinds \in [1 .. 3 -> {"drive", "other", "servo", "io"}]}

\* addresses of an earlier run are still there; one slave too many
Odd ==
  {[Net("slaveinfo", Line(2), <<"drive", "drive">>) EXCEPT !.adrs = <<2, 1>>],
   Net("slaveinfo", Line(EC_MAXSLAVE), [k \in 1 .. EC_MAXSLAVE |-> "io"])}

\* frames are lost and devices lose their power once each, or twice
Watched(program, wires, kinds) == [Net(program, wires, kinds) EXCEPT !.trouble = 1, !.cuts = 1]
Harder(net) == [net EXCEPT !.cuts = 2]

Fork == Wires(<<[parent |-> 0, port |-> 0], [parent |-> 1, port |-> 3], [parent |-> 1, port |-> 1]>>, <<0, 1, 1>>)

Running ==
  {Harder(Watched("red_test", Line(2), <<"drive", "drive">>)),
   [Watched("red_test", Line(2), <<"drive", "drive">>) EXCEPT !.spare = {"servo"}],
   Watched("red_test", Fork, <<"drive", "servo", "io">>),
   [Harder(Watched("red_test", Fork, <<"drive", "servo", "io">>)) EXCEPT !.trouble = 0],
   Watched("simple_test", Line(2), <<"other", "drive">>),
   Watched("eoe_test", Line(1), <<"servo">>)}

Demo0(program, n) ==
  {[Net(program, Line(n), [k \in 1 .. n |-> "drive"]) EXCEPT !.trouble = 1, !.drive = d, !.start = 3] :
     d \in {"SW_ON_DISABLED", "FAULT"}}

Demos0 ==
  {[n EXCEPT !.goals = <<5, 1>>] : n \in Demo0("csp", 1)}
  \cup Demo0("csp_subscriber", 1) \cup Demo0("tc", 1) \cup Demo0("cst", 1) \cup Demo0("pt", 1)
  \cup Demo0("pv", 2) \cup {[n EXCEPT !.goals = <<5>>, !.trouble = 0] : n \in Demo0("pp", 1)}

Stuck == {Net(p, Line(2), <<"drive", "faulty">>) : p \in {"csp", "csv", "pp"}}

Tools == {[Net("eepromtool", Line(1), <<"io">>) EXCEPT !.trouble = 4, !.mode = m] : m \in {"info", "write", "alias"}}

MCPlans == Surveys \cup Mixed \cup Odd \cup Running \cup Demos0 \cup Stuck \cup Tools
           \cup {Net("erob_test", Line(2), <<"drive", "drive">>), Net("erob_test", Line(2), <<"drive", "servo">>)}

\* eRob_CSP_subscriber with one drive and two targets, undisturbed
SubscriberPlans ==
  {[Net("csp_subscriber", Line(1), <<"drive">>) EXCEPT !.goals = <<-4, 5>>, !.start = 3]}
=============================================================================
