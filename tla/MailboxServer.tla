--------------------------- MODULE MailboxServer ---------------------------
(***************************************************************************)
(* The servers of a slave, as its side of the mailbox protocols has them.  *)
(* None of this is code of the repository: it is what the procedures of    *)
(* the master expect to talk to.  A server keeps one transfer, srv, and    *)
(* answers a mailbox with a sequence of mailboxes, each of which fits the  *)
(* rl bytes of SM1.                                                        *)
(***************************************************************************)
EXTENDS Coe, Foe, Soe, SequencesExt

NoTransfer ==
  [of |-> <<"none", 0>>, got |-> 0, toggle |-> FALSE, packet |-> 0, whole |-> TRUE, ended |-> FALSE]

Missing(m) == ObjSize[m.obj] = 0

\* a transfer of the object a mailbox is about
Opened(m, bytes) == [NoTransfer EXCEPT !.of = <<m.obj, m.sub>>, !.got = bytes]

\* bytes of a write arrive
Taken(srv, m, bytes) ==
  [srv EXCEPT !.got = @ + bytes, !.whole = @ /\ (bytes = 0 \/ m.off = srv.got)]

Served(srv, answers) == [srv |-> srv, answers |-> answers]

CoeAnswer(cmd, fields) ==
  Over(fields, [type |-> "coe", service |-> "sdores", cmd |-> cmd, kind |-> "none", obj |-> "none", sub |-> 0,
                off |-> 0, exp |-> FALSE, last |-> FALSE, unused |-> 0, left |-> 0, op |-> "none"])

Abort == CoeAnswer("abort", [service |-> "sdoreq", of |-> <<"none", 0>>, length |-> 10, total |-> 0])

ServeUpload(m, rl) ==
  LET total == ObjSize[m.obj]
      len   == Lesser(total, rl - 16)
  IN  IF Missing(m) THEN Served(NoTransfer, <<Abort>>)
      ELSE Served(Opened(m, len),
                  <<CoeAnswer("up", [obj |-> m.obj, sub |-> m.sub, of |-> <<m.obj, m.sub>>,
                       exp |-> total <= 4, total |-> total, length |-> 10 + (IF total <= 4 THEN 0 ELSE len)])>>)

ServeUploadSegment(srv, m, rl) ==
  LET rest == ObjSize[m.obj] - srv.got
      len  == Lesser(rest, rl - 9)
  IN  IF rest <= 0 \/ m.toggle # srv.toggle THEN Served(NoTransfer, <<Abort>>)
      ELSE Served([srv EXCEPT !.got = @ + len, !.toggle = ~@],
                  <<CoeAnswer("seg", [of |-> srv.of, off |-> srv.got, total |-> 0, last |-> rest = len,
                       length |-> 3 + (IF len < 7 THEN 7 ELSE len), unused |-> IF len < 7 THEN 7 - len ELSE 0])>>)

ServeDownload(m) ==
  IF Missing(m) THEN Served(NoTransfer, <<Abort>>)
  ELSE Served([Opened(m, IF m.exp THEN m.total ELSE m.length - 10)
               EXCEPT !.ended = m.exp \/ m.length - 10 = m.total],
              <<CoeAnswer("down", [obj |-> m.obj, sub |-> m.sub, of |-> <<m.obj, m.sub>>,
                                   total |-> 0, length |-> 10])>>)

ServeDownloadSegment(srv, m) ==
  IF m.toggle # srv.toggle \/ srv.of[1] # m.obj THEN Served(NoTransfer, <<Abort>>)
  ELSE Served([Taken(srv, m, m.length - 3 - m.unused) EXCEPT !.toggle = ~@, !.ended = m.last],
              <<CoeAnswer("segdown", [of |-> srv.of, total |-> 0, length |-> 10])>>)

\* the list of objects in as many fragments as it needs, or one description
ServeInfo(m, rl) ==
  LET Fragment(i) == (rl - IF i = 1 THEN 14 ELSE 12) \div 2    \* entries that fit
      Before(i)   == IF i = 1 THEN 0 ELSE Fragment(1) + (i - 2) * Fragment(2)
      count       == CHOOSE n \in 1 .. ObjSize[m.obj] :
                       Before(n) < ObjSize[m.obj] /\ ObjSize[m.obj] <= Before(n + 1)
  IN  IF Missing(m)
      THEN <<CoeAnswer("infoerror", [service |-> "sdoinfo", of |-> <<"none", 0>>, length |-> 10, total |-> 0])>>
      ELSE IF m.cmd # "ODlist"
      THEN <<CoeAnswer(m.cmd, [service |-> "sdoinfo", of |-> <<m.obj, m.sub>>, length |-> (IF m.cmd = "OEsingle" THEN 16 ELSE 12) + ObjSize[m.obj],
                               total |-> 0])>>
      ELSE [i \in 1 .. count |->
              CoeAnswer("ODlist", [service |-> "sdoinfo", of |-> <<m.obj, m.sub>>, off |-> Before(i),
                 total |-> 0, left |-> count - i,
                 length |-> (IF i = 1 THEN 8 ELSE 6)
                            + 2 * (Lesser(ObjSize[m.obj], Before(i + 1)) - Before(i))])]

ServeCoe(srv, m, rl) ==
  CASE m.kind = "up"      -> ServeUpload(m, rl)
    [] m.kind = "segup"   -> ServeUploadSegment(srv, m, rl)
    [] m.kind = "down"    -> ServeDownload(m)
    [] m.kind = "segdown" -> ServeDownloadSegment(srv, m)
    [] m.kind = "rxpdo"   -> Served(Opened([obj |-> m.obj, sub |-> 0], m.len), <<>>)
    [] m.kind = "txpdo"   -> Served(NoTransfer, <<CoeAnswer("pdo", [service |-> "txpdo", of |-> <<m.obj, m.sub>>,
                                                   total |-> 0, length |-> 2 + ObjSize[m.obj]])>>)
    [] OTHER              -> Served(NoTransfer, ServeInfo(m, rl))

FoeAnswer(fields) ==
  Over(fields, [type |-> "foe", cmd |-> "none", service |-> "none", kind |-> "none", packet |-> 0,
                len |-> 0, off |-> 0, of |-> <<"none", 0>>])

FoeData(srv, total, rl) ==
  LET len == Lesser(total - srv.got, rl - 12)
  IN  Served([srv EXCEPT !.got = @ + len, !.packet = @ + 1, !.ended = len < rl - 12],
             <<FoeAnswer([op |-> "data", packet |-> srv.packet + 1, len |-> len, off |-> srv.got, of |-> srv.of])>>)

FoeAck(srv) == Served(srv, <<FoeAnswer([op |-> "ack", packet |-> srv.packet])>>)

ServeFoe(srv, m, busy, rl) ==
  CASE m.op \in {"read", "write"} /\ Missing(m) -> Served(NoTransfer, <<FoeAnswer([op |-> "error"])>>)
    [] m.op = "read"  -> FoeData(Opened(m, 0), ObjSize[m.obj], rl)
    [] m.op = "ack"   -> IF srv.ended \/ m.packet # srv.packet THEN Served(srv, <<>>)
                         ELSE FoeData(srv, ObjSize[m.obj], rl)
    [] m.op = "write" -> FoeAck(Opened(m, 0))
    [] OTHER -> IF busy THEN Served(srv, <<FoeAnswer([op |-> "busy"])>>)
                ELSE IF m.packet # srv.packet + 1 THEN Served(srv, <<FoeAnswer([op |-> "error"])>>)
                ELSE FoeAck([Taken(srv, m, m.len) EXCEPT !.packet = @ + 1, !.ended = m.len < MaxPacket])

SoeAnswer(op, fields) ==
  Over(fields, [type |-> "soe", op |-> op, cmd |-> "none", service |-> "none", kind |-> "none", error |-> FALSE,
                incomplete |-> FALSE, len |-> 0, off |-> 0, of |-> <<"none", 0>>])

ServeSoe(srv, m, rl) ==
  LET total == ObjSize[m.obj]
      room  == rl - 10
      count == (total + room - 1) \div room
      taken == IF srv.of = <<m.obj, m.sub>> THEN Taken(srv, m, m.len) ELSE Taken(Opened(m, 0), m, m.len)
  IN  IF Missing(m)
      THEN Served(NoTransfer, <<SoeAnswer(IF m.op = "readreq" THEN "readres" ELSE "writeres",
                                          [sub |-> m.sub, error |-> TRUE])>>)
      ELSE IF m.op = "readreq"
      THEN Served(NoTransfer, [i \in 1 .. count |->
             SoeAnswer("readres", [sub |-> m.sub, of |-> <<m.obj, m.sub>>, off |-> (i - 1) * room,
                                   len |-> Lesser(total - (i - 1) * room, room),
                                   incomplete |-> i < count])])
      ELSE Served([taken EXCEPT !.ended = ~m.incomplete],
                  IF m.incomplete THEN <<>> ELSE <<SoeAnswer("writeres", [sub |-> m.sub])>>)

EoeAnswer(fields) ==
  Over(fields, [type |-> "eoe", cmd |-> "none", service |-> "none", op |-> "none", len |-> 8])

\* the parameters of the network: two addresses and three more, and for sub 1 a name
IpNeed(sub) == IF sub = 1 THEN 58 ELSE 26

ServeEoe(srv, m) ==
  CASE m.kind = "setip" -> Served(NoTransfer, <<EoeAnswer([kind |-> "initresp", result |-> IF Missing(m) THEN 2 ELSE 0])>>)
    [] m.kind = "getip" -> Served(NoTransfer, <<EoeAnswer([kind |-> "getipresp", len |-> ObjSize[m.obj], need |-> IpNeed(m.sub)])>>)
    [] OTHER -> Served([Taken(IF m.frag = 0 THEN Opened([obj |-> m.of[1], sub |-> m.of[2]], 0) ELSE srv, m, m.len)
                         EXCEPT !.ended = m.last], <<>>)

Serve(srv, m, busy, rl) ==
  CASE m.type = "coe" -> ServeCoe(srv, m, rl)
    [] m.type = "foe" -> ServeFoe(srv, m, busy, rl)
    [] m.type = "soe" -> ServeSoe(srv, m, rl)
    [] OTHER          -> ServeEoe(srv, m)
=============================================================================
