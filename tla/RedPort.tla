------------------------------ MODULE RedPort ------------------------------
(***************************************************************************)
(* The network port in its redundant mode (oshw/linux/nicdrv.c): both ends *)
(* of the line of slaves are connected, the primary socket sends the       *)
(* datagrams and the secondary one a dummy, and from which of the two      *)
(* comes back at which socket ecx_waitinframe_red tells whether the line   *)
(* is cut, and sends again so that all slaves are reached.                 *)
(*                                                                         *)
(* One thread; what several do to each other is module NicPort.  Each      *)
(* transaction has its own index: what is left of earlier ones is dropped  *)
(* by ecx_inframe when it is read, and not kept here.                      *)
(*                                                                         *)
(* A datagram is known by the slaves that have processed it.               *)
(***************************************************************************)
EXTENDS Integers, FiniteSets

CONSTANTS
  Last,       \* the number of slaves
  MaxTries,   \* bound: how often ecx_srconfirm sends before timer1 expires
  MaxUpsets   \* bound: frames lost, timers expired too early, cables cut or mended

ASSUME RedAssumption == Last \in Nat \ {0} /\ MaxTries \in Nat \ {0} /\ MaxUpsets \in Nat

Ring   == 1 .. Last
\* cable s is that behind slave s; 0 is the one to the primary socket
Cables == 0 .. Last

VARIABLES
  cut,       \* environment: cables that are cut
  line,      \* frames travelling, or in a socket and not yet read
  stacks,    \* what the primary (0) and the secondary (1) stack have received
  txdata,    \* slaves that have processed what is in txbuf
  place,     \* where the master is
  confirm,   \* ecx_srconfirm, which tries again, or a single ecx_waitinframe
  tries,     \* how often the datagram was sent from the start
  answer,    \* what the caller gets
  upsets,    \* upsets so far
  troubles,  \* history: the kinds of upsets during this transaction
  recabled   \* history: how often cables changed during it

redvars == <<cut, line, stacks, txdata, place, confirm, tries, answer, upsets, troubles, recabled>>

\* from: the socket it was sent from first, by its MAC address; by: the slaves that
\* have processed it; twice: one of them more than once
Frame(at, from, by, nth) == [at |-> at, from |-> from, by |-> by, twice |-> FALSE, nth |-> nth]

Nothing == Frame("none", "none", {}, 0)

RedInit ==
  /\ cut \in SUBSET Cables
  /\ line = {}
  /\ stacks = [k \in 0 .. 1 |-> Nothing]
  /\ txdata = {}
  /\ place = "idle"
  /\ confirm = FALSE
  /\ tries = 0
  /\ answer = Nothing
  /\ upsets = 0 /\ troubles = {} /\ recabled = 0

Upset(kind) == upsets < MaxUpsets /\ upsets' = upsets + 1 /\ troubles' = troubles \cup {kind}

-----------------------------------------------------------------------------
(***************************************************************************)
(* The ring: a frame sent from the primary socket meets the slaves in      *)
(* order and turns round at the first cable that is cut.  One sent from    *)
(* the secondary socket passes them unprocessed and is processed on its    *)
(* way back, by those behind the last cut; without a cut it is not         *)
(* processed at all.                                                       *)
(***************************************************************************)
InFront == {s \in Ring : \A c \in cut : s <= c}
Behind  == {s \in Ring : cut # {} /\ \A c \in cut : s > c}

Processed(f, at, slaves) ==
  [f EXCEPT !.at = at, !.by = f.by \cup slaves, !.twice = f.twice \/ f.by \cap slaves # {}]

Arrived(f) ==
  CASE f.at = "out0" -> Processed(f, IF cut = {} THEN "in1" ELSE "in0", InFront)
    [] f.at = "out1" -> Processed(f, IF cut = {} THEN "in0" ELSE "in1", Behind)

LinkDown(f) == \/ f.at = "out0" /\ 0 \in cut
               \/ f.at = "out1" /\ Last \in cut

Travel ==
  /\ \E f \in line : /\ f.at \in {"out0", "out1"}
                     /\ line' = (line \ {f}) \cup (IF LinkDown(f) THEN {} ELSE {Arrived(f)})
  /\ UNCHANGED <<cut, stacks, txdata, place, confirm, tries, answer, upsets, troubles, recabled>>

\* a frame is lost, or send() fails, which nobody looks at
LoseRing ==
  /\ \E f \in line : line' = line \ {f}
  /\ Upset("lost")
  /\ UNCHANGED <<cut, stacks, txdata, place, confirm, tries, answer, recabled>>

CutOrMend ==
  /\ \E c \in Cables : cut' = IF c \in cut THEN cut \ {c} ELSE cut \cup {c}
  /\ Upset("cable")
  /\ recabled' = recabled + 1
  /\ UNCHANGED <<line, stacks, txdata, place, confirm, tries, answer>>

-----------------------------------------------------------------------------
\* ecx_outframe_red, and the stacks wait for their answers
Sent(data, earlier) ==
  /\ line' = earlier \cup {Frame("out0", "primary", data, 2 * tries'),
                           Frame("out1", "secondary", {}, 2 * tries')}
  /\ stacks' = [k \in 0 .. 1 |-> Nothing]
  /\ place' = "both"

\* a caller has written its datagram into txbuf
SendRed ==
  /\ place = "idle"
  /\ confirm' \in BOOLEAN
  /\ tries' = 1
  /\ txdata' = {}
  /\ Sent({}, {})
  /\ answer' = Nothing
  /\ troubles' = {} /\ recabled' = 0
  /\ UNCHANGED <<cut, upsets>>

\* ecx_inframe on one of the sockets, if that stack still waits
ReadStack(k) ==
  /\ stacks[k] = Nothing
  /\ place = "both" \/ (place = "resent" /\ k = 1)
  /\ \E f \in line : /\ f.at = (IF k = 0 THEN "in0" ELSE "in1")
                     /\ line' = line \ {f}
                     /\ stacks' = [stacks EXCEPT ![k] = f]
  /\ UNCHANGED <<cut, txdata, place, confirm, tries, answer, upsets, troubles, recabled>>

\* a loop over ecx_inframe ends: all is in, or the timer has expired, which is an
\* upset where a frame is still to come
WaitEnds(all) ==
  \/ all /\ UNCHANGED <<upsets, troubles>>
  \/ ~all /\ line = {} /\ UNCHANGED <<upsets, troubles>>
  \/ ~all /\ line # {} /\ Upset("late")

From(k) == stacks[k].from

\* the secondary socket got the dummy back: the line is cut
Torn == From(1) = "secondary" /\ From(0) \in {"none", "primary"}

\* variant: the datagram starts again from the secondary socket as it was
CombinedAfresh == txdata

\* the datagram goes on from where the first part of the line returned it
Combined == IF From(0) = "primary" THEN stacks[0].by ELSE txdata

Answers(f) == answer' = f /\ place' = "done"

\* both frames went all the way round: the answer is at the secondary socket
TakeSwapped ==
  /\ place = "both" /\ WaitEnds(From(0) # "none" /\ From(1) # "none")
  /\ From(0) = "secondary" /\ From(1) = "primary"
  /\ Answers(stacks[1])
  /\ UNCHANGED <<cut, line, stacks, txdata, confirm, tries, recabled>>

SendOn ==
  /\ place = "both" /\ WaitEnds(From(0) # "none" /\ From(1) # "none")
  /\ Torn
  /\ txdata' = Combined
  /\ line' = line \cup {Frame("out1", "primary", Combined, 2 * tries + 1)}
  /\ stacks' = [stacks EXCEPT ![1] = Nothing]
  /\ place' = "resent"
  /\ UNCHANGED <<cut, confirm, tries, answer, recabled>>

\* whatever else was received: the primary stack's answer, if it has one
TakePrimary ==
  /\ place = "both" /\ WaitEnds(From(0) # "none" /\ From(1) # "none")
  /\ ~Torn /\ ~(From(0) = "secondary" /\ From(1) = "primary")
  /\ Answers(stacks[0])
  /\ UNCHANGED <<cut, line, stacks, txdata, confirm, tries, recabled>>

\* the answer to what was sent on, or else what the primary stack had before
TakeResent ==
  /\ place = "resent" /\ WaitEnds(From(1) # "none")
  /\ Answers(IF From(1) # "none" THEN stacks[1] ELSE stacks[0])
  /\ UNCHANGED <<cut, line, stacks, txdata, confirm, tries, recabled>>

\* ecx_srconfirm sends again what is in txbuf now
RetryRed ==
  /\ place = "done" /\ answer = Nothing /\ confirm /\ tries < MaxTries
  /\ tries' = tries + 1
  /\ Sent(txdata, line)
  /\ UNCHANGED <<cut, txdata, confirm, answer, upsets, troubles, recabled>>

\* the call returns
ReturnRed ==
  /\ place = "done"
  /\ place' = "idle" /\ line' = {}
  /\ UNCHANGED <<cut, stacks, txdata, confirm, tries, answer, upsets, troubles, recabled>>

RedNext ==
  \/ SendRed \/ (\E k \in 0 .. 1 : ReadStack(k))
  \/ TakeSwapped \/ SendOn \/ TakePrimary \/ TakeResent \/ RetryRed \/ ReturnRed
  \/ Travel \/ LoseRing \/ CutOrMend

RedSpec == RedInit /\ [][RedNext]_redvars

-----------------------------------------------------------------------------
Spots == {"out0", "out1", "in0", "in1"}

RingFrames == [at : Spots, from : {"primary", "secondary"}, by : SUBSET Ring, twice : BOOLEAN, nth : Nat]

\* The types of the variables.
RedTypeOK ==
  /\ cut \subseteq Cables
  /\ line \subseteq RingFrames
  /\ stacks \in [0 .. 1 -> RingFrames \cup {Nothing}]
  /\ txdata \subseteq Ring
  /\ place \in {"idle", "both", "resent", "done"}
  /\ confirm \in BOOLEAN
  /\ tries \in 0 .. MaxTries
  /\ answer \in RingFrames \cup {Nothing}
  /\ upsets \in 0 .. MaxUpsets /\ recabled \in 0 .. upsets
  /\ troubles \subseteq {"lost", "late", "cable"}

OneCut == \A c, d \in cut : c = d

\* Wherever a single cable is cut, and also with none, the caller gets its own
\* datagram and every slave has processed it, as long as nothing is lost or late and
\* no cable changes meanwhile.
CutSurvived ==
  place = "done" /\ troubles = {} /\ OneCut => answer.from = "primary" /\ answer.by = Ring

\* No slave processes twice the datagram the caller gets, unless the cables changed
\* twice: what the first part of the line returned goes on to the others only.
OnceEach ==
  place = "done" /\ recabled <= 1 => ~answer.twice

\* Where the dummy comes back as the answer no slave has counted it, unless one of an
\* earlier try was late: the caller takes it for a datagram no slave answered.
DummyUncounted ==
  place = "done" /\ answer.from = "secondary" /\ "late" \notin troubles => answer.by = {}

\* What ecx_waitinframe_red makes of the two frames it receives or misses is an
\* answer of the whole line, in all three respects.
RingAnswers == CutSurvived /\ OnceEach /\ DummyUncounted

-----------------------------------------------------------------------------
(***************************************************************************)
(* The inductive invariant behind RingAnswers.                             *)
(***************************************************************************)
Data(f)  == f.from = "primary"
Dummy(f) == f.from = "secondary"

\* what is in txbuf is what the primary stack received
TxInv ==
  /\ place = "both" => txdata = {}
  /\ place = "resent" => ~Dummy(stacks[0]) /\ txdata = stacks[0].by
  /\ place = "done" /\ answer = Nothing => txdata = {}

\* frames that have not passed the slaves, or not in their direction
FreshInv ==
  /\ \A f \in line : /\ f.at = "out0" => Data(f) /\ f.by = {}
                     /\ (f.at = "in0" \/ f.at = "out1") /\ Dummy(f) => f.by = {}
  /\ Dummy(stacks[0]) => stacks[0].by = {}

\* A part of the line has processed by: the slaves in front of the cuts, and still
\* none behind them after one change.
Part(by) ==
  /\ recabled = 0 /\ by # {} => cut # {} /\ by \subseteq InFront
  /\ recabled = 1 => by \cap Behind = {}

OnceInv ==
  recabled <= 1 =>
    /\ \A f \in line : /\ ~f.twice
                       /\ f.at = "out1" \/ (f.at = "in0" /\ Data(f)) => Part(f.by)
    /\ ~stacks[0].twice /\ ~stacks[1].twice /\ ~answer.twice
    /\ Data(stacks[0]) => Part(stacks[0].by)

\* there is one dummy, and none once it is back
DummyInv ==
  "late" \notin troubles =>
    /\ place = "both" => \A f \in line : Dummy(f) => /\ ~Dummy(stacks[0]) /\ ~Dummy(stacks[1])
                                                   /\ \A g \in line : Dummy(g) => f = g
    /\ place = "resent" => ~Dummy(stacks[1]) /\ \A f \in line : ~Dummy(f)
    /\ place = "done" /\ answer = Nothing => line = {}
    /\ place = "done" /\ Dummy(answer) => answer.by = {}

\* where a frame is tells how it got there
Comes(f) ==
  /\ f.at = "out1" /\ Data(f) => place # "both" /\ cut # {} /\ f.by = InFront
  /\ f.at = "in0" => IF Data(f) THEN cut # {} /\ f.by = InFront ELSE cut = {}
  /\ f.at = "in1" => IF Data(f) THEN f.by = Ring /\ (place = "both" => cut = {})
                     ELSE cut # {} /\ Last \notin cut

Somewhere(Is(_)) == (\E f \in line : Is(f)) \/ Is(stacks[0]) \/ Is(stacks[1])

CalmInv ==
  troubles = {} /\ OneCut =>
    /\ \A f \in line : Comes(f)
    /\ place \in {"both", "resent"} => \A k \in 0 .. 1 : stacks[k] # Nothing => Comes(stacks[k])
    /\ place = "both" => (0 \in cut \/ Somewhere(Data)) /\ (Last \in cut \/ Somewhere(Dummy))
    /\ place = "resent" => /\ cut # {} /\ Last \notin cut
                           /\ \/ \E f \in line : Data(f) /\ f.at \in {"out1", "in1"}
                              \/ Data(stacks[1])
    /\ place = "done" => Data(answer) /\ answer.by = Ring

Spotted ==
  /\ stacks[0] # Nothing => stacks[0].at = "in0"
  /\ stacks[1] # Nothing => stacks[1].at = "in1"

RedInv == RedTypeOK /\ Spotted /\ TxInv /\ FreshInv /\ OnceInv /\ DummyInv /\ CalmInv
=============================================================================
