\* Two threads share two buffers and perform three transactions with one
\* retransmission between them: an index is used again by the same or by
\* the other thread, an answer is stored by the other thread, comes late,
\* comes twice, is lost or given up, and a send fails.
\* With redundancy: a ring of three slaves with any cables cut, two tries,
\* and two frames lost, timers expired or cables changed.
\* On VxWorks: two packet blocks for two threads, so that the network task
\* holds one while the other is posted, and the port closed at any moment.
SPECIFICATION PortSpec
CONSTANTS
  Threads = {t1, t2}
  EC_MAXBUF = 2
  MaxTxn = 3
  MaxResends = 1
  NoThread = NoThread
  NoFrame = NoFrame
  Last = 3
  MaxTries = 2
  MaxUpsets = 2
  Blocks = {b1, b2}
  NoPost = NoPost
INVARIANTS
  TypeOK
  IndexExclusive
  NoIndexLost
  AnswerIsOwn
  AnswerIntact
  AnswerExpected
  RingAnswers
  BlocksKept
PROPERTIES
  ImplementsPool
  EveryTransactionEnds
CHECK_DEADLOCK FALSE
