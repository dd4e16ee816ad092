SPECIFICATION Spec
CONSTANTS
  None = None
  sender = sender
  fake1 = fake1
  fake2 = fake2
  far = m2
  forged = m3
  Msgs = {m1, m2, m3}
  Reqs = {r1, r2}
  Calls = {c1, c2}
  Sessions = {sender, fake1, fake2}
  Registrable = {sender}
  Peers = {p1}
  Sender <- MCSender
  Hops <- MCHops
  Target <- MCTarget
  MaxHops = 5
  InboundLimit = 2
  SenderQuota = 1
  MaxRetained = 1
  AnswerQueued = FALSE
SYMMETRY Symmetry
INVARIANTS
  TypeOK
  EveryRequestReachable
  NoSleepThrough
  WakeCountFresh
  SlotsMatchPending
  RetainedExactly
  EveryPendingTimed
  NoLostReply
  NoLostHandoff
  SendersBounded
PROPERTIES
  ImplementsMailbox
  ImplementsRetention
