SPECIFICATION Spec
CONSTANTS
  None = None
  sender = sender
  fake1 = fake1
  fake2 = fake2
  far = far
  forged = forged
  Msgs = {}
  Reqs = {r1}
  Calls = {c1}
  Sessions = {sender, fake1, fake2}
  Registrable = {sender}
  Peers = {p1}
  Sender <- MCSender
  Hops <- MCHops
  Target <- MCTarget
  MaxHops = 5
  InboundLimit = 2
  SenderQuota = 2
  MaxRetained = 1
  AnswerQueued = FALSE
INVARIANT NothingOutlivesPending
