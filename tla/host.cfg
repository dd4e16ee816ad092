SPECIFICATION AgentLoopSpec
CONSTANTS
  None = None
  sender = sender
  fake1 = fake1
  fake2 = fake2
  far = far
  forged = forged
  Msgs = {m1, m2}
  Reqs = {}
  Calls = {c1, c2, c3}
  Sessions = {sender, fake1, fake2}
  Registrable = {sender}
  Peers = {p1}
  Sender <- MCSender
  Hops <- MCHops
  Target <- MCTarget
  MaxHops = 5
  InboundLimit = 2
  SenderQuota = 2
  MaxRetained = 1
  AnswerQueued = TRUE
PROPERTIES
  ImplementsMailbox
  RequestSeen
