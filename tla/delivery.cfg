SPECIFICATION Spec
CONSTANTS
  asker = asker
  worker = worker
  Nodes = {asker, worker}
  Reqs = {r1, r2}
  From <- MCFrom
  To <- MCTo
INVARIANTS
  AnswerAfterAck
  DeliveredIsHeld
PROPERTIES
  ImplementsExchange
  EveryRequestEnds
