SPECIFICATION Spec
CONSTANTS
  alice = alice
  bob = bob
  c1 = c1
  c2 = c2
  c3 = c3
  Users <- TwoUsers
  Clients <- ThreeClients
  Sender <- BySender
  Key <- ByKey
  Content <- OtherText
  NoKey = "none"
  Marking = {alice}
  Reading = TRUE
  Limit = 1
  MaxTries = 2
  MaxClock = 1
CHECK_DEADLOCK FALSE
INVARIANTS SeqIsTimeline OncePerKey AnswerIsStored NothingMissed
PROPERTY ReadForward
