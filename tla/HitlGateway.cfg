\* Three callbacks race with each other and with the awaiter of one card.
SPECIFICATION Spec
CONSTANTS
  c1 = c1
  c2 = c2
  t1 = t1
  Cards = {c1}
  Tasks = {t1}
  TaskOf <- OneTaskOf
  Callers = {k1, k2, k3}
  Timeout = 2
  NoCard = NoCard
  NoVerdict = NoVerdict
INVARIANTS TypeOK AcceptedAnswersHeard TimelyCardsAnswerable
PROPERTY CardsSettle
CHECK_DEADLOCK FALSE
