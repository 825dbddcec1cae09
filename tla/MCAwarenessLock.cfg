SPECIFICATION FairSpec
CONSTANTS
  Caller = {p, q}
  Timer = t
  Actor = {a}
  Remote = {b, b2}
  Leaving = {b}
  State = {st, bad}
  Invalid = {bad}
  Offline = off
  Subscriber = {u}
  MaxSubscribers = 1
  MaxActors = 2
  Timeout = 1
  MaxClock = 2
  MaxTime = 2
  MaxCalls = 3
PROPERTY EveryCallReturns
CHECK_DEADLOCK FALSE
