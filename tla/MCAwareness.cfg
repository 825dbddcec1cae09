SPECIFICATION FairSpec
CONSTANTS
  Caller = {p, q}
  Timer = t
  Actor = {a}
  Remote = {b, b2}
  Leaving = {b}
  State = {st}
  Invalid = {}
  Offline = off
  Subscriber = {u, v}
  MaxSubscribers = 2
  MaxActors = 2
  Timeout = 1
  MaxClock = 2
  MaxTime = 2
  MaxCalls = 3
PROPERTIES OnlyNewerRevives SettledView
CHECK_DEADLOCK FALSE
