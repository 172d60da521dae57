\* Three events through a queue of one to a file and a remote observer, two Closes.
SPECIFICATION FairSpec
CONSTANTS
  e1 = e1  e2 = e2  e3 = e3  k1 = k1  k2 = k2
  Events = {e1, e2, e3}
  NoEvent = NoEvent
  Closers = {k1, k2}
  NumObservers = 2
  FileObservers <- MCFileObservers
  QueueSize = 1
INVARIANTS TypeOK OfferedInOrder CloseFlushes
PROPERTIES AcceptedIsOffered CallsReturn ImplementsContract
