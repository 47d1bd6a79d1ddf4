SPECIFICATION Spec
CONSTANTS
  Threads = {t1, t2}
  Contexts = {c1, c2}
  NoContext = NoContext
  NoThread = NoThread
INVARIANT OkMeansInitialised
