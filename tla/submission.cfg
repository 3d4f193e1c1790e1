\* A request and its retry, a reuse of the key, another run, and no key.
SPECIFICATION Spec
CONSTANTS
  first = first retry = retry reuse = reuse elsewhere = elsewhere keyless = keyless
  r1 = r1 r2 = r2 k1 = k1 h1 = h1 h2 = h2
  Null = Null
  Requests = {first, retry, reuse, elsewhere, keyless}
  RunOf <- Runs
  KeyOf <- Keys
  HashOf <- Hashes
\* Every request of the instance ends.
CHECK_DEADLOCK FALSE
INVARIANTS TypeOK OneJobPerKey RepeatsFindTheJob
PROPERTIES ImplementsAtomic
