CONSTANTS
    q1 = q1  q2 = q2  c1 = c1  c2 = c2  t1 = t1  t2 = t2
    f1 = f1  f2 = f2  r1 = r1  p1 = p1
    Requests = {q1, q2}
    Dates = {1, 2, 3}
    Clients = {c1, c2}
    Targets = {t1, t2}
    KeyOf <- MCKeyOf
    Flushers = {f1, f2}
    Readers = {r1}
    Pruners = {p1}
    NoProc = NoProc
    FirstDay = 1
    Retention = 1
    MaxExits = 1
SPECIFICATION Spec
INVARIANTS TypeOK CountedAtMostOnce NothingLost DetailMirrorsGlobal NoDoubleCount
PROPERTY ImplementsLedger
