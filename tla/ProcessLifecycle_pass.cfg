CONSTANTS
    q1 = q1  q2 = q2  c1 = c1  t1 = t1  r1 = r1
    loop = loop  main = main  sig = sig
    Requests = {q1, q2}
    Dates = {1}
    Clients = {c1}
    Targets = {t1}
    KeyOf <- MCKeyOf
    Flushers = {loop, main, sig}
    Readers = {r1}
    Pruners = {}
    NoProc = NoProc
    FirstDay = 1
    Retention = 1
    MaxExits = 1
SPECIFICATION LifeSpec
INVARIANT LossNeedsOverlap
PROPERTY TermEnds
