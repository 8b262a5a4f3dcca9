SPECIFICATION Spec
CONSTANTS
    Producers = {t1, t2}
    Addrs = {a1, a2, a3}
    Null = Null
    MaxPushes = 2
INVARIANTS
    SignaledWhenQueued
