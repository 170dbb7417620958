\* Half-second ticks, a window of two seconds, two workers; the clock is set
\* back twice.
CONSTANTS
    Workers = {w1, w2}
    Ips = {ip}
    DefaultRpm = 2
    Rpms = {0, 1}
    Second = 2
    Seconds = 2
    MaxBack = 2
    None = None
    Unreadable = Unreadable
SPECIFICATION FairSpec
INVARIANTS LimitIsExact
PROPERTIES ServedAgain
