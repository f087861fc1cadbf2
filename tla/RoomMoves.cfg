SPECIFICATION Spec

CONSTANTS
    r1 = r1  s1 = s1  s2 = s2  k1 = k1  k2 = k2
    RoomIds = {r1, r2}
    Sessions = {s1, s2}
    Labels = {"Hall", "hall", "Expo"}
    Normal <- MCNormal
    Devices = {d1, d2}
    Enrolled = {d1, d2}
    Requests = {q1, q2}
    Writers = {k1, k2}
    Snapshots <- MCSnapshots
    Contents <- MCContents
    MaxNow = 2
    NoRoom = NoRoom
    NoDevice = NoDevice
    Direct = Direct

    Secrets = {x1, x2, x3, x4}
    NoSecret = NoSecret
    MaxChanges = 5
    MaxLosses = 2

    i1 = i1  i2 = i2  v1 = v1  b1 = b1
    Individuals = {i1, i2}
    Occasions = {v1}
    Sites = {site}
    Sweeps = {b1}
    Enlisted <- MCEnlisted
    NoTarget = NoTarget
    MaxAttempts = 2
    MaxPushes = 2
    MaxRequeues = 1

    t1 = t1  f1 = f1
    Talks = {t1, t2, t3}
    SharedTalks = {t1}
    Identifier <- MCIdentifier
    MediaIds = {f1, f2}
    MaxVersions = 3
    MaxFeed = 2

    PushSize = 3
    PushBlock = 2
    MaxPushAttempts = 2
    MaxPushFaults = 2
    MaxPushRetries = 1

    w1 = w1
    Paths = {path}
    MaxStamps = 2
    ShareWorkers = {w1, w2}
    MaxScans = 2
    MaxShareAttempts = 2
    MaxDrops = 3
    MaxShareFaults = 1

    Decks = {1, 2, 3}
    Namings <- MCNamings
    IdPrefix <- MCIdPrefix
    Halls = {1}
    MaxViewAttempts = 2
    MaxDeckChanges = 1
    MaxViewFaults = 1


CHECK_DEADLOCK FALSE
INVARIANT UpcomingMoves
