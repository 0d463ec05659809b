SPECIFICATION Spec
CONSTANTS
    good = good
    bad = bad
    setid = setid
    Body = {good, bad, setid}
    Good = {good, setid}
    WithoutSetId <- MCWithoutSetId
    Owner = {root, svc}
    Self = root
    NoOwner = NoOwner
    Target = {t, u}
    Cn = {c, d}
    Name <- MCName
    Stamp <- MCStamp
    Keep = 1
    Torn = Torn
    NoFile = NoFile
    MaxApplies = 3
    MaxEvents = 2
INVARIANTS ResultHonest BackupFirst BackupsBounded CheckedOnly PairKept
PROPERTY Preserved
CHECK_DEADLOCK FALSE
