SPECIFICATION Spec
CONSTANTS
    Name = {n1, n2}
    Tag = {t1, t2}
    Comment = {c1}
    Key = {}
    Val = {}
    Uid = {u1}
    GpgKey = {g1}
    Home = {h1}
    h1 = h1
    h2 = h2
    g1 = g1
    g2 = g2
    g3 = g3
    u1 = u1
    u2 = u2
    DefaultHome = h1
    Homedir = h1
    Keyring <- OneKey
    UidOf <- OneUid
    NoRcd = NoRcd
    NoData = NoData
    Unset = Unset
    NoUid = NoUid
    NoName = NoName
    NoFile = NoFile
    MaxTagged = 2
INVARIANTS
    IndexSound
