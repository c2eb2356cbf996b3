SPECIFICATION Spec
CONSTANTS
    Name = {n1, n2}
    Tag = {t1}
    Comment = {c1}
    Key = {k1}
    Val = {v1}
    Uid = {u1, u2}
    GpgKey = {g1, g2, g3}
    Home = {h1, h2}
    h1 = h1
    h2 = h2
    g1 = g1
    g2 = g2
    g3 = g3
    u1 = u1
    u2 = u2
    DefaultHome = h1
    Homedir = h1
    Keyring <- MCKeyring
    UidOf <- MCUidOf
    NoRcd = NoRcd
    NoData = NoData
    Unset = Unset
    NoUid = NoUid
    NoName = NoName
    NoFile = NoFile
    MaxTagged = 2
SYMMETRY Symmetry
INVARIANTS
    NoEmptyTag
    FlagsTell
    IInv
PROPERTIES
    DanglingOnlyFromRetag
    VaultSpec
