SPECIFICATION Spec
CONSTANTS
    Proc = {p1, p2}
    Path = {f, x}
    DbPath = {f}
    ExPath = {x}
    Name = {n1}
    n1 = n1
    Store = {s0, s1}
    s1 = s1
    EmptyStore = s0
    Uid = {u1}
    u1 = u1
    NoUid = NoUid
    Home = {h1, h2}
    h1 = h1
    h2 = h2
    DefaultHome = h1
    GpgKey = {k1, k2, k3}
    k1 = k1
    k2 = k2
    k3 = k3
    UidOf <- MCUidOf
    Signing = {k1, k3}
    Keyring <- MCKeyring
    Secret <- MCSecret
    MayExpire = {k1, k3}
    NoRcd = NoRcd
    NoFile = NoFile
    Torn = Torn
    NoJob = NoJob
    Given <- MCGiven
SYMMETRY Symmetry
INVARIANTS
    NoClearStore
    OwnerCanRead
    IInv
PROPERTIES
    RecryptReaders
    WarnedNeverSaves
    ImportOntoNothing
    ArchiveSpec
