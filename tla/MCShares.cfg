CONSTANTS
    User = {a, b}
    Session = {s1, s2, s3}
    Request = {r1, r2}
    None = None
    Share = {h}
SPECIFICATION SharesSpec
SYMMETRY Symmetry
INVARIANTS
    SharesTypeOK
    AccountsTypeOK
    ExactlyOneAdmin
    LateSessionsBounded
    DisabledAreOut
PROPERTY RevokedUnlessRead
