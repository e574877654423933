CONSTANTS
    User = {a, b}
    Session = {s1, s2}
    Request = {r1, r2}
    None = None
    Share = {h}
SPECIFICATION SharesSpec
SYMMETRY Symmetry
PROPERTY RevokedStaysRevoked
