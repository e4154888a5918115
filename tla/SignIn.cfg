SPECIFICATION Spec
CONSTANTS
    Requests = {r1, r2, r3}
    Nonces = {n1, n2, n3}
    Wallets = {w1, w2}
    Users = {u1, u2, u3}
    None = None
    Conflicts = {"bare", "wrapped"}
    MaxExpiries = 1
SYMMETRY Alike
CHECK_DEADLOCK FALSE
INVARIANTS
    NonceSignsInOnce
    OneUserPerWallet
