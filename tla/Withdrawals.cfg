SPECIFICATION WithdrawalSpec
CONSTANTS
    Wallets = {w1}
    NoWallet = NoWallet
    Total = 4
    Buffer = 1
    MinRoute = 2
    Steps = {2}
    Payouts = {1}
    MaxInits = 2
    MaxLate = 1
    Plans = {p1, p2, p3}
    Instances = {page}
INVARIANT
    ListedIsReal
PROPERTIES
    SweptInTheEnd
    ListOnlyGrows
\* All plans are requested and over.
CHECK_DEADLOCK FALSE
