SPECIFICATION Spec
CONSTANTS
  Runs = {r1}
  Hours = {h1, h2}
  Payments = {p1, p2, p3}
  NoRow = NoRow
  NoPay = NoPay
  BlockhashTTL = 1
  Grace = 2
  FaultSets = {{"kill"}}
SYMMETRY Symmetry
INVARIANT NeverPaidTwice
