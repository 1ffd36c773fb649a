------------------------------- MODULE Balance -------------------------------
(* ink_env Balance (u128) arithmetic shrunk to Width bits.  Whether an    *)
(* overflowing + or * or an underflowing - panics or wraps depends on the *)
(* build's overflow-checks setting, which the repository does not fix;    *)
(* OverflowChecks chooses the build.  A panic reverts the message, so an  *)
(* action that computes x is enabled only where NoOverflow(x) holds.      *)
EXTENDS Integers

CONSTANTS
  Width,           \* bits of Balance (128)
  OverflowChecks   \* TRUE: arithmetic panics on overflow; FALSE: it wraps

ASSUME Width \in Nat \ {0} /\ OverflowChecks \in BOOLEAN

BalanceLimit == 2^Width
Balances == 0..(BalanceLimit - 1)

\* x is the exact result of an operation: it does not panic in this build.
NoOverflow(x) == OverflowChecks => x \in Balances

\* The value the build stores for the exact result x.
Wrap(x) == x % BalanceLimit

AddU(x, y) == Wrap(x + y)
SubU(x, y) == Wrap(x - y)
MulU(x, y) == Wrap(x * y)
==============================================================================
