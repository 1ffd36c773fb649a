-------------------------------- MODULE Erc20 --------------------------------
(***************************************************************************)
(* The erc20 ink! contract (src/contracts/erc20/lib.rs): balances,        *)
(* allowances, role bit flags and the pause switch.  Each message is one  *)
(* action whose first parameter is env().caller(); a message returning    *)
(* Err is reverted, so its error paths are states where it is disabled.   *)
(* Balance arithmetic is that of module Balance.                          *)
(***************************************************************************)
EXTENDS Balance, FiniteSets, Functions

CONSTANTS
  Accounts,        \* AccountId values, ZeroAccount among them
  ZeroAccount,     \* ZERO_ACCOUNT
  Deployer,        \* caller of the constructor new(initial_supply)
  InitialSupplies, \* initial_supply values the constructor may get
  Amounts          \* values a message may carry

ASSUME ZeroAccount \in Accounts /\ Deployer \in Accounts

VARIABLES
  totalSupply,   \* total_supply
  balances,      \* balances (a missing entry reads as 0)
  allowances,    \* allowances keyed by <<owner, spender>>
  roles,         \* roles: the set of Role flags of an account
  isPaused       \* is_paused

erc20Vars == <<totalSupply, balances, allowances, roles, isPaused>>

\* Accounts that sign messages: nobody holds the key of ZERO_ACCOUNT, so
\* a role granted to it is never used and is not enumerated.
Callers == Accounts \ {ZeroAccount}

\* enum Role
Roles == {"Admin", "Minter", "Burner", "Pauser"}

-----------------------------------------------------------------------------
(* _transfer_from_to: fails when paused or the sender's balance is short; *)
(* the receiver's balance is read after the sender's was written, so a    *)
(* self-transfer leaves the balance unchanged.                            *)
\* Mutant: the receiver's balance is read before the sender's is written.
TransferFromToStaleRead(from, to, value) ==
  /\ ~isPaused
  /\ balances[from] >= value
  /\ NoOverflow(balances[to] + value)
  /\ balances' = [balances EXCEPT ![from] = @ - value,
                                  ![to] = AddU(balances[to], value)]

Debited(bals, from, value) == [bals EXCEPT ![from] = @ - value]

CanMove(bals, from, to, value) ==
  /\ ~isPaused
  /\ bals[from] >= value
  /\ NoOverflow(Debited(bals, from, value)[to] + value)

Moved(bals, from, to, value) ==
  [Debited(bals, from, value) EXCEPT ![to] = AddU(@, value)]

TransferFromTo(from, to, value) ==
  /\ CanMove(balances, from, to, value)
  /\ balances' = Moved(balances, from, to, value)

(* transfer *)
Transfer(caller, to, value) ==
  /\ TransferFromTo(caller, to, value)
  /\ UNCHANGED <<totalSupply, allowances, roles, isPaused>>

(* approve: overwrites the allowance, is allowed while paused *)
Approve(caller, spender, value) ==
  /\ allowances' = [allowances EXCEPT ![<<caller, spender>>] = value]
  /\ UNCHANGED <<totalSupply, balances, roles, isPaused>>

(* transfer_from: the caller spends from `from` up to its allowance *)
\* Mutant: the allowance is not checked before it is spent.
TransferFromUnchecked(caller, from, to, value) ==
  LET allowance == allowances[<<from, caller>>] IN
  /\ TransferFromTo(from, to, value)
  /\ allowances' = [allowances EXCEPT ![<<from, caller>>] = allowance - value]
  /\ UNCHANGED <<totalSupply, roles, isPaused>>

TransferFrom(caller, from, to, value) ==
  LET allowance == allowances[<<from, caller>>] IN
  /\ allowance >= value
  /\ TransferFromTo(from, to, value)
  /\ allowances' = [allowances EXCEPT ![<<from, caller>>] = allowance - value]
  /\ UNCHANGED <<totalSupply, roles, isPaused>>

(* mint / _mint: a Minter adds to the supply and to the recipient *)
\* Mutant: _mint credits the recipient but forgets total_supply.
MintUncounted(caller, recipient, amount) ==
  /\ ~isPaused
  /\ recipient # ZeroAccount
  /\ "Minter" \in roles[caller]
  /\ NoOverflow(balances[recipient] + amount)
  /\ balances' = [balances EXCEPT ![recipient] = AddU(@, amount)]
  /\ UNCHANGED <<totalSupply, allowances, roles, isPaused>>

Mint(caller, recipient, amount) ==
  /\ ~isPaused
  /\ recipient # ZeroAccount
  /\ "Minter" \in roles[caller]
  /\ NoOverflow(totalSupply + amount)
  /\ NoOverflow(balances[recipient] + amount)
  /\ totalSupply' = AddU(totalSupply, amount)
  /\ balances' = [balances EXCEPT ![recipient] = AddU(@, amount)]
  /\ UNCHANGED <<allowances, roles, isPaused>>

\* Balance::saturating_sub
SaturatingSub(x, y) == IF x >= y THEN x - y ELSE 0

(* burn_from / _burn_from (burn is the case account = caller): a Burner   *)
(* destroys tokens of an account, spending its allowance when it burns    *)
(* someone else's; the supply is reduced with saturating_sub.             *)
\* Mutant: _burn_from does not check is_paused.
BurnFromWhilePaused(caller, account, amount) ==
  /\ account # ZeroAccount
  /\ "Burner" \in roles[caller]
  /\ balances[account] >= amount
  /\ caller # account => allowances[<<account, caller>>] >= amount
  /\ allowances' = IF caller # account
                   THEN [allowances EXCEPT ![<<account, caller>>] =
                           SaturatingSub(@, amount)]
                   ELSE allowances
  /\ balances' = [balances EXCEPT ![account] = SaturatingSub(@, amount)]
  /\ totalSupply' = SaturatingSub(totalSupply, amount)
  /\ UNCHANGED <<roles, isPaused>>

BurnFrom(caller, account, amount) ==
  /\ ~isPaused
  /\ account # ZeroAccount
  /\ "Burner" \in roles[caller]
  /\ balances[account] >= amount
  /\ caller # account => allowances[<<account, caller>>] >= amount
  /\ allowances' = IF caller # account
                   THEN [allowances EXCEPT ![<<account, caller>>] =
                           SaturatingSub(@, amount)]
                   ELSE allowances
  /\ balances' = [balances EXCEPT ![account] = SaturatingSub(@, amount)]
  /\ totalSupply' = SaturatingSub(totalSupply, amount)
  /\ UNCHANGED <<roles, isPaused>>

(* add_minter / remove_minter / add_burner / remove_burner / add_pauser / *)
(* remove_pauser through add_roles and remove_roles: Admin only.  No      *)
(* message grants or revokes Admin itself.                                *)
SetRole(caller, account, role, grant) ==
  /\ "Admin" \in roles[caller]
  /\ roles' = [roles EXCEPT ![account] = IF grant THEN @ \cup {role}
                                                  ELSE @ \ {role}]
  /\ UNCHANGED <<totalSupply, balances, allowances, isPaused>>

(* pause / unpause through _set_is_paused: Pauser only *)
SetPaused(caller, value) ==
  /\ "Pauser" \in roles[caller]
  /\ isPaused' = value
  /\ UNCHANGED <<totalSupply, balances, allowances, roles>>

(* new(initial_supply): everything to the deployer, who gets every role *)
Erc20Init ==
  /\ totalSupply \in InitialSupplies
  /\ balances = [a \in Accounts |-> IF a = Deployer THEN totalSupply ELSE 0]
  /\ allowances = [p \in Accounts \X Accounts |-> 0]
  /\ roles = [a \in Accounts |-> IF a = Deployer THEN Roles ELSE {}]
  /\ isPaused = FALSE

Erc20Next ==
  \/ \E c \in Callers, t \in Accounts, v \in Amounts : Transfer(c, t, v)
  \/ \E c \in Callers, s \in Accounts, v \in Amounts : Approve(c, s, v)
  \/ \E c \in Callers, f, t \in Accounts, v \in Amounts : TransferFrom(c, f, t, v)
  \/ \E c \in Callers, r \in Accounts, v \in Amounts : Mint(c, r, v)
  \/ \E c \in Callers, a \in Accounts, v \in Amounts : BurnFrom(c, a, v)
  \/ \E c, a \in Callers, r \in Roles \ {"Admin"}, g \in BOOLEAN :
       SetRole(c, a, r, g)
  \/ \E c \in Callers, v \in BOOLEAN : SetPaused(c, v)

Erc20Spec == Erc20Init /\ [][Erc20Next]_erc20Vars
-----------------------------------------------------------------------------
(* Properties                                                              *)

Erc20TypeOK ==
  /\ totalSupply \in Balances
  /\ balances \in [Accounts -> Balances]
  /\ allowances \in [Accounts \X Accounts -> Balances]
  /\ roles \in [Accounts -> SUBSET Roles]
  /\ isPaused \in BOOLEAN

(* total_supply always equals the sum of all balances: mint adds to both, *)
(* burn takes from both, and transfers (a self-transfer included) only    *)
(* move tokens between balances.                                          *)
SupplyEqualsBalances == totalSupply = SumFunction(balances)

(* The erc20 contract implements the abstract token ledger TokenLedger:   *)
(* seen through total_supply and balances, every message is a move       *)
(* between two balances, an issue to one or a retirement from one, or     *)
(* leaves both alone, and total_supply starts and stays the sum of the     *)
(* balances.  A self-transfer, a burn of someone else's tokens, a         *)
(* saturating subtraction or a wrapping addition that broke this would     *)
(* show as a step the ledger cannot take.                                  *)
Ledger == INSTANCE TokenLedger
            WITH supply <- totalSupply, holdings <- balances,
                 Holders <- Accounts, Values <- Balances

LedgerRefinement == Ledger!LedgerSpec

(* While the contract is paused no balance and no supply changes: every   *)
(* path that moves tokens (transfer, transfer_from, mint, burn) checks    *)
(* is_paused first.                                                       *)
PausedFreezesBalances ==
  [][isPaused => /\ balances' = balances
                /\ totalSupply' = totalSupply]_erc20Vars
==============================================================================
