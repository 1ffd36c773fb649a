------------------------------- MODULE Erc1620 -------------------------------
(***************************************************************************)
(* The erc1620 payment-stream ink! contract (src/contracts/erc1620/lib.rs) *)
(* composed with the erc20 token it escrows.  A sender deposits tokens    *)
(* with the stream contract; the recipient's share accrues per second     *)
(* between start and stop; withdraw_from_stream pays it out, cancel_stream *)
(* splits what is left, and withdraw_from_all_streams walks the           *)
(* recipient's list of stream ids.                                        *)
(*                                                                         *)
(* Timestamps are milliseconds; the contract converts a difference to     *)
(* whole seconds (Duration::from_millis(..).as_secs()).  Every stream      *)
(* uses the one modelled token.                                           *)
(***************************************************************************)
EXTENDS Erc20, Clock, Sequences, StorageMaps

CONSTANTS
  StreamContract,  \* AccountId of the erc1620 contract (env().account_id())
  MsPerSecond,     \* 1000
  Deposits,        \* deposit values create_stream may get
  Times,           \* start_time / stop_time values create_stream may get
  MaxStreams,      \* bound: number of stream ids allocated
  MaxTime          \* bound: block timestamp (ms)

ASSUME StreamContract \in Accounts /\ MsPerSecond \in Nat \ {0}
ASSUME MaxStreams \in Nat /\ MaxTime \in Nat

VARIABLES
  streams,        \* streams_by_id
  idsByAccount,   \* stream_ids_by_account
  nextStreamId    \* next_stream_id (starts at 1)

streamVars == <<now, streams, idsByAccount, nextStreamId>>
vars == <<erc20Vars, streamVars>>

\* Accounts that sign messages; the stream contract only calls erc20 from
\* inside its own messages.
Users == Callers \ {StreamContract}

StreamIds == 1..MaxStreams

-----------------------------------------------------------------------------
(* Stream::delta_seconds, amount_withdrawn, get_balance.  ExactBalance   *)
(* is the mathematical value, GetBalance what the build computes; a       *)
(* message that computes it is enabled only where BalanceOK holds.        *)
Secs(ms) == ms \div MsPerSecond

\* Mutant: the elapsed time is not capped at stop_time.
DeltaSecondsUncapped(s, t) ==
  IF t <= s.start THEN 0 ELSE Secs(t - s.start)

DeltaSeconds(s, t) ==
  IF t <= s.start THEN 0
  ELSE IF t < s.stop THEN Secs(t - s.start)
  ELSE Secs(s.stop - s.start)

AmountWithdrawn(s) == s.deposit - s.remaining

RecipientBalance(s, t) ==
  SubU(MulU(DeltaSeconds(s, t), s.rate), AmountWithdrawn(s))

GetBalance(s, who, t) ==
  IF who = s.recipient THEN RecipientBalance(s, t)
  ELSE IF who = s.sender THEN SubU(s.remaining, RecipientBalance(s, t))
  ELSE 0

BalanceOK(s, who, t) ==
  /\ NoOverflow(DeltaSeconds(s, t) * s.rate)
  /\ NoOverflow(Wrap(DeltaSeconds(s, t) * s.rate) - AmountWithdrawn(s))
  /\ who = s.sender => NoOverflow(s.remaining - RecipientBalance(s, t))

-----------------------------------------------------------------------------
(* create_stream: validate recipient, times and deposit, pull the deposit *)
(* with transfer_from (the stream contract is the spender), store the     *)
(* stream under a fresh id and append the id to the recipient's list.     *)
CreateStream(caller, recipient, deposit, start, stop) ==
  LET duration == Secs(stop - start)
      id == nextStreamId
  IN /\ recipient \notin {ZeroAccount, caller, StreamContract}
     /\ stop >= start
     /\ start >= now
     /\ duration > 0          \* deposit % 0 panics
     /\ deposit >= duration
     /\ deposit % duration = 0
     /\ allowances[<<caller, StreamContract>>] >= deposit
     /\ CanMove(balances, caller, StreamContract, deposit)
     /\ nextStreamId <= MaxStreams
     /\ balances' = Moved(balances, caller, StreamContract, deposit)
     /\ allowances' = [allowances EXCEPT ![<<caller, StreamContract>>] = @ - deposit]
     /\ nextStreamId' = id + 1
     /\ streams' = Put(streams, id,
                       [deposit |-> deposit, rate |-> deposit \div duration,
                        remaining |-> deposit, start |-> start, stop |-> stop,
                        recipient |-> recipient, sender |-> caller])
     /\ idsByAccount' =
          Put(idsByAccount, recipient,
              IF recipient \in DOMAIN idsByAccount
              THEN Append(idsByAccount[recipient], id) ELSE <<id>>)
     /\ UNCHANGED <<totalSupply, roles, isPaused, now>>

(* withdraw_from_stream on a state st = [streams, bals]: a non-zero       *)
(* amount, a stored stream, the sender or recipient as caller, enough     *)
(* accrued; the remaining balance shrinks, the tokens go to the           *)
(* recipient, and an emptied stream is removed from streams_by_id (and    *)
(* only from there).                                                      *)
CanWithdraw(st, caller, id, amount) ==
  /\ amount # 0
  /\ id \in DOMAIN st.streams
  /\ caller \in {st.streams[id].recipient, st.streams[id].sender}
  /\ BalanceOK(st.streams[id], st.streams[id].recipient, now)
  /\ RecipientBalance(st.streams[id], now) >= amount
  /\ CanMove(st.bals, StreamContract, st.streams[id].recipient, amount)

\* Mutant: the emptied stream stays in streams_by_id.
WithdrawnKeepsEmpty(st, id, amount) ==
  LET s == [st.streams[id] EXCEPT !.remaining = @ - amount] IN
  [streams |-> [st.streams EXCEPT ![id] = s],
   bals    |-> Moved(st.bals, StreamContract, s.recipient, amount)]

\* Mutant: the tokens are paid but remaining_balance is not reduced.
WithdrawnKeepsRemaining(st, id, amount) ==
  LET s == st.streams[id] IN
  [streams |-> st.streams,
   bals    |-> Moved(st.bals, StreamContract, s.recipient, amount)]

Withdrawn(st, id, amount) ==
  LET s == [st.streams[id] EXCEPT !.remaining = @ - amount] IN
  [streams |-> IF s.remaining = 0 THEN Without(st.streams, id)
               ELSE [st.streams EXCEPT ![id] = s],
   bals    |-> Moved(st.bals, StreamContract, s.recipient, amount)]

Current == [streams |-> streams, bals |-> balances]

WithdrawFromStream(caller, id, amount) ==
  /\ CanWithdraw(Current, caller, id, amount)
  /\ streams' = Withdrawn(Current, id, amount).streams
  /\ balances' = Withdrawn(Current, id, amount).bals
  /\ UNCHANGED <<totalSupply, allowances, roles, isPaused,
                 now, idsByAccount, nextStreamId>>

(* withdraw_from_all_streams: for every id listed for the caller, unwrap  *)
(* the stream (a panic when it is gone) and withdraw its whole accrued    *)
(* balance (an error when that is zero); any failure fails the call.      *)
RECURSIVE WithdrawAll(_, _, _)
WithdrawAll(st, caller, ids) ==
  IF ids = <<>> \/ ~st.ok THEN st
  ELSE LET id == Head(ids)
           amount == GetBalance(st.streams[id], caller, now)
       IN IF /\ id \in DOMAIN st.streams
             /\ BalanceOK(st.streams[id], caller, now)
             /\ CanWithdraw(st, caller, id, amount)
          THEN WithdrawAll([ok      |-> TRUE,
                            streams |-> Withdrawn(st, id, amount).streams,
                            bals    |-> Withdrawn(st, id, amount).bals],
                           caller, Tail(ids))
          ELSE [st EXCEPT !.ok = FALSE]

WithdrawFromAllStreams(caller) ==
  LET result == WithdrawAll([streams |-> streams, bals |-> balances,
                             ok |-> TRUE],
                            caller, idsByAccount[caller])
  IN /\ caller \in DOMAIN idsByAccount
     /\ result.ok
     /\ streams' = result.streams
     /\ balances' = result.bals
     /\ UNCHANGED <<totalSupply, allowances, roles, isPaused,
                    now, idsByAccount, nextStreamId>>

(* cancel_stream: take the stream, pay the recipient's and the sender's   *)
(* balances (each only if non-zero), and remove the id from the           *)
(* recipient's list, which must hold it (unwrap).  The caller is never    *)
(* compared with the stream's parties.                                    *)
CancelStream(caller, id) ==
  LET s == streams[id]
      rb == GetBalance(s, s.recipient, now)
      sb == GetBalance(s, s.sender, now)
      paidR == IF rb > 0 THEN Moved(balances, StreamContract, s.recipient, rb)
               ELSE balances
      ids == idsByAccount[s.recipient]
  IN /\ id \in DOMAIN streams
     /\ BalanceOK(s, s.recipient, now) /\ BalanceOK(s, s.sender, now)
     /\ rb > 0 => CanMove(balances, StreamContract, s.recipient, rb)
     /\ sb > 0 => CanMove(paidR, StreamContract, s.sender, sb)
     /\ s.recipient \in DOMAIN idsByAccount
     /\ \E i \in DOMAIN ids : ids[i] = id
     /\ balances' = IF sb > 0 THEN Moved(paidR, StreamContract, s.sender, sb)
                    ELSE paidR
     /\ streams' = Without(streams, id)
     /\ idsByAccount' = [idsByAccount EXCEPT ![s.recipient] =
                           SelectSeq(@, LAMBDA x : x # id)]
     /\ UNCHANGED <<totalSupply, allowances, roles, isPaused, now, nextStreamId>>

Tick ==
  /\ now < MaxTime
  /\ now' = now + 1
  /\ UNCHANGED <<erc20Vars, streams, idsByAccount, nextStreamId>>

-----------------------------------------------------------------------------
Init ==
  /\ Erc20Init
  /\ now = 0
  /\ streams = <<>>
  /\ idsByAccount = <<>>
  /\ nextStreamId = 1

(* The erc1620 messages of the accounts in `users`, their approvals of    *)
(* the stream contract, and the passing of time.                          *)
StreamNext(users) ==
  \/ \E c \in users, v \in Amounts :
       Approve(c, StreamContract, v) /\ UNCHANGED streamVars
  \/ \E c \in users, r \in Accounts, dep \in Deposits, st, sp \in Times :
       CreateStream(c, r, dep, st, sp)
  \/ \E c \in users, id \in StreamIds, v \in Amounts : WithdrawFromStream(c, id, v)
  \/ \E c \in users : WithdrawFromAllStreams(c)
  \/ \E c \in users, id \in StreamIds : CancelStream(c, id)
  \/ Tick

Next == StreamNext(Users)

Spec == Init /\ [][Next]_vars

-----------------------------------------------------------------------------
(* Properties                                                              *)

StreamRecords ==
  {r \in [deposit : Balances, rate : Balances, remaining : Balances,
          start : Times, stop : Times, recipient : Accounts, sender : Users] :
     r.remaining \in 1..r.deposit}

StreamTypeOK ==
  /\ Erc20TypeOK
  /\ now \in 0..MaxTime
  /\ nextStreamId \in 1..(MaxStreams + 1)
  /\ DOMAIN streams \subseteq 1..(nextStreamId - 1)
  /\ \A id \in DOMAIN streams : streams[id] \in StreamRecords
  /\ DOMAIN idsByAccount \subseteq Accounts
  /\ \A a \in DOMAIN idsByAccount : idsByAccount[a] \in Seq(StreamIds)

(* The erc1620 contract's token balance is exactly the sum of the         *)
(* remaining_balance of its stored streams: create_stream pulls the       *)
(* deposit in, withdraw_from_stream pays out what it deducts, and         *)
(* cancel_stream pays the recipient's and the sender's balances, which    *)
(* together are the stream's remaining balance.  (No other message of     *)
(* this model sends tokens to the contract.)                              *)
EscrowMatchesStreams ==
  balances[StreamContract] =
    FoldFunction(LAMBDA s, acc : s.remaining + acc, 0, streams)

(* get_balance never underflows: at every time the recipient's accrued    *)
(* amount (elapsed seconds * rate_per_second) is at least what was        *)
(* already withdrawn and at most the deposit, so both the recipient's and *)
(* the sender's balance lie between 0 and remaining_balance.  This rests  *)
(* on the elapsed time being capped at stop_time and on create_stream     *)
(* accepting only deposits that are a multiple of the duration.           *)
AccrualWithinRemaining ==
  \A id \in DOMAIN streams :
    LET s == streams[id] IN
    DeltaSeconds(s, now) * s.rate - AmountWithdrawn(s) \in 0..s.remaining

(* Every account's stream id list is strictly increasing and holds only   *)
(* allocated ids, as cancel_stream's binary_search requires (create_stream *)
(* pushes fresh, incrementing ids; cancel_stream removes one).            *)
IdListsSorted ==
  \A a \in DOMAIN idsByAccount :
    LET ids == idsByAccount[a] IN
    \A i \in DOMAIN ids :
      /\ ids[i] < nextStreamId
      /\ i > 1 => ids[i - 1] < ids[i]

(* The comments of cancel_stream and withdraw_from_all_streams: every id  *)
(* in stream_ids_by_account[a] is a stored stream whose recipient is a,   *)
(* so their unwraps cannot fail.                                          *)
IndexMatchesStreams ==
  \A a \in DOMAIN idsByAccount :
    \A i \in DOMAIN idsByAccount[a] :
      LET id == idsByAccount[a][i] IN
      id \in DOMAIN streams /\ streams[id].recipient = a

(* withdraw_from_all_streams "withdraws the total available value from    *)
(* all streams where the caller is the recipient": while every listed id  *)
(* is stored, the call succeeds for a recipient with streams.             *)
WithdrawAllSucceeds ==
  \A a \in DOMAIN idsByAccount \cap Users :
    (\A i \in DOMAIN idsByAccount[a] : idsByAccount[a][i] \in DOMAIN streams)
      => WithdrawAll([streams |-> streams, bals |-> balances, ok |-> TRUE],
                     a, idsByAccount[a]).ok
==============================================================================
