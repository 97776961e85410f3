----------------------------- MODULE VestedCoins -----------------------------
(***************************************************************************)
(* Balances and vesting schedules of accounts, as pallet_balances and      *)
(* pallet_vesting keep them for the pallets of this chain.  Both are part  *)
(* of Substrate; they are modelled by what their callers rely on.          *)
(***************************************************************************)
EXTENDS StorageMap, Naturals, Sequences, FiniteSets, Functions

Seqs == INSTANCE SequencesExt

CONSTANTS Accounts,
          ExistentialDeposit,
          MaxSchedules,   \* MAX_VESTING_SCHEDULES of an account
          MaxBlock        \* bound: last block number

ASSUME VestedCoinsAssumption ==
    /\ IsFiniteSet(Accounts)
    /\ ExistentialDeposit \in Nat \ {0}
    /\ MaxSchedules \in Nat \ {0}
    /\ MaxBlock \in Nat

VARIABLES balance,    \* account -> free balance
          schedules,  \* account -> its vesting schedules
          now         \* frame_system block number

Schedules == [locked : Nat, perBlock : Nat, start : Nat]

\* A subtraction that stops at zero (saturating_sub).
Monus(x, y) == IF x > y THEN x - y ELSE 0

Min2(x, y) == IF x <= y THEN x ELSE y

Max2(x, y) == IF x >= y THEN x ELSE y

\* What a schedule still locks at block n (VestingInfo::locked_at).
LockedAt(s, n) == Monus(s.locked, Max2(s.perBlock, 1) * Monus(n, s.start))

TotalLockedAt(q, n) == SumFunction([i \in DOMAIN q |-> LockedAt(q[i], n)])

\* A schedule that locks nothing or releases nothing per block is refused.
IsValid(s) == s.locked > 0 /\ s.perBlock > 0

\* Schedules that lock nothing any more are dropped whenever the list is written.
\* (A fold, not SelectSeq, whose definition the prover does not expand.)
Unfinished(q, n) ==
    LET keep(kept, s) == IF LockedAt(s, n) > 0 THEN Append(kept, s) ELSE kept
    IN  Seqs!FoldLeft(keep, <<>>, q)

\* add_vesting_schedule at block n; its errors are ignored by the callers.
AddSchedule(q, s, n) ==
    IF IsValid(s) /\ Len(q) < MaxSchedules THEN Unfinished(Append(q, s), n) ELSE q

\* add_vesting_schedule for each of list in turn.
AddSchedules(q, list, n) ==
    LET add(p, s) == AddSchedule(p, s, n)
    IN  Seqs!FoldLeft(add, q, list)

\* vesting_balance(d), if the account has schedules, once its free balance is free.
VestingBalance(d, free, n) == Min2(free, TotalLockedAt(schedules[d], n))

\* What deposit_creating credits: nothing, if the account does not exist and
\* the amount does not create it.
Credited(d, amount) ==
    IF balance[d] = 0 /\ amount < ExistentialDeposit THEN 0 ELSE amount

\* vest: an account has its finished schedules removed.
Vest(d) ==
    /\ schedules[d] # <<>>
    /\ schedules' = [schedules EXCEPT ![d] = Unfinished(@, now)]
    /\ UNCHANGED <<balance, now>>
=============================================================================
