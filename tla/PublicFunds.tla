----------------------------- MODULE PublicFunds -----------------------------
(***************************************************************************)
(* The public funds pallet (xx-public/src/lib.rs): two accounts, for the   *)
(* testnet and for the sale, each with a manager who distributes its coins *)
(* to lists of recipients, some of them with vesting schedules.            *)
(*                                                                         *)
(* Recipients are assumed not to be the funds themselves.  A distribution  *)
(* that returns an error leaves no trace and is no step.                   *)
(***************************************************************************)
EXTENDS IssuedCoins

CONSTANTS FundAccount,      \* fund -> its account
          Managers,
          NoManager,
          Distributions,    \* lists of payments that are distributed
          MaxDistributions  \* bound

Funds == {"testnet", "sale"}

Payments == [to : Accounts, amount : Nat, schedules : Seq(Schedules)]

ASSUME PublicFundsAssumption ==
    /\ FundAccount \in [Funds -> Accounts] /\ IsInjective(FundAccount)
    /\ NoManager \notin Managers
    /\ Distributions \subseteq Seq(Payments)
    /\ \A list \in Distributions, f \in Funds :
          \A i \in DOMAIN list : list[i].to # FundAccount[f]
    /\ MaxDistributions \in Nat

VARIABLES manager,      \* TestnetManager and SaleManager
          distributed   \* the distributions made: fund, manager and list

publicVars == <<manager, distributed>>

-----------------------------------------------------------------------------
(* Distributions. *)

\* transfer from fund account a, death allowed: it fails if a cannot pay, or if
\* the recipient does not exist and the amount does not create it.
CanTransfer(s, a, payment) ==
    \/ payment.amount = 0
    \/ /\ payment.amount <= s.balance[a]
       /\ Exists(s, payment.to, payment.amount)

\* Variant: of the schedules of a payment only the first is added.
PayFirstLock(s, a, payment) ==
    LET x == payment.amount
        taken == IF x = 0 THEN s ELSE Take(s, a, x)
        first == SubSeq(payment.schedules, 1, Min2(1, Len(payment.schedules)))
    IN  IF s.ok /\ CanTransfer(s, a, payment)
        THEN [taken EXCEPT !.balance[payment.to] = @ + x,
                           !.schedules[payment.to] = AddSchedules(@, first, now)]
        ELSE [s EXCEPT !.ok = FALSE]

\* One payment of the list, out of a; errors of add_vesting_schedule are ignored.
Pay(s, a, payment) ==
    LET x == payment.amount
        taken == IF x = 0 THEN s ELSE Take(s, a, x)
    IN  IF s.ok /\ CanTransfer(s, a, payment)
        THEN [taken EXCEPT !.balance[payment.to] = @ + x,
                           !.schedules[payment.to] = AddSchedules(@, payment.schedules, now)]
        ELSE [s EXCEPT !.ok = FALSE]

Listed(list) == SumFunction([i \in DOMAIN list |-> list[i].amount])

\* do_distribution
DoDistribution(a, list) ==
    LET pay(s, payment) == Pay(s, a, payment)
        start == [ok |-> TRUE, balance |-> balance, issuance |-> issuance,
                  schedules |-> schedules]
    IN  Seqs!FoldLeft(pay, start, list)

\* testnet_distribute and sale_distribute, by m.
Distribute(f, m, list) ==
    /\ Len(distributed) < MaxDistributions
    /\ manager[f] = m
    /\ balance[FundAccount[f]] >= Listed(list)
    /\ LET done == DoDistribution(FundAccount[f], list)
       IN  /\ done.ok
           /\ CoinsBecome(done)
           /\ schedules' = done.schedules
    /\ distributed' = Append(distributed, [fund |-> f, by |-> m, list |-> list])
    /\ UNCHANGED <<now, manager>>

\* set_testnet_manager_account and set_sale_manager_account
SetManager(f, m) ==
    /\ manager' = [manager EXCEPT ![f] = m]
    /\ UNCHANGED <<balance, schedules, now, distributed, issuance>>

PublicInit ==
    /\ manager \in [Funds -> Managers \cup {NoManager}]
    /\ distributed = <<>>

PublicNext ==
    \/ \E f \in Funds, m \in Managers, list \in Distributions : Distribute(f, m, list)
    \/ \E f \in Funds, m \in Managers : SetManager(f, m)

-----------------------------------------------------------------------------
(* Properties of the steps that distribute. *)

\* The payments of list to d, and what they pay.
PaymentsTo(list, d) == {i \in DOMAIN list : list[i].to = d}

PaidTo(list, d) == SumFunction([i \in PaymentsTo(list, d) |-> list[i].amount])

\* The schedules of a list that are not invalid, how many of them come with the
\* payments to d, and what those lock at block n.
ValidPlaces(q) == {k \in DOMAIN q : IsValid(q[k])}

ValidLock(q, n) == SumFunction([k \in ValidPlaces(q) |-> LockedAt(q[k], n)])

PromisedNumber(list, d) ==
    SumFunction([i \in PaymentsTo(list, d) |-> Cardinality(ValidPlaces(list[i].schedules))])

PromisedLock(list, d, n) ==
    SumFunction([i \in PaymentsTo(list, d) |-> ValidLock(list[i].schedules, n)])

\* A distribution does what its list says (do_distribution, which tests the sum
\* once, transfers one by one and ignores the errors of add_vesting_schedule).
\* It pays everybody on the list in full, costs its own fund the sum, with what
\* is left if that is dust, and nobody else anything: none stops in the middle
\* or reaches into the other fund.  And it locks as listed: a recipient with room
\* for all its schedules has them added to what it has locked, however many
\* payments they come with, and nobody loses a lock that was there before.
DistributedAsListed ==
    [][ distributed' # distributed =>
          LET last == distributed'[Len(distributed')]
              a == FundAccount[last.fund]
              sum == Listed(last.list)
              left == balance[a] - sum
          IN  /\ balance'[a] = IF sum > 0 /\ left < ExistentialDeposit THEN 0 ELSE left
              /\ \A d \in Accounts \ {a} :
                    balance'[d] = balance[d] + PaidTo(last.list, d)
              /\ \A d \in Accounts :
                    LET before == TotalLockedAt(schedules[d], now)
                        after == TotalLockedAt(schedules'[d], now)
                    IN  /\ after >= before
                        /\ Len(schedules[d]) + PromisedNumber(last.list, d) <= MaxSchedules
                              => after = before + PromisedLock(last.list, d, now)
      ]_<<balance, schedules, now, publicVars>>
=============================================================================
