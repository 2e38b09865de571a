------------------------------- MODULE Ledger -------------------------------
(***************************************************************************)
(* What the page accounting of mem/accounting.c promises: a ledger in      *)
(* which every page the OS was given is in exactly one of three accounts.  *)
(* A transfer is one atomic step and never overdraws the account it takes  *)
(* from, and only fresh memory changes the total.                          *)
(***************************************************************************)
EXTENDS Integers

CONSTANT MaxPages    \* all the pages the machine could hand to the OS

VARIABLES account, total

ledgerVars == <<account, total>>

Accounts == {"available", "reserved", "committed"}

LedgerInit == /\ account = [k \in Accounts |-> 0]
              /\ total = 0

(* mem_acct_add_total and mem_acct_add_committed *)
Deposit(k, n) == /\ total + n <= MaxPages
                 /\ total' = total + n
                 /\ account' = [account EXCEPT ![k] = @ + n]

(* Every other operation moves pages between two accounts. *)
Transfer(from, to, n) ==
  /\ n <= account[from]
  /\ account' = [account EXCEPT ![from] = @ - n, ![to] = @ + n]
  /\ UNCHANGED total

LedgerNext ==
  \E n \in 0..MaxPages :
    \/ \E k \in {"available", "committed"} : Deposit(k, n)
    \/ \E from \in Accounts : \E to \in Accounts \ {from} : Transfer(from, to, n)

LedgerSpec == LedgerInit /\ [][LedgerNext]_ledgerVars
=============================================================================
