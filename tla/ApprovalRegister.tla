-------------------------- MODULE ApprovalRegister --------------------------
(***************************************************************************)
(* What the governed chain promises of human approvals, with its stages,   *)
(* its clock, the consumers and the entries of their ledger hidden: a      *)
(* human signs receipts, and a receipt signed with APPROVE is used at most *)
(* once, in one atomic step that no other use can come between.            *)
(***************************************************************************)

VARIABLES
    signed,     \* the receipts signed so far
    used        \* used[n]: the request that was the n-th to use a receipt

rvars == <<signed, used>>

RInit == signed = {} /\ used = [n \in {} |-> {}]

Sign ==
    /\ \E r \in signed' : signed' = signed \union {r}
    /\ UNCHANGED used

(* Neither the receipt nor its nonce nor the caller's key was used before. *)
Unused(q) ==
    \A n \in DOMAIN used :
        /\ used[n].receipt # q.receipt
        /\ used[n].nonce # q.nonce
        /\ used[n].key # q.key

(* The request that is the n-th from now on. *)
Use(n) ==
    LET q == used'[n]
    IN  /\ n \notin DOMAIN used
        /\ used' = [k \in DOMAIN used \union {n} |-> IF k = n THEN q ELSE used[k]]
        /\ q.receipt \in signed
        /\ q.receipt.decision = "APPROVE"
        /\ Unused(q)
        /\ UNCHANGED signed

RNext == Sign \/ \E n \in DOMAIN used' : Use(n)

RSpec == RInit /\ [][RNext]_rvars

=============================================================================
