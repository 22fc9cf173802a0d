--------------------------- MODULE ReviewRegister ---------------------------
(***************************************************************************)
(* What the identity review queue promises: a review is an atomic register *)
(* that is opened, decided once and reversed at most once, and its trail   *)
(* of evidence holds exactly those decisions, in order.                    *)
(*                                                                         *)
(* Source: the partial unique indexes of db/tables/identity.py and the     *)
(* docstrings of identity/review.py.                                       *)
(***************************************************************************)
EXTENDS Sequences

CONSTANT Ids

VARIABLES status, trail

rvars == <<status, trail>>

RegisterInit ==
  /\ status = [r \in Ids |-> "absent"]
  /\ trail = [r \in Ids |-> <<>>]

Open(r) ==
  /\ status[r] = "absent"
  /\ status' = [status EXCEPT ![r] = "pending"]
  /\ UNCHANGED trail

(* A decision or a reversal, and the one row of evidence of it.            *)
Enter(r, from, to) ==
  /\ status[r] \in from
  /\ status' = [status EXCEPT ![r] = to]
  /\ trail' = [trail EXCEPT ![r] = Append(@, to)]

RegisterNext ==
  \E r \in Ids :
    \/ Open(r)
    \/ \E d \in {"approved", "rejected"} : Enter(r, {"pending"}, d)
    \/ Enter(r, {"approved", "rejected"}, "reversed")

RegisterSpec == RegisterInit /\ [][RegisterNext]_rvars
=============================================================================
