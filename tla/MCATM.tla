--------------------------------- MODULE MCATM ---------------------------------
(* Small instances of ATM for TLC: PINs of one and of two digits, and money *)
(* for one withdrawal, so that the second is denied.  The customer, chosen  *)
(* at the start, presses any keys, or the keys of a longer visit with every *)
(* interleaving of the machines: only with a verification and a withdrawal  *)
(* cancelled before can a withdrawal be answered by the answer to another.  *)
EXTENDS ATM

VARIABLE customer  \* which of the two presses the keys

MCDigits == {"1", "9"}
MCCorrectPin == <<"1">>
MCLongPin == <<"1", "9">>

\* How many keys the customer who presses any keys presses.
AnyKeys == 9

\* The keys of a session as far as the PIN, and of the longer visit.
PinKeys == <<Msg("CardInserted")>>
           \o [i \in 1 .. PinLength |-> [kind |-> "DigitPressed", digit |-> CorrectPin[i]]]
VisitKeys == PinKeys \o <<Msg("CancelPressed")>>
             \o PinKeys \o <<Msg("WithdrawPressed"), Msg("CancelPressed")>>
             \o PinKeys \o <<Msg("WithdrawPressed")>>

\* What the customer's next key may be, as it arrives in the ATM's queue.
KeyPressed == IF customer = "any" THEN keys' <= AnyKeys
              ELSE keys' <= Len(VisitKeys) /\ Last(atmQ') = VisitKeys[keys']

MCInit == Init /\ customer \in {"any", "visit"}

MCNext == /\ Next
          /\ keys' # keys => KeyPressed
          /\ UNCHANGED customer

MCSpec == MCInit /\ [][MCNext]_<<vars, customer>> /\ Fairness
===============================================================================
