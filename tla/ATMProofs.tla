------------------------------- MODULE ATMProofs -------------------------------
(***************************************************************************)
(* Proofs about the cash machine, for any digits, keys, PIN, amount and    *)
(* balance and however many keys are pressed: the types of its state, that *)
(* money is issued only against a debit, one that is done or the one that  *)
(* the bank is about to do, and lost only by a cancellation, that no state *)
(* waits for an answer that is not on its way, and that only the right PIN *)
(* gets to the menu as long as no verification was cancelled.              *)
(*                                                                         *)
(* The three queues enter the argument only by how many messages of each   *)
(* kind they hold.                                                         *)
(***************************************************************************)
EXTENDS ATM, TLAPS, FiniteSetTheorems, SequenceTheorems

AtmMsgs  == {Msg(k) : k \in {"CardInserted", "ClearLastPressed", "CancelPressed", "PinVerified",
                             "PinIncorrect", "WithdrawPressed", "BalancePressed", "WithdrawOk",
                             "WithdrawDenied", "Balance", "CloseQueue"}}
            \cup [kind : {"DigitPressed"}, digit : Digits]
BankMsgs == {Msg(k) : k \in {"GetBalance", "WithdrawalProcessed", "CancelWithdrawal", "CloseQueue"}}
            \cup [kind : {"VerifyPin"}, pin : Seq(Digits)]
            \cup [kind : {"Withdraw"}, amount : {Amount}]
IfMsgs   == {Msg("Display"), Msg("CloseQueue")} \cup [kind : {"IssueMoney"}, amount : {Amount}]

\* The types, with what they rest on: a PIN that is being typed is not complete yet,
\* the amount of a withdrawal is the one that was asked for, and nobody cancels more
\* often than keys were pressed.
Typed == /\ atmQ \in Seq(AtmMsgs) /\ bankQ \in Seq(BankMsgs) /\ ifQ \in Seq(IfMsgs)
         /\ state \in DOMAIN Handles
         /\ called \in BOOLEAN
         /\ pin \in Seq(Digits) /\ Len(pin) <= PinLength
         /\ state = "getting_pin" => Len(pin) < PinLength
         /\ amount \in {0, Amount}
         /\ state = "process_withdrawal" => amount = Amount
         /\ balance \in Nat /\ debit \in {0, Amount} /\ debit <= balance
         /\ dispensed \in Nat
         /\ running \subseteq {"atm", "bank", "interface"}
         /\ main \in {"reading", "close_bank", "close_atm", "close_interface", "joining", "returned"}
         /\ keys \in 0 .. MaxKeys
         /\ cancels \in [DOMAIN Awaits -> Nat]
         /\ \A s \in DOMAIN Awaits : cancels[s] + Count(atmQ, "CancelPressed") <= keys

\* The requests of each kind that are not answered, or whose answer was not taken.
PinPending     == Count(bankQ, "VerifyPin") + Count(atmQ, "PinVerified") + Count(atmQ, "PinIncorrect")
Owed           == Count(bankQ, "Withdraw") + Count(atmQ, "WithdrawOk") + Count(atmQ, "WithdrawDenied")
BalancePending == Count(bankQ, "GetBalance") + Count(atmQ, "Balance")

AnswerOK == /\ state = "verifying_pin" => PinPending >= 1
            /\ state = "process_withdrawal" => Owed >= 1
            /\ state = "process_balance" => BalancePending >= 1

\* Until q is pressed, the bank runs and is not told to end.
OpenOK == main = "reading" =>
    "bank" \in running /\ Count(bankQ, "CloseQueue") = 0

\* Amounts approved or issued and not yet dispensed.
Paid == Count(ifQ, "IssueMoney") + Count(atmQ, "WithdrawOk")

\* Withdrawals that were cancelled or are in process, beyond those still owed an
\* answer: each of these may have been debited and lost.
Lost == cancels.process_withdrawal + (IF state = "process_withdrawal" THEN 1 ELSE 0) - Owed

\* The books with the balance b, the money d that was dispensed, the p amounts approved
\* or issued and the l amounts that may be lost.
Books(b, d, p, l) == /\ d + Amount * p <= InitialBalance - b
                     /\ InitialBalance - b <= d + Amount * (p + l)

\* What the account will hold when the amount just approved is subtracted.
Account == balance - debit

MoneyOK == Books(Account, dispensed, Paid, Lost)

\* As long as no verification was cancelled, the only answer under way is the answer
\* to the PIN the machine holds.
PinOK == cancels.verifying_pin = 0 =>
    /\ PinPending <= IF state = "verifying_pin" THEN 1 ELSE 0
    /\ \A i \in DOMAIN bankQ : bankQ[i].kind = "VerifyPin" => bankQ[i].pin = pin
    /\ Count(atmQ, "PinVerified") > 0 => pin = CorrectPin
    /\ state \in {"wait_for_action", "process_withdrawal", "process_balance"} => pin = CorrectPin

\* The inductive invariant.
IInv == Typed /\ AnswerOK /\ OpenOK /\ MoneyOK /\ PinOK
-------------------------------------------------------------------------------
(* How many messages of a kind a queue holds. *)

\* How many messages of a kind a queue holds is a natural number.
LEMMA CountType ==
  ASSUME NEW S, NEW q \in Seq(S), NEW k
  PROVE  /\ Count(q, k) \in Nat /\ IsFiniteSet({i \in DOMAIN q : q[i].kind = k})
         /\ k \in Kinds(q) <=> Count(q, k) > 0
<1> DEFINE T == {i \in DOMAIN q : q[i].kind = k}
<1>1. IsFiniteSet(1 .. Len(q))
  BY FS_Interval, LenProperties
<1>2. T \in SUBSET (1 .. Len(q))
  BY LenProperties
<1>3. IsFiniteSet(T)
  BY <1>1, <1>2, FS_Subset
<1>4. Cardinality(T) \in Nat /\ (Cardinality(T) = 0 <=> T = {})
  BY <1>3, FS_CardinalityType, FS_EmptySet
<1>5. k \in Kinds(q) <=> T # {}
  BY DEF Kinds
<1> QED
  BY <1>3, <1>4, <1>5 DEF Count

\* An empty queue holds none.
LEMMA CountEmpty == \A k : Count(<<>>, k) = 0
<1> TAKE k
<1>1. <<>> \in Seq({}) /\ Len(<<>>) = 0
  BY EmptySeq
<1>2. DOMAIN <<>> = {}
  BY <1>1, LenProperties
<1>3. {i \in DOMAIN <<>> : <<>>[i].kind = k} = {}
  BY <1>2
<1> QED
  BY <1>3, FS_EmptySet DEF Count

\* A message that is sent.
LEMMA CountAppend ==
  ASSUME NEW S, NEW q \in Seq(S), NEW m \in S, NEW k
  PROVE  Count(Append(q, m), k) = Count(q, k) + IF m.kind = k THEN 1 ELSE 0
<1> DEFINE T == {i \in DOMAIN q : q[i].kind = k}
           U == {i \in DOMAIN Append(q, m) : Append(q, m)[i].kind = k}
<1>0. Count(q, k) = Cardinality(T) /\ Count(Append(q, m), k) = Cardinality(U)
  BY DEF Count
<1>1. /\ DOMAIN q = 1 .. Len(q) /\ Len(q) \in Nat /\ DOMAIN Append(q, m) = 1 .. (Len(q) + 1)
      /\ \A i \in 1 .. Len(q) : Append(q, m)[i] = q[i]
      /\ Append(q, m)[Len(q) + 1] = m
  BY AppendProperties, LenProperties
<1>2. IsFiniteSet(T) /\ Len(q) + 1 \notin T
  <2>1. IsFiniteSet(T)
    BY CountType
  <2> QED
    BY <1>1, <2>1
<1>3. CASE m.kind = k
  <2>1. U = T \cup {Len(q) + 1}
    BY <1>1, <1>3
  <2> QED
    BY <1>0, <1>2, <1>3, <2>1, FS_AddElement
<1>4. CASE m.kind # k
  <2>1. U = T
    BY <1>1, <1>4
  <2>2. Cardinality(T) \in Nat
    BY <1>2, FS_CardinalityType
  <2> HIDE DEF T, U
  <2> QED
    BY <1>0, <1>4, <2>1, <2>2
<1> QED
  BY <1>3, <1>4

\* A message that is received.
LEMMA CountTail ==
  ASSUME NEW S, NEW q \in Seq(S), q # <<>>, NEW k
  PROVE  Count(Tail(q), k) = Count(q, k) - IF Head(q).kind = k THEN 1 ELSE 0
<1> DEFINE T == {i \in DOMAIN q : q[i].kind = k}
           U == {i \in DOMAIN Tail(q) : Tail(q)[i].kind = k}
           f == [i \in U |-> i + 1]
<1>0. Count(q, k) = Cardinality(T) /\ Count(Tail(q), k) = Cardinality(U)
  BY DEF Count
<1>1. /\ DOMAIN q = 1 .. Len(q) /\ Len(q) \in Nat \ {0} /\ DOMAIN Tail(q) = 1 .. (Len(q) - 1)
      /\ \A i \in 1 .. (Len(q) - 1) : Tail(q)[i] = q[i + 1]
      /\ Head(q) = q[1] /\ Tail(q) \in Seq(S)
  BY HeadTailProperties, LenProperties, EmptySeq
<1>2. IsFiniteSet(T) /\ IsFiniteSet(U)
  BY <1>1, CountType
<1>3. f \in Bijection(U, T \ {1})
  <2>1. f \in [U -> T \ {1}]
    BY <1>1
  <2>2. \A a, b \in U : f[a] = f[b] => a = b
    BY <1>1
  <2>3. \A j \in T \ {1} : \E i \in U : f[i] = j
    <3> TAKE j \in T \ {1}
    <3>1. j - 1 \in U
      BY <1>1
    <3> QED
      BY <1>1, <3>1
  <2> QED
    BY <2>1, <2>2, <2>3 DEF Bijection, Injection, Surjection, IsInjective
<1>4. Cardinality(U) = Cardinality(T \ {1})
  <2>1. ExistsBijection(U, T \ {1})
    BY <1>3 DEF ExistsBijection
  <2> QED
    BY <1>2, <2>1, FS_Bijection
<1>5. Cardinality(T \ {1}) = (IF 1 \in T THEN Cardinality(T) - 1 ELSE Cardinality(T))
  BY <1>2, FS_RemoveElement
<1>6. 1 \in T <=> Head(q).kind = k
  BY <1>1
<1>7. Cardinality(T) \in Nat
  BY <1>2, FS_CardinalityType
<1> HIDE DEF T, U
<1> QED
  BY <1>0, <1>4, <1>5, <1>6, <1>7
-------------------------------------------------------------------------------
(* Messages. *)

\* What the ATM, the bank and the interface take from their queues.
LEMMA AtmGetsMsg ==
  ASSUME Typed, NEW k, AtmGets(k)
  PROVE  /\ atmQ \in Seq(AtmMsgs) /\ atmQ' \in Seq(AtmMsgs)
         /\ Head(atmQ) \in AtmMsgs /\ Head(atmQ).kind = k
         /\ \A j : Count(atmQ', j) = Count(atmQ, j) - IF j = k THEN 1 ELSE 0
         /\ \A j : Count(atmQ, j) \in Nat /\ Count(atmQ', j) \in Nat
  BY HeadTailProperties, CountTail, CountType DEF AtmGets, Typed

\* What handling a message takes from the bank queue.
LEMMA BankGetsMsg ==
  ASSUME Typed, NEW k, BankGets(k)
  PROVE  /\ bankQ' \in Seq(BankMsgs)
         /\ Head(bankQ) \in BankMsgs /\ Head(bankQ).kind = k
         /\ \A j : Count(bankQ', j) = Count(bankQ, j) - IF j = k THEN 1 ELSE 0
         /\ \A j : Count(bankQ, j) \in Nat /\ Count(bankQ', j) \in Nat
         /\ \A i \in DOMAIN bankQ' : i + 1 \in DOMAIN bankQ /\ bankQ'[i] = bankQ[i + 1]
         /\ 1 \in DOMAIN bankQ /\ bankQ[1] = Head(bankQ)
<1>1. bankQ # <<>> /\ bankQ \in Seq(BankMsgs) /\ bankQ' = Tail(bankQ)
  BY DEF BankGets, Typed
<1>2. Len(bankQ) \in Nat \ {0} /\ DOMAIN bankQ = 1 .. Len(bankQ)
  BY <1>1, EmptySeq, LenProperties
<1>3. DOMAIN bankQ' = 1 .. (Len(bankQ) - 1)
  BY <1>1, <1>2, HeadTailProperties, LenProperties
<1>4. /\ bankQ' \in Seq(BankMsgs) /\ Head(bankQ) \in BankMsgs /\ Head(bankQ).kind = k
      /\ \A i \in 1 .. (Len(bankQ) - 1) : bankQ'[i] = bankQ[i + 1]
  BY <1>1, <1>2, HeadTailProperties DEF BankGets
<1>5. \A j : Count(bankQ', j) = Count(bankQ, j) - IF j = k THEN 1 ELSE 0
  BY <1>1, <1>4, CountTail
<1>6. \A j : Count(bankQ, j) \in Nat /\ Count(bankQ', j) \in Nat
  BY <1>1, <1>4, CountType
<1>7. bankQ[1] = Head(bankQ)
  BY <1>1
<1> QED
  BY <1>2, <1>3, <1>4, <1>5, <1>6, <1>7

\* What handling a message takes from the interface queue.
LEMMA IfGetsMsg ==
  ASSUME Typed, NEW k, IfGets(k)
  PROVE  /\ ifQ' \in Seq(IfMsgs)
         /\ Head(ifQ) \in IfMsgs /\ Head(ifQ).kind = k
         /\ \A j : Count(ifQ', j) = Count(ifQ, j) - IF j = k THEN 1 ELSE 0
         /\ \A j : Count(ifQ, j) \in Nat /\ Count(ifQ', j) \in Nat
  BY HeadTailProperties, CountTail, CountType DEF IfGets, Typed

\* A message sent.
LEMMA Sent ==
  ASSUME NEW S, NEW q \in Seq(S), NEW m \in S
  PROVE  /\ Append(q, m) \in Seq(S)
         /\ \A j : Count(Append(q, m), j) = Count(q, j) + IF m.kind = j THEN 1 ELSE 0
         /\ \A j : Count(q, j) \in Nat
         /\ DOMAIN Append(q, m) = DOMAIN q \cup {Len(q) + 1}
         /\ \A i \in DOMAIN q : Append(q, m)[i] = q[i]
         /\ Append(q, m)[Len(q) + 1] = m
<1>1. DOMAIN q = 1 .. Len(q) /\ Len(q) \in Nat /\ DOMAIN Append(q, m) = 1 .. (Len(q) + 1)
  BY AppendProperties, LenProperties
<1>2. DOMAIN Append(q, m) = DOMAIN q \cup {Len(q) + 1}
  BY <1>1
<1>3. \A j : Count(q, j) \in Nat
  BY CountType
<1>4. \A j : Count(Append(q, m), j) = Count(q, j) + IF m.kind = j THEN 1 ELSE 0
  BY CountAppend
<1>5. /\ Append(q, m) \in Seq(S) /\ Append(q, m)[Len(q) + 1] = m
      /\ \A i \in 1 .. Len(q) : Append(q, m)[i] = q[i]
  BY AppendProperties
<1> QED
  BY <1>1, <1>2, <1>3, <1>4, <1>5

\* A message for the ATM, the bank and the interface.
LEMMA AtmSent ==
  ASSUME Typed, NEW m \in AtmMsgs, atmQ' = Append(atmQ, m)
  PROVE  /\ atmQ' \in Seq(AtmMsgs)
         /\ \A j : Count(atmQ, j) \in Nat
         /\ \A j : m.kind # j => Count(atmQ', j) = Count(atmQ, j)
         /\ Count(atmQ', m.kind) = Count(atmQ, m.kind) + 1
<1>1. atmQ \in Seq(AtmMsgs)
  BY DEF Typed
<1>2. /\ Append(atmQ, m) \in Seq(AtmMsgs)
      /\ \A j : Count(Append(atmQ, m), j) = Count(atmQ, j) + IF m.kind = j THEN 1 ELSE 0
      /\ \A j : Count(atmQ, j) \in Nat
  BY <1>1, Sent
<1> QED
  BY <1>2

\* What sending adds to the bank queue.
LEMMA BankSent ==
  ASSUME Typed, NEW m \in BankMsgs, bankQ' = Append(bankQ, m)
  PROVE  /\ bankQ' \in Seq(BankMsgs)
         /\ \A j : Count(bankQ, j) \in Nat
         /\ \A j : m.kind # j => Count(bankQ', j) = Count(bankQ, j)
         /\ Count(bankQ', m.kind) = Count(bankQ, m.kind) + 1
         /\ \A i \in DOMAIN bankQ' : (i \in DOMAIN bankQ /\ bankQ'[i] = bankQ[i]) \/ bankQ'[i] = m
<1>1. bankQ \in Seq(BankMsgs)
  BY DEF Typed
<1>2. /\ Append(bankQ, m) \in Seq(BankMsgs)
      /\ \A j : Count(Append(bankQ, m), j) = Count(bankQ, j) + IF m.kind = j THEN 1 ELSE 0
      /\ \A j : Count(bankQ, j) \in Nat
      /\ DOMAIN Append(bankQ, m) = DOMAIN bankQ \cup {Len(bankQ) + 1}
      /\ \A i \in DOMAIN bankQ : Append(bankQ, m)[i] = bankQ[i]
      /\ Append(bankQ, m)[Len(bankQ) + 1] = m
  BY <1>1, Sent
<1> QED
  BY <1>2

\* What sending adds to the interface queue.
LEMMA IfSent ==
  ASSUME Typed, NEW m \in IfMsgs, ifQ' = Append(ifQ, m)
  PROVE  /\ ifQ' \in Seq(IfMsgs)
         /\ \A j : Count(ifQ, j) \in Nat
         /\ \A j : m.kind # j => Count(ifQ', j) = Count(ifQ, j)
         /\ Count(ifQ', m.kind) = Count(ifQ, m.kind) + 1
<1>1. ifQ \in Seq(IfMsgs)
  BY DEF Typed
<1>2. /\ Append(ifQ, m) \in Seq(IfMsgs)
      /\ \A j : Count(Append(ifQ, m), j) = Count(ifQ, j) + IF m.kind = j THEN 1 ELSE 0
      /\ \A j : Count(ifQ, j) \in Nat
  BY <1>1, Sent
<1> QED
  BY <1>2

\* Showing something sends nothing but displays.
LEMMA Shown ==
  ASSUME NEW q \in Seq(IfMsgs)
  PROVE  Show(q) \in Seq(IfMsgs) /\ \A j : j # "Display" => Count(Show(q), j) = Count(q, j)
<1>1. Msg("Display") \in IfMsgs /\ Msg("Display").kind = "Display"
  BY DEF IfMsgs, Msg
<1> QED
  BY <1>1, Sent DEF Show
-------------------------------------------------------------------------------
(* Every action has its effect on the counts, and keeps the types. *)

\* The invariant holds at the start.
LEMMA InitIInv == Init => IInv
<1> SUFFICES ASSUME Init PROVE IInv
  OBVIOUS
<1>1. /\ atmQ = <<>> /\ bankQ = <<>> /\ ifQ = <<>> /\ pin = <<>>
      /\ \A k : Count(atmQ, k) = 0 /\ Count(bankQ, k) = 0 /\ Count(ifQ, k) = 0
      /\ DOMAIN bankQ = {} /\ Len(pin) = 0
  BY CountEmpty DEF Init
<1>2. Typed
  <2>1. <<>> \in Seq(AtmMsgs) /\ <<>> \in Seq(BankMsgs) /\ <<>> \in Seq(IfMsgs) /\ <<>> \in Seq(Digits)
    BY EmptySeq
  <2>2. PinLength \in Nat \ {0}
    BY ATMAssumption, EmptySeq DEF PinLength
  <2>3. "waiting_for_card" \in DOMAIN Handles
    BY DEF Handles
  <2>4. \A s \in DOMAIN Awaits : cancels[s] = 0
    BY DEF Init
  <2>5. atmQ \in Seq(AtmMsgs) /\ bankQ \in Seq(BankMsgs) /\ ifQ \in Seq(IfMsgs) /\ pin \in Seq(Digits)
    BY <1>1, <2>1
  <2>6. cancels \in [DOMAIN Awaits -> Nat]
    BY DEF Init
  <2>7. keys = 0 /\ keys \in 0 .. MaxKeys /\ Count(atmQ, "CancelPressed") = 0
    BY <1>1, ATMAssumption DEF Init
  <2>8. \A s \in DOMAIN Awaits : cancels[s] + Count(atmQ, "CancelPressed") <= keys
    BY <2>4, <2>7
  <2>9. /\ state = "waiting_for_card" /\ called \in BOOLEAN /\ amount = 0 /\ main = "reading"
        /\ balance = InitialBalance /\ debit = 0 /\ dispensed = 0 /\ running = {"atm", "bank", "interface"}
    BY DEF Init
  <2> QED
    BY <1>1, <2>2, <2>3, <2>5, <2>6, <2>7, <2>8, <2>9, ATMAssumption DEF Typed
<1>3. AnswerOK /\ OpenOK /\ PinOK
  BY <1>1 DEF Init, AnswerOK, OpenOK, PinOK, PinPending
<1>4. MoneyOK
  BY <1>1, ATMAssumption DEF Init, MoneyOK, Books, Paid, Lost, Owed, Awaits, Account
<1> QED
  BY <1>2, <1>3, <1>4 DEF IInv

\* The customer and main.
LEMMA MainTyped ==
  ASSUME Typed,
         \/ \E d \in Digits : PressDigit(d)
         \/ \E k \in Keys : PressKey(k)
         \/ PressQuit \/ MainShutsDown
  PROVE  Typed'
<1> USE ATMAssumption DEF Typed, queues, atmVars, bankVars, history, mainVars
<1>1. CASE \E d \in Digits : PressDigit(d)
  <2>1. PICK d \in Digits : PressDigit(d)
    BY <1>1
  <2> DEFINE m == [kind |-> "DigitPressed", digit |-> d]
  <2>2. m \in AtmMsgs /\ m.kind = "DigitPressed" /\ atmQ' = Append(atmQ, m)
    BY <2>1 DEF AtmMsgs, PressDigit
  <2> HIDE DEF m
  <2>3. /\ atmQ' \in Seq(AtmMsgs) /\ Count(atmQ, "CancelPressed") \in Nat
        /\ Count(atmQ', "CancelPressed") = Count(atmQ, "CancelPressed")
    BY <2>2, AtmSent
  <2>4. /\ keys' = keys + 1 /\ keys < MaxKeys
        /\ UNCHANGED <<bankQ, ifQ, state, called, pin, amount, balance, debit, dispensed, running, main, cancels>>
    BY <2>1 DEF PressDigit, CanPress
  <2> QED
    BY <2>3, <2>4
<1>2. CASE \E k \in Keys : PressKey(k)
  <2>1. PICK k \in Keys : PressKey(k)
    BY <1>2
  <2>2. Msg(k) \in AtmMsgs /\ Msg(k).kind = k
    BY DEF AtmMsgs, Msg
  <2>3. /\ atmQ' \in Seq(AtmMsgs) /\ Count(atmQ, "CancelPressed") \in Nat
        /\ Count(atmQ', "CancelPressed") \in {Count(atmQ, "CancelPressed"), Count(atmQ, "CancelPressed") + 1}
    BY <2>1, <2>2, AtmSent DEF PressKey
  <2>4. /\ keys' = keys + 1 /\ keys < MaxKeys
        /\ UNCHANGED <<bankQ, ifQ, state, called, pin, amount, balance, debit, dispensed, running, main, cancels>>
    BY <2>1 DEF PressKey, CanPress
  <2> QED
    BY <2>3, <2>4
<1>3. CASE PressQuit
  BY <1>3 DEF PressQuit
<1>4. Msg("CloseQueue") \in AtmMsgs \cap BankMsgs \cap IfMsgs /\ Msg("CloseQueue").kind = "CloseQueue"
  BY DEF AtmMsgs, BankMsgs, IfMsgs, Msg
<1>5. CASE CloseBank
  BY <1>4, <1>5, BankSent DEF CloseBank
<1>6. CASE CloseAtm
  <2>1. atmQ' \in Seq(AtmMsgs) /\ Count(atmQ', "CancelPressed") = Count(atmQ, "CancelPressed")
    BY <1>4, <1>6, AtmSent DEF CloseAtm
  <2> QED
    BY <2>1, <1>6 DEF CloseAtm
<1>7. CASE CloseInterface
  BY <1>4, <1>7, IfSent DEF CloseInterface
<1>8. CASE Join
  BY <1>8 DEF Join
<1> QED
  BY <1>1, <1>2, <1>3, <1>5, <1>6, <1>7, <1>8 DEF MainShutsDown

\* Which state handles which message.
LEMMA HandledIn ==
  ASSUME state \in DOMAIN Handles, NEW k, AtmHandles(k)
  PROVE  /\ state \in {"waiting_for_card", "getting_pin", "verifying_pin", "wait_for_action",
                       "process_withdrawal", "process_balance"}
         /\ k = "CardInserted" => state = "waiting_for_card"
         /\ k \in {"DigitPressed", "ClearLastPressed"} => state = "getting_pin"
         /\ k \in {"PinVerified", "PinIncorrect"} => state = "verifying_pin"
         /\ k \in {"WithdrawPressed", "BalancePressed"} => state = "wait_for_action"
         /\ k \in {"WithdrawOk", "WithdrawDenied"} => state = "process_withdrawal"
         /\ k = "Balance" => state = "process_balance"
  BY DEF AtmHandles, Handles

\* A message of a kind the state does not handle is not one of the answers it waits for.
LEMMA DroppedKinds ==
  ASSUME state \in DOMAIN Handles, AtmDrops
  PROVE  \E k : /\ AtmGets(k)
                /\ state = "verifying_pin" => k \notin {"PinVerified", "PinIncorrect"}
                /\ state = "process_withdrawal" => k \notin {"WithdrawOk", "WithdrawDenied"}
                /\ state = "process_balance" => k # "Balance"
  BY DEF AtmDrops, Handles

\* The states of the ATM and the states in which it waits for the bank.
LEMMA States ==
  /\ DOMAIN Handles = {"waiting_for_card", "getting_pin", "verifying_pin", "wait_for_action",
                       "process_withdrawal", "process_balance", "done_processing"}
  /\ DOMAIN Awaits = {"verifying_pin", "process_withdrawal", "process_balance"}
  BY DEF Handles, Awaits

\* A step that changes neither what the ATM and the bank have of their own nor how
\* many requests, answers and notes to issue there are.
LEMMA Neutral ==
  ASSUME IInv, UNCHANGED <<state, pin, Account, dispensed, cancels>>,
         \A k \in {"PinVerified", "PinIncorrect", "WithdrawOk", "WithdrawDenied", "Balance"} :
            Count(atmQ', k) = Count(atmQ, k),
         \A k \in {"VerifyPin", "Withdraw", "GetBalance"} : Count(bankQ', k) = Count(bankQ, k),
         \A i \in DOMAIN bankQ' : bankQ'[i].kind = "VerifyPin" =>
            \E j \in DOMAIN bankQ : bankQ[j] = bankQ'[i],
         Count(ifQ', "IssueMoney") = Count(ifQ, "IssueMoney")
  PROVE  AnswerOK' /\ MoneyOK' /\ PinOK'
<1>1. PinPending' = PinPending /\ Owed' = Owed /\ BalancePending' = BalancePending /\ Paid' = Paid
  BY DEF PinPending, Owed, BalancePending, Paid
<1>2. AnswerOK'
  BY <1>1 DEF IInv, AnswerOK
<1>3. MoneyOK'
  BY <1>1 DEF IInv, MoneyOK, Lost
<1>4. PinOK'
  BY <1>1 DEF IInv, PinOK
<1> QED
  BY <1>2, <1>3, <1>4

\* The four things that happen to the books: a cancellation, an approval, an issue, and
\* an answer that is thrown away.
LEMMA MoneyArithmetic ==
  ASSUME NEW b \in Int, NEW d \in Int, NEW p \in Int, NEW l \in Int, Books(b, d, p, l)
  PROVE  /\ \A l1 \in Int : l1 >= l => Books(b, d, p, l1)
         /\ Books(b - Amount, d, p + 1, l)
         /\ Books(b, d + Amount, p - 1, l)
         /\ Books(b, d, p - 1, l + 1)
<1>1. Amount \in Nat /\ InitialBalance \in Nat
  BY ATMAssumption
<1>2. \A x \in Int : /\ Amount * x \in Int
                     /\ Amount * (x + 1) = Amount * x + Amount
                     /\ Amount * (x - 1) = Amount * x - Amount
  BY <1>1
<1>3. \A x, y \in Int : x <= y => Amount * x <= Amount * y
  BY <1>1
<1>4. \A l1 \in Int : l1 >= l => Books(b, d, p, l1)
  <2> TAKE l1 \in Int
  <2> HAVE l1 >= l
  <2>1. Amount * (p + l) <= Amount * (p + l1)
    BY <1>3
  <2> QED
    BY <1>1, <1>2, <2>1 DEF Books
<1>5. Books(b - Amount, d, p + 1, l)
  <2>1. Amount * (p + 1) = Amount * p + Amount
    BY <1>2
  <2>2. Amount * ((p + 1) + l) = Amount * (p + l) + Amount
    BY <1>2
  <2> QED
    BY <1>1, <1>2, <2>1, <2>2 DEF Books
<1>6. Books(b, d + Amount, p - 1, l)
  <2>1. Amount * (p - 1) = Amount * p - Amount
    BY <1>2
  <2>2. Amount * ((p - 1) + l) = Amount * (p + l) - Amount
    BY <1>2
  <2> QED
    BY <1>1, <1>2, <2>1, <2>2 DEF Books
<1>7. Books(b, d, p - 1, l + 1)
  <2>1. Amount * (p - 1) = Amount * p - Amount
    BY <1>2
  <2>2. (p - 1) + (l + 1) = p + l
    OBVIOUS
  <2> QED
    BY <1>1, <1>2, <2>1, <2>2 DEF Books
<1> QED
  BY <1>4, <1>5, <1>6, <1>7

\* The counts that the invariant adds up are natural numbers.
LEMMA CountsAreNat ==
  ASSUME Typed
  PROVE  /\ \A k : Count(atmQ, k) \in Nat /\ Count(bankQ, k) \in Nat /\ Count(ifQ, k) \in Nat
         /\ PinPending \in Nat /\ Owed \in Nat /\ BalancePending \in Nat
         /\ Paid \in Nat /\ Lost \in Int
<1>1. \A k : Count(atmQ, k) \in Nat /\ Count(bankQ, k) \in Nat /\ Count(ifQ, k) \in Nat
  BY CountType DEF Typed
<1>2. cancels.process_withdrawal \in Nat
  BY States DEF Typed
<1> QED
  BY <1>1, <1>2 DEF PinPending, Owed, BalancePending, Paid, Lost

\* The steps of the account: an approval, an issue, an answer dropped, or nothing but
\* more that may be lost.
LEMMA MoneyStep ==
  ASSUME Typed, Typed', MoneyOK,
         \/ Account' = Account /\ dispensed' = dispensed /\ Paid' = Paid /\ Lost' >= Lost
         \/ Account' = Account - Amount /\ dispensed' = dispensed /\ Paid' = Paid + 1 /\ Lost' = Lost
         \/ Account' = Account /\ dispensed' = dispensed + Amount /\ Paid' = Paid - 1 /\ Lost' = Lost
         \/ Account' = Account /\ dispensed' = dispensed /\ Paid' = Paid - 1 /\ Lost' = Lost + 1
  PROVE  MoneyOK'
<1>1. Paid \in Int /\ Lost \in Int
  BY CountsAreNat
<1>2. Paid' \in Int /\ Lost' \in Int
  <2>1. \A k : Count(atmQ', k) \in Nat /\ Count(bankQ', k) \in Nat /\ Count(ifQ', k) \in Nat
    BY CountType DEF Typed
  <2>2. cancels'.process_withdrawal \in Nat
    BY States DEF Typed
  <2> QED
    BY <2>1, <2>2 DEF Paid, Lost, Owed
<1>3. Account \in Int /\ dispensed \in Int /\ Account' \in Int /\ dispensed' \in Int
  BY ATMAssumption DEF Typed, Account
<1>4. /\ \A l1 \in Int : l1 >= Lost => Books(Account, dispensed, Paid, l1)
      /\ Books(Account - Amount, dispensed, Paid + 1, Lost)
      /\ Books(Account, dispensed + Amount, Paid - 1, Lost)
      /\ Books(Account, dispensed, Paid - 1, Lost + 1)
  BY <1>1, <1>3, MoneyArithmetic DEF MoneyOK
<1>5. Books(Account', dispensed', Paid', Lost')
  BY <1>2, <1>4
<1> QED
  BY <1>5 DEF MoneyOK, Books

\* With nothing under way for the PIN, no request or answer is in a queue.
LEMMA NoPinPending ==
  ASSUME Typed, PinPending = 0
  PROVE  /\ Count(atmQ, "PinVerified") = 0
         /\ \A i \in DOMAIN bankQ : bankQ[i].kind # "VerifyPin"
<1>1. Count(bankQ, "VerifyPin") = 0 /\ Count(atmQ, "PinVerified") = 0
  BY CountsAreNat DEF PinPending
<1>2. bankQ \in Seq(BankMsgs)
  BY DEF Typed
<1>3. "VerifyPin" \in Kinds(bankQ) <=> Count(bankQ, "VerifyPin") > 0
  BY <1>2, CountType
<1> QED
  BY <1>1, <1>3 DEF Kinds

\* The answers and the approvals in the ATM's queue when it takes a message of kind k.
LEMMA AtmGetsCounts ==
  ASSUME Typed, NEW k, AtmGets(k)
  PROVE  /\ Count(atmQ', "CancelPressed") <= Count(atmQ, "CancelPressed")
         /\ \A j : Count(atmQ, j) \in Nat /\ Count(atmQ', j) \in Nat
         /\ \A j : j # k => Count(atmQ', j) = Count(atmQ, j)
         /\ Count(atmQ', k) = Count(atmQ, k) - 1
  BY AtmGetsMsg

\* Handling CardInserted keeps the invariant.
LEMMA CardInsertedStep ==
  ASSUME IInv, CardInserted
  PROVE  Typed' /\ AnswerOK' /\ MoneyOK' /\ PinOK'
<1> USE DEF queues, atmVars, bankVars, history, mainVars, Account
<1>1. Typed /\ AtmGets("CardInserted") /\ state = "waiting_for_card" /\ called' = FALSE
  BY HandledIn DEF IInv, Typed, CardInserted, AtmHandles
<1>2. /\ state' = "getting_pin" /\ pin' = <<>> /\ ifQ' = Show(ifQ)
      /\ UNCHANGED <<bankQ, amount, balance, debit, running, main, keys, dispensed, cancels>>
  BY DEF CardInserted
<1>3. atmQ' \in Seq(AtmMsgs) /\ ifQ \in Seq(IfMsgs) /\ ifQ' \in Seq(IfMsgs)
  BY <1>1, <1>2, AtmGetsMsg, Shown DEF Typed
<1>4. PinPending' = PinPending /\ Owed' = Owed /\ Paid' = Paid
  <2>1. \A j : j # "CardInserted" => Count(atmQ', j) = Count(atmQ, j)
    BY <1>1, AtmGetsCounts
  <2>2. Count(ifQ', "IssueMoney") = Count(ifQ, "IssueMoney")
    BY <1>2, <1>3, Shown
  <2>3. \A j : Count(bankQ', j) = Count(bankQ, j)
    BY <1>2
  <2> QED
    BY <2>1, <2>2, <2>3 DEF PinPending, Owed, Paid
<1>5. Typed'
  <2>1. <<>> \in Seq(Digits) /\ Len(<<>>) = 0 /\ PinLength \in Nat \ {0}
    BY ATMAssumption, EmptySeq DEF PinLength
  <2>2. \A s \in DOMAIN Awaits : cancels'[s] + Count(atmQ', "CancelPressed") <= keys'
    BY <1>1, <1>2, AtmGetsCounts DEF Typed
  <2>3. called' \in BOOLEAN
    BY <1>1
  <2>4. state' \in DOMAIN Handles /\ state' # "process_withdrawal"
    BY <1>2, States
  <2> QED
    BY <1>1, <1>2, <1>3, <2>1, <2>2, <2>3, <2>4 DEF Typed
<1>6. AnswerOK'
  BY <1>2 DEF AnswerOK
<1>7. MoneyOK'
  BY <1>1, <1>2, <1>4, <1>5, MoneyStep, CountsAreNat DEF IInv, Lost
<1>8. PinOK'
  <2> SUFFICES ASSUME cancels'.verifying_pin = 0 PROVE PinOK'
    BY DEF PinOK
  <2>1. PinPending = 0
    BY <1>1, <1>2, CountsAreNat DEF IInv, PinOK
  <2>2. Count(atmQ', "PinVerified") = 0 /\ \A i \in DOMAIN bankQ' : bankQ'[i].kind # "VerifyPin"
    BY <1>1, <1>2, <2>1, NoPinPending, AtmGetsCounts
  <2> QED
    BY <1>2, <1>4, <2>1, <2>2 DEF PinOK
<1> QED
  BY <1>5, <1>6, <1>7, <1>8

\* A digit of the PIN.
LEMMA DigitPressedStep ==
  ASSUME IInv, DigitPressed
  PROVE  Typed' /\ AnswerOK' /\ MoneyOK' /\ PinOK'
<1> USE DEF queues, atmVars, bankVars, history, mainVars, Account
<1>1. Typed /\ AtmGets("DigitPressed") /\ state = "getting_pin" /\ called' = FALSE
  BY HandledIn DEF IInv, Typed, DigitPressed, AtmHandles
<1>2. /\ pin' = Append(pin, Head(atmQ).digit)
      /\ UNCHANGED <<ifQ, amount, balance, debit, running, main, keys, dispensed, cancels>>
  BY DEF DigitPressed
<1>3. /\ atmQ' \in Seq(AtmMsgs) /\ Head(atmQ).digit \in Digits
      /\ pin' \in Seq(Digits) /\ Len(pin') = Len(pin) + 1 /\ Len(pin') <= PinLength
  <2>1. Head(atmQ) \in AtmMsgs /\ Head(atmQ).kind = "DigitPressed" /\ atmQ' \in Seq(AtmMsgs)
    BY <1>1, AtmGetsMsg
  <2>2. Head(atmQ).digit \in Digits
    BY <2>1 DEF AtmMsgs, Msg
  <2>3. pin \in Seq(Digits) /\ Len(pin) < PinLength /\ PinLength \in Nat
    BY <1>1, ATMAssumption, LenProperties DEF Typed, PinLength
  <2> QED
    BY <1>2, <2>1, <2>2, <2>3, AppendProperties, LenProperties
<1> DEFINE m == [kind |-> "VerifyPin", pin |-> pin']
<1>4. \/ /\ Len(pin') = PinLength
         /\ bankQ' = Append(bankQ, m)
         /\ state' = "verifying_pin"
      \/ /\ Len(pin') # PinLength
         /\ bankQ' = bankQ
         /\ state' = "getting_pin"
  BY <1>1 DEF DigitPressed
<1>5. m \in BankMsgs /\ m.kind = "VerifyPin" /\ m.pin = pin'
  BY <1>3 DEF BankMsgs
<1> HIDE DEF m
<1>6. /\ bankQ' \in Seq(BankMsgs)
      /\ \A j : j # "VerifyPin" => Count(bankQ', j) = Count(bankQ, j)
      /\ IF state' = "verifying_pin" THEN Count(bankQ', "VerifyPin") = Count(bankQ, "VerifyPin") + 1
                                     ELSE Count(bankQ', "VerifyPin") = Count(bankQ, "VerifyPin")
      /\ \A i \in DOMAIN bankQ' : (i \in DOMAIN bankQ /\ bankQ'[i] = bankQ[i]) \/ bankQ'[i] = m
  <2>1. CASE bankQ' = bankQ /\ state' = "getting_pin"
    BY <1>1, <2>1, CountsAreNat DEF Typed
  <2>2. CASE bankQ' = Append(bankQ, m) /\ state' = "verifying_pin"
    BY <1>1, <1>5, <2>2, BankSent
  <2> QED
    BY <1>4, <2>1, <2>2
<1>7. /\ IF state' = "verifying_pin" THEN PinPending' = PinPending + 1
                                     ELSE PinPending' = PinPending
      /\ Owed' = Owed /\ Paid' = Paid
  <2>1. \A j : j # "DigitPressed" => Count(atmQ', j) = Count(atmQ, j)
    BY <1>1, AtmGetsCounts
  <2>2. \A j : Count(atmQ, j) \in Nat /\ Count(bankQ, j) \in Nat
    BY <1>1, CountsAreNat
  <2>3. ifQ' = ifQ
    BY <1>2
  <2>4. Owed' = Owed /\ Paid' = Paid
    BY <1>6, <2>1, <2>3 DEF Owed, Paid
  <2>5. /\ Count(atmQ', "PinVerified") = Count(atmQ, "PinVerified")
        /\ Count(atmQ', "PinIncorrect") = Count(atmQ, "PinIncorrect")
    BY <2>1
  <2> QED
    BY <1>6, <2>2, <2>4, <2>5 DEF PinPending
<1>8. Typed'
  <2>1. \A s \in DOMAIN Awaits : cancels'[s] + Count(atmQ', "CancelPressed") <= keys'
    BY <1>1, <1>2, AtmGetsCounts DEF Typed
  <2>2. PinLength \in Nat
    BY ATMAssumption, LenProperties DEF PinLength
  <2>3. Len(pin') \in Nat
    BY <1>3, LenProperties
  <2>4. state' \in DOMAIN Handles /\ (state' = "getting_pin" => Len(pin') < PinLength)
    BY <1>3, <1>4, <2>2, <2>3, States
  <2>5. state' # "process_withdrawal"
    BY <1>4
  <2> QED
    BY <1>1, <1>2, <1>3, <1>6, <2>1, <2>4, <2>5 DEF Typed
<1>9. AnswerOK'
  BY <1>1, <1>4, <1>7, CountsAreNat DEF AnswerOK
<1>10. MoneyOK'
  BY <1>1, <1>2, <1>4, <1>7, <1>8, MoneyStep, CountsAreNat DEF IInv, Lost
<1>11. PinOK'
  <2> SUFFICES ASSUME cancels'.verifying_pin = 0 PROVE PinOK'
    BY DEF PinOK
  <2>1. PinPending = 0
    BY <1>1, <1>2, CountsAreNat DEF IInv, PinOK
  <2>2. Count(atmQ', "PinVerified") = 0 /\ \A i \in DOMAIN bankQ : bankQ[i].kind # "VerifyPin"
    BY <1>1, <2>1, NoPinPending, AtmGetsCounts
  <2>3. \A i \in DOMAIN bankQ' : bankQ'[i].kind = "VerifyPin" => bankQ'[i].pin = pin'
    BY <1>5, <1>6, <2>2
  <2> QED
    BY <1>4, <1>7, <2>1, <2>2, <2>3 DEF PinOK
<1> QED
  BY <1>8, <1>9, <1>10, <1>11

\* The types after a step of the ATM that takes a message of kind k and cancels nothing.
LEMMA AtmTyped ==
  ASSUME Typed, NEW k, AtmGets(k),
         UNCHANGED <<balance, debit, main, keys, dispensed, cancels>>,
         running' \subseteq {"atm", "bank", "interface"},
         bankQ' \in Seq(BankMsgs), ifQ' \in Seq(IfMsgs),
         state' \in DOMAIN Handles, called' \in BOOLEAN,
         pin' \in Seq(Digits), Len(pin') <= PinLength,
         state' = "getting_pin" => Len(pin') < PinLength,
         amount' \in {0, Amount}, state' = "process_withdrawal" => amount' = Amount
  PROVE  Typed'
<1>1. \A s \in DOMAIN Awaits : cancels'[s] + Count(atmQ', "CancelPressed") <= keys'
  BY AtmGetsCounts DEF Typed
<1>2. atmQ' \in Seq(AtmMsgs)
  BY AtmGetsMsg
<1> QED
  BY <1>1, <1>2 DEF Typed

\* The answers to the requests of the other states are not taken.
LEMMA AtmTakes ==
  ASSUME Typed, NEW k, AtmGets(k), bankQ' = bankQ
  PROVE  /\ IF k \in {"PinVerified", "PinIncorrect"} THEN PinPending' = PinPending - 1
                                                     ELSE PinPending' = PinPending
         /\ IF k \in {"WithdrawOk", "WithdrawDenied"} THEN Owed' = Owed - 1 ELSE Owed' = Owed
         /\ IF k = "Balance" THEN BalancePending' = BalancePending - 1
                             ELSE BalancePending' = BalancePending
<1>1. /\ \A j : j # k => Count(atmQ', j) = Count(atmQ, j)
      /\ Count(atmQ', k) = Count(atmQ, k) - 1
      /\ \A j : Count(atmQ, j) \in Nat /\ Count(bankQ, j) \in Nat
  BY AtmGetsCounts, CountsAreNat
<1>2. IF k \in {"PinVerified", "PinIncorrect"} THEN PinPending' = PinPending - 1
                                               ELSE PinPending' = PinPending
  BY <1>1 DEF PinPending
<1>3. IF k \in {"WithdrawOk", "WithdrawDenied"} THEN Owed' = Owed - 1 ELSE Owed' = Owed
  BY <1>1 DEF Owed
<1>4. IF k = "Balance" THEN BalancePending' = BalancePending - 1
                       ELSE BalancePending' = BalancePending
  BY <1>1 DEF BalancePending
<1> QED
  BY <1>2, <1>3, <1>4

\* Taking the last digit back.
LEMMA ClearLastPressedStep ==
  ASSUME IInv, ClearLastPressed
  PROVE  Typed' /\ AnswerOK' /\ MoneyOK' /\ PinOK'
<1> USE DEF queues, atmVars, bankVars, history, mainVars, Account
<1>1. Typed /\ AtmGets("ClearLastPressed") /\ state = "getting_pin" /\ called' \in BOOLEAN
  <2>1. called' = FALSE
    BY DEF ClearLastPressed, AtmHandles
  <2> QED
    BY <2>1, HandledIn DEF IInv, Typed, ClearLastPressed, AtmHandles
<1>2. /\ pin' = IF pin = <<>> THEN pin ELSE Front(pin)
      /\ UNCHANGED <<bankQ, ifQ, state, amount, balance, debit, running, main, keys, dispensed, cancels>>
  BY DEF ClearLastPressed
<1>3. pin' \in Seq(Digits) /\ Len(pin') <= Len(pin) /\ Len(pin') \in Nat
  <2>1. pin \in Seq(Digits) /\ Len(pin) \in Nat
    BY <1>1, LenProperties DEF Typed
  <2>2. CASE pin = <<>>
    BY <1>2, <2>1, <2>2
  <2>3. CASE pin # <<>>
    <3>1. Len(pin) - 1 \in Nat
      BY <2>1, <2>3, EmptySeq
    <3>2. Front(pin) \in Seq(Digits) /\ Len(Front(pin)) = Len(pin) - 1
      <4>1. \A i \in 1 .. (Len(pin) - 1) : pin[i] \in Digits
        BY <2>1
      <4>2. SubSeq(pin, 1, Len(pin) - 1) \in Seq(Digits)
        BY <3>1, <4>1, SubSeqProperties
      <4>3. Len(SubSeq(pin, 1, Len(pin) - 1)) = Len(pin) - 1
        <5> DEFINE n == Len(pin) - 1
        <5>1. n \in Int
          BY <3>1
        <5> HIDE DEF n
        <5>2. Len(SubSeq(pin, 1, n)) = IF 1 <= n THEN n - 1 + 1 ELSE 0
          BY <4>1, <5>1, SubSeqProperties DEF n
        <5> QED
          BY <3>1, <5>2 DEF n
      <4> QED
        BY <4>2, <4>3 DEF Front
    <3> QED
      BY <1>2, <2>1, <2>3, <3>1, <3>2
  <2> QED
    BY <2>2, <2>3
<1>4. PinPending' = PinPending /\ Owed' = Owed /\ BalancePending' = BalancePending
  BY <1>1, <1>2, AtmTakes
<1>5. Paid' = Paid
  BY <1>1, <1>2, AtmGetsCounts DEF Paid
<1>6. Typed'
  <2>1. Len(pin) < PinLength /\ PinLength \in Nat /\ Len(pin) \in Nat
    BY <1>1, ATMAssumption, LenProperties DEF Typed, PinLength
  <2>2. Len(pin') < PinLength /\ Len(pin') <= PinLength
    BY <1>3, <2>1
  <2> QED
    BY <1>1, <1>2, <1>3, <2>2, AtmTyped DEF Typed
<1>7. AnswerOK'
  BY <1>1, <1>2 DEF AnswerOK
<1>8. MoneyOK'
  BY <1>1, <1>2, <1>4, <1>5, <1>6, MoneyStep, CountsAreNat DEF IInv, Lost
<1>9. PinOK'
  <2> SUFFICES ASSUME cancels'.verifying_pin = 0 PROVE PinOK'
    BY DEF PinOK
  <2>1. PinPending = 0
    BY <1>1, <1>2, CountsAreNat DEF IInv, PinOK
  <2>2. Count(atmQ', "PinVerified") = 0 /\ \A i \in DOMAIN bankQ' : bankQ'[i].kind # "VerifyPin"
    BY <1>1, <1>2, <2>1, NoPinPending, AtmGetsCounts
  <2> QED
    BY <1>1, <1>2, <1>4, <2>1, <2>2 DEF PinOK
<1> QED
  BY <1>6, <1>7, <1>8, <1>9

\* The answer that lets the customer on.
LEMMA PinVerifiedStep ==
  ASSUME IInv, PinVerified
  PROVE  Typed' /\ AnswerOK' /\ MoneyOK' /\ PinOK'
<1> USE DEF queues, atmVars, bankVars, history, mainVars, Account
<1>1. Typed /\ AtmGets("PinVerified") /\ state = "verifying_pin" /\ called' \in BOOLEAN
  <2>1. called' = FALSE
    BY DEF PinVerified, AtmHandles
  <2> QED
    BY <2>1, HandledIn DEF IInv, Typed, PinVerified, AtmHandles
<1>2. /\ state' = "wait_for_action"
      /\ UNCHANGED <<bankQ, ifQ, pin, amount, balance, debit, running, main, keys, dispensed, cancels>>
  BY DEF PinVerified
<1>3. PinPending' = PinPending - 1 /\ Owed' = Owed
  BY <1>1, <1>2, AtmTakes
<1>4. Paid' = Paid
  BY <1>1, <1>2, AtmGetsCounts DEF Paid
<1>5. Typed'
  <2>1. state' \in DOMAIN Handles
    BY <1>2, States
  <2> QED
    BY <1>1, <1>2, <2>1, AtmTyped DEF Typed
<1>6. AnswerOK'
  BY <1>2 DEF AnswerOK
<1>7. MoneyOK'
  BY <1>1, <1>2, <1>3, <1>4, <1>5, MoneyStep, CountsAreNat DEF IInv, Lost
<1>8. PinOK'
  <2> SUFFICES ASSUME cancels'.verifying_pin = 0 PROVE PinOK'
    BY DEF PinOK
  <2>1. PinPending <= 1 /\ PinPending \in Nat
    BY <1>1, <1>2, CountsAreNat DEF IInv, PinOK
  <2>2. /\ Count(atmQ, "PinVerified") > 0
        /\ Count(atmQ', "PinVerified") = Count(atmQ, "PinVerified") - 1
        /\ Count(atmQ', "PinIncorrect") = Count(atmQ, "PinIncorrect")
        /\ Count(atmQ, "PinVerified") \in Nat
    BY <1>1, AtmGetsCounts
  <2>3. pin' = CorrectPin
    BY <1>2, <2>2 DEF IInv, PinOK
  <2>4. \A i \in DOMAIN bankQ' : bankQ'[i].kind = "VerifyPin" => bankQ'[i].pin = pin'
    BY <1>2 DEF IInv, PinOK
  <2> QED
    BY <1>2, <1>3, <2>1, <2>3, <2>4 DEF PinOK
<1> QED
  BY <1>5, <1>6, <1>7, <1>8

\* The answer that sends the card back.
LEMMA PinIncorrectStep ==
  ASSUME IInv, PinIncorrect
  PROVE  Typed' /\ AnswerOK' /\ MoneyOK' /\ PinOK'
<1> USE DEF queues, atmVars, bankVars, history, mainVars, Account
<1>1. Typed /\ AtmGets("PinIncorrect") /\ state = "verifying_pin" /\ called' \in BOOLEAN
  <2>1. called' = FALSE
    BY DEF PinIncorrect, AtmHandles
  <2> QED
    BY <2>1, HandledIn DEF IInv, Typed, PinIncorrect, AtmHandles
<1>2. /\ state' = "done_processing" /\ ifQ' = Show(ifQ)
      /\ UNCHANGED <<bankQ, pin, amount, balance, debit, running, main, keys, dispensed, cancels>>
  BY DEF PinIncorrect
<1>3. PinPending' = PinPending - 1 /\ Owed' = Owed
  BY <1>1, <1>2, AtmTakes
<1>4. Paid' = Paid /\ ifQ' \in Seq(IfMsgs)
  <2>1. ifQ \in Seq(IfMsgs)
    BY <1>1 DEF Typed
  <2>2. ifQ' \in Seq(IfMsgs) /\ Count(ifQ', "IssueMoney") = Count(ifQ, "IssueMoney")
    BY <1>2, <2>1, Shown
  <2> QED
    BY <1>1, <2>2, AtmGetsCounts DEF Paid
<1>5. Typed'
  <2>1. state' \in DOMAIN Handles
    BY <1>2, States
  <2> QED
    BY <1>1, <1>2, <1>4, <2>1, AtmTyped DEF Typed
<1>6. AnswerOK'
  BY <1>2 DEF AnswerOK
<1>7. MoneyOK'
  BY <1>1, <1>2, <1>3, <1>4, <1>5, MoneyStep, CountsAreNat DEF IInv, Lost
<1>8. PinOK'
  <2> SUFFICES ASSUME cancels'.verifying_pin = 0 PROVE PinOK'
    BY DEF PinOK
  <2>1. PinPending <= 1 /\ PinPending \in Nat
    BY <1>1, <1>2, CountsAreNat DEF IInv, PinOK
  <2>2. Count(atmQ', "PinVerified") = Count(atmQ, "PinVerified")
    BY <1>1, AtmGetsCounts
  <2> QED
    BY <1>2, <1>3, <2>1, <2>2 DEF IInv, PinOK
<1> QED
  BY <1>5, <1>6, <1>7, <1>8

\* The ATM asks the bank for something else than a PIN: the PIN is as right as it was.
LEMMA PinKept ==
  ASSUME IInv, cancels' = cancels, pin' = pin, state' # "verifying_pin",
         state \in {"wait_for_action", "process_withdrawal", "process_balance"},
         PinPending' = PinPending,
         Count(atmQ', "PinVerified") = Count(atmQ, "PinVerified"),
         \A i \in DOMAIN bankQ' : \/ i \in DOMAIN bankQ /\ bankQ'[i] = bankQ[i]
                                  \/ bankQ'[i].kind # "VerifyPin"
  PROVE  PinOK'
<1> SUFFICES ASSUME cancels'.verifying_pin = 0 PROVE PinOK'
  BY DEF PinOK
<1>1. PinPending' <= 0 /\ pin' = CorrectPin
  BY DEF IInv, PinOK
<1>2. \A i \in DOMAIN bankQ' : bankQ'[i].kind = "VerifyPin" => bankQ'[i].pin = pin'
  BY DEF IInv, PinOK
<1> QED
  BY <1>1, <1>2 DEF PinOK

\* Asking the bank for money.
LEMMA WithdrawPressedStep ==
  ASSUME IInv, WithdrawPressed
  PROVE  Typed' /\ AnswerOK' /\ MoneyOK' /\ PinOK'
<1> USE DEF queues, atmVars, bankVars, history, mainVars, Account
<1>1. Typed /\ AtmGets("WithdrawPressed") /\ state = "wait_for_action" /\ called' \in BOOLEAN
  <2>1. called' = FALSE
    BY DEF WithdrawPressed, AtmHandles
  <2> QED
    BY <2>1, HandledIn DEF IInv, Typed, WithdrawPressed, AtmHandles
<1> DEFINE m == [kind |-> "Withdraw", amount |-> Amount]
<1>2. /\ state' = "process_withdrawal" /\ amount' = Amount /\ bankQ' = Append(bankQ, m)
      /\ UNCHANGED <<ifQ, pin, balance, debit, running, main, keys, dispensed, cancels>>
  BY DEF WithdrawPressed
<1>3. m \in BankMsgs /\ m.kind = "Withdraw"
  BY DEF BankMsgs
<1> HIDE DEF m
<1>4. /\ bankQ' \in Seq(BankMsgs)
      /\ \A j : j # "Withdraw" => Count(bankQ', j) = Count(bankQ, j)
      /\ Count(bankQ', "Withdraw") = Count(bankQ, "Withdraw") + 1
      /\ \A i \in DOMAIN bankQ' : (i \in DOMAIN bankQ /\ bankQ'[i] = bankQ[i]) \/ bankQ'[i] = m
  BY <1>1, <1>2, <1>3, BankSent
<1>5. \A j : j # "WithdrawPressed" => Count(atmQ', j) = Count(atmQ, j)
  BY <1>1, AtmGetsCounts
<1>6. PinPending' = PinPending /\ Owed' = Owed + 1 /\ Paid' = Paid
  <2>1. Count(atmQ, "WithdrawOk") \in Nat /\ Count(atmQ, "WithdrawDenied") \in Nat
        /\ Count(bankQ, "Withdraw") \in Nat
    BY <1>1, CountsAreNat
  <2>2. /\ Count(atmQ', "WithdrawOk") = Count(atmQ, "WithdrawOk")
        /\ Count(atmQ', "WithdrawDenied") = Count(atmQ, "WithdrawDenied")
    BY <1>5
  <2>3. Owed' = Owed + 1
    BY <1>4, <2>1, <2>2 DEF Owed
  <2>4. PinPending' = PinPending
    BY <1>4, <1>5 DEF PinPending
  <2>5. Paid' = Paid
    BY <1>2, <2>2 DEF Paid
  <2> QED
    BY <2>3, <2>4, <2>5
<1>7. Typed'
  <2>1. state' \in DOMAIN Handles
    BY <1>2, States
  <2> QED
    BY <1>1, <1>2, <1>4, <2>1, AtmTyped DEF Typed
<1>8. AnswerOK'
  BY <1>1, <1>2, <1>6, CountsAreNat DEF AnswerOK
<1>9. MoneyOK'
  <2>1. cancels.process_withdrawal \in Nat
    BY <1>1, States DEF Typed
  <2>2. Lost' = Lost
    BY <1>1, <1>2, <1>6, <2>1, CountsAreNat DEF Lost
  <2> QED
    BY <1>1, <1>2, <1>6, <1>7, <2>2, MoneyStep, CountsAreNat DEF IInv
<1>10. PinOK'
  BY <1>1, <1>2, <1>3, <1>4, <1>5, <1>6, PinKept
<1> QED
  BY <1>7, <1>8, <1>9, <1>10

\* Asking the bank for the balance.
LEMMA BalancePressedStep ==
  ASSUME IInv, BalancePressed
  PROVE  Typed' /\ AnswerOK' /\ MoneyOK' /\ PinOK'
<1> USE DEF queues, atmVars, bankVars, history, mainVars, Account
<1>1. Typed /\ AtmGets("BalancePressed") /\ state = "wait_for_action" /\ called' \in BOOLEAN
  <2>1. called' = FALSE
    BY DEF BalancePressed, AtmHandles
  <2> QED
    BY <2>1, HandledIn DEF IInv, Typed, BalancePressed, AtmHandles
<1> DEFINE m == Msg("GetBalance")
<1>2. /\ state' = "process_balance" /\ bankQ' = Append(bankQ, m)
      /\ UNCHANGED <<ifQ, pin, amount, balance, debit, running, main, keys, dispensed, cancels>>
  BY DEF BalancePressed
<1>3. m \in BankMsgs /\ m.kind = "GetBalance"
  BY DEF BankMsgs, Msg
<1> HIDE DEF m
<1>4. /\ bankQ' \in Seq(BankMsgs)
      /\ \A j : j # "GetBalance" => Count(bankQ', j) = Count(bankQ, j)
      /\ Count(bankQ', "GetBalance") = Count(bankQ, "GetBalance") + 1
      /\ \A i \in DOMAIN bankQ' : (i \in DOMAIN bankQ /\ bankQ'[i] = bankQ[i]) \/ bankQ'[i] = m
  BY <1>1, <1>2, <1>3, BankSent
<1>5. \A j : j # "BalancePressed" => Count(atmQ', j) = Count(atmQ, j)
  BY <1>1, AtmGetsCounts
<1>6. PinPending' = PinPending /\ Owed' = Owed /\ Paid' = Paid /\ BalancePending' = BalancePending + 1
  <2>1. Count(atmQ, "Balance") \in Nat /\ Count(bankQ, "GetBalance") \in Nat
    BY <1>1, CountsAreNat
  <2>2. Count(atmQ', "Balance") = Count(atmQ, "Balance")
    BY <1>5
  <2>3. BalancePending' = BalancePending + 1
    BY <1>4, <2>1, <2>2 DEF BalancePending
  <2> QED
    BY <1>2, <1>4, <1>5, <2>3 DEF PinPending, Owed, Paid
<1>7. Typed'
  <2>1. state' \in DOMAIN Handles
    BY <1>2, States
  <2> QED
    BY <1>1, <1>2, <1>4, <2>1, AtmTyped DEF Typed
<1>8. AnswerOK'
  BY <1>1, <1>2, <1>6, CountsAreNat DEF AnswerOK
<1>9. MoneyOK'
  BY <1>1, <1>2, <1>6, <1>7, MoneyStep, CountsAreNat DEF IInv, Lost
<1>10. PinOK'
  BY <1>1, <1>2, <1>3, <1>4, <1>5, <1>6, PinKept
<1> QED
  BY <1>7, <1>8, <1>9, <1>10

\* The answer that issues money.
LEMMA WithdrawOkStep ==
  ASSUME IInv, WithdrawOk
  PROVE  Typed' /\ AnswerOK' /\ MoneyOK' /\ PinOK'
<1> USE DEF queues, atmVars, bankVars, history, mainVars, Account
<1>1. Typed /\ AtmGets("WithdrawOk") /\ state = "process_withdrawal" /\ called' \in BOOLEAN
  <2>1. called' = FALSE
    BY DEF WithdrawOk, AtmHandles
  <2> QED
    BY <2>1, HandledIn DEF IInv, Typed, WithdrawOk, AtmHandles
<1> DEFINE m == [kind |-> "IssueMoney", amount |-> amount]
           w == Msg("WithdrawalProcessed")
<1>2. /\ state' = "done_processing" /\ ifQ' = Append(ifQ, m) /\ bankQ' = Append(bankQ, w)
      /\ UNCHANGED <<pin, amount, balance, debit, running, main, keys, dispensed, cancels>>
  BY DEF WithdrawOk
<1>3. m \in IfMsgs /\ m.kind = "IssueMoney" /\ w \in BankMsgs /\ w.kind = "WithdrawalProcessed"
  <2>1. amount = Amount
    BY <1>1 DEF Typed
  <2> QED
    BY <2>1 DEF IfMsgs, BankMsgs, Msg
<1> HIDE DEF m, w
<1>4. /\ bankQ' \in Seq(BankMsgs)
      /\ \A j : j # "WithdrawalProcessed" => Count(bankQ', j) = Count(bankQ, j)
      /\ \A i \in DOMAIN bankQ' : (i \in DOMAIN bankQ /\ bankQ'[i] = bankQ[i]) \/ bankQ'[i] = w
  BY <1>1, <1>2, <1>3, BankSent
<1>5. ifQ' \in Seq(IfMsgs) /\ Count(ifQ', "IssueMoney") = Count(ifQ, "IssueMoney") + 1
  BY <1>1, <1>2, <1>3, IfSent
<1>6. /\ \A j : j # "WithdrawOk" => Count(atmQ', j) = Count(atmQ, j)
      /\ Count(atmQ', "WithdrawOk") = Count(atmQ, "WithdrawOk") - 1
  BY <1>1, AtmGetsCounts
<1>7. PinPending' = PinPending /\ Owed' = Owed - 1 /\ Paid' = Paid
  <2>1. /\ Count(atmQ, "WithdrawOk") \in Nat /\ Count(atmQ, "WithdrawDenied") \in Nat
        /\ Count(bankQ, "Withdraw") \in Nat /\ Count(ifQ, "IssueMoney") \in Nat
    BY <1>1, CountsAreNat
  <2>2. /\ Count(bankQ', "Withdraw") = Count(bankQ, "Withdraw")
        /\ Count(atmQ', "WithdrawDenied") = Count(atmQ, "WithdrawDenied")
    BY <1>4, <1>6
  <2>3. Owed' = Owed - 1
    BY <1>6, <2>1, <2>2 DEF Owed
  <2>4. PinPending' = PinPending
    BY <1>4, <1>6 DEF PinPending
  <2>5. Paid' = Paid
    BY <1>5, <1>6, <2>1 DEF Paid
  <2> QED
    BY <2>3, <2>4, <2>5
<1>8. Typed'
  <2>1. state' \in DOMAIN Handles
    BY <1>2, States
  <2> QED
    BY <1>1, <1>2, <1>4, <1>5, <2>1, AtmTyped DEF Typed
<1>9. AnswerOK'
  BY <1>2 DEF AnswerOK
<1>10. MoneyOK'
  <2>1. cancels.process_withdrawal \in Nat
    BY <1>1, States DEF Typed
  <2>2. Lost' = Lost
    BY <1>1, <1>2, <1>7, <2>1, CountsAreNat DEF Lost
  <2> QED
    BY <1>1, <1>2, <1>7, <1>8, <2>2, MoneyStep, CountsAreNat DEF IInv
<1>11. PinOK'
  BY <1>1, <1>2, <1>3, <1>4, <1>6, <1>7, PinKept
<1> QED
  BY <1>8, <1>9, <1>10, <1>11

\* The answer that issues none.
LEMMA WithdrawDeniedStep ==
  ASSUME IInv, WithdrawDenied
  PROVE  Typed' /\ AnswerOK' /\ MoneyOK' /\ PinOK'
<1> USE DEF queues, atmVars, bankVars, history, mainVars, Account
<1>1. Typed /\ AtmGets("WithdrawDenied") /\ state = "process_withdrawal" /\ called' \in BOOLEAN
  <2>1. called' = FALSE
    BY DEF WithdrawDenied, AtmHandles
  <2> QED
    BY <2>1, HandledIn DEF IInv, Typed, WithdrawDenied, AtmHandles
<1>2. /\ state' = "done_processing" /\ ifQ' = Show(ifQ)
      /\ UNCHANGED <<bankQ, pin, amount, balance, debit, running, main, keys, dispensed, cancels>>
  BY DEF WithdrawDenied
<1>3. PinPending' = PinPending /\ Owed' = Owed - 1
  BY <1>1, <1>2, AtmTakes
<1>4. \A j : j # "WithdrawDenied" => Count(atmQ', j) = Count(atmQ, j)
  BY <1>1, AtmGetsCounts
<1>5. Paid' = Paid /\ ifQ' \in Seq(IfMsgs)
  <2>1. ifQ \in Seq(IfMsgs)
    BY <1>1 DEF Typed
  <2>2. ifQ' \in Seq(IfMsgs) /\ Count(ifQ', "IssueMoney") = Count(ifQ, "IssueMoney")
    BY <1>2, <2>1, Shown
  <2> QED
    BY <1>4, <2>2 DEF Paid
<1>6. Typed'
  <2>1. state' \in DOMAIN Handles
    BY <1>2, States
  <2> QED
    BY <1>1, <1>2, <1>5, <2>1, AtmTyped DEF Typed
<1>7. AnswerOK'
  BY <1>2 DEF AnswerOK
<1>8. MoneyOK'
  <2>1. cancels.process_withdrawal \in Nat
    BY <1>1, States DEF Typed
  <2>2. Lost' = Lost
    BY <1>1, <1>2, <1>3, <2>1, CountsAreNat DEF Lost
  <2> QED
    BY <1>1, <1>2, <1>5, <1>6, <2>2, MoneyStep, CountsAreNat DEF IInv
<1>9. PinOK'
  BY <1>1, <1>2, <1>3, <1>4, PinKept
<1> QED
  BY <1>6, <1>7, <1>8, <1>9

\* The answer that shows the balance.
LEMMA BalanceAnswerStep ==
  ASSUME IInv, BalanceAnswer
  PROVE  Typed' /\ AnswerOK' /\ MoneyOK' /\ PinOK'
<1> USE DEF queues, atmVars, bankVars, history, mainVars, Account
<1>1. Typed /\ AtmGets("Balance") /\ state = "process_balance" /\ called' \in BOOLEAN
  <2>1. called' = FALSE
    BY DEF BalanceAnswer, AtmHandles
  <2> QED
    BY <2>1, HandledIn DEF IInv, Typed, BalanceAnswer, AtmHandles
<1>2. /\ state' = "wait_for_action" /\ ifQ' = Show(ifQ)
      /\ UNCHANGED <<bankQ, pin, amount, balance, debit, running, main, keys, dispensed, cancels>>
  BY DEF BalanceAnswer
<1>3. PinPending' = PinPending /\ Owed' = Owed
  BY <1>1, <1>2, AtmTakes
<1>4. \A j : j # "Balance" => Count(atmQ', j) = Count(atmQ, j)
  BY <1>1, AtmGetsCounts
<1>5. Paid' = Paid /\ ifQ' \in Seq(IfMsgs)
  <2>1. ifQ \in Seq(IfMsgs)
    BY <1>1 DEF Typed
  <2>2. ifQ' \in Seq(IfMsgs) /\ Count(ifQ', "IssueMoney") = Count(ifQ, "IssueMoney")
    BY <1>2, <2>1, Shown
  <2> QED
    BY <1>4, <2>2 DEF Paid
<1>6. Typed'
  <2>1. state' \in DOMAIN Handles
    BY <1>2, States
  <2> QED
    BY <1>1, <1>2, <1>5, <2>1, AtmTyped DEF Typed
<1>7. AnswerOK'
  BY <1>2 DEF AnswerOK
<1>8. MoneyOK'
  BY <1>1, <1>2, <1>3, <1>5, <1>6, MoneyStep, CountsAreNat DEF IInv, Lost
<1>9. PinOK'
  BY <1>1, <1>2, <1>3, <1>4, PinKept
<1> QED
  BY <1>6, <1>7, <1>8, <1>9

\* Cancelling, wherever the dialogue is.
LEMMA CancelPressedStep ==
  ASSUME IInv, CancelPressed
  PROVE  Typed' /\ AnswerOK' /\ MoneyOK' /\ PinOK'
<1> USE DEF queues, atmVars, bankVars, history, mainVars, Account
<1>1. Typed /\ AtmGets("CancelPressed") /\ called' \in BOOLEAN
  <2>1. called' = FALSE
    BY DEF CancelPressed, AtmHandles
  <2> QED
    BY <2>1 DEF IInv, CancelPressed, AtmHandles
<1> DEFINE w == Msg("CancelWithdrawal")
<1>2. /\ state' = "done_processing"
      /\ cancels' = [s \in DOMAIN Awaits |-> cancels[s] + IF s = state THEN 1 ELSE 0]
      /\ UNCHANGED <<pin, amount, balance, debit, running, main, keys, dispensed>>
      /\ \/ bankQ' = Append(bankQ, w) /\ ifQ' = Show(ifQ)
         \/ bankQ' = bankQ /\ ifQ' = ifQ
  BY DEF CancelPressed
<1>3. w \in BankMsgs /\ w.kind = "CancelWithdrawal"
  BY DEF BankMsgs, Msg
<1> HIDE DEF w
<1>4. /\ bankQ' \in Seq(BankMsgs)
      /\ \A j : j # "CancelWithdrawal" => Count(bankQ', j) = Count(bankQ, j)
      /\ \A i \in DOMAIN bankQ' : (i \in DOMAIN bankQ /\ bankQ'[i] = bankQ[i]) \/ bankQ'[i] = w
  <2>1. CASE bankQ' = bankQ
    BY <1>1, <2>1 DEF Typed
  <2>2. CASE bankQ' = Append(bankQ, w)
    BY <1>1, <1>3, <2>2, BankSent
  <2> QED
    BY <1>2, <2>1, <2>2
<1>5. ifQ' \in Seq(IfMsgs) /\ Count(ifQ', "IssueMoney") = Count(ifQ, "IssueMoney")
  <2>1. ifQ \in Seq(IfMsgs)
    BY <1>1 DEF Typed
  <2> QED
    BY <1>2, <2>1, Shown
<1>6. /\ \A j : j # "CancelPressed" => Count(atmQ', j) = Count(atmQ, j)
      /\ Count(atmQ', "CancelPressed") = Count(atmQ, "CancelPressed") - 1
      /\ Count(atmQ', "CancelPressed") \in Nat /\ Count(atmQ, "CancelPressed") \in Nat
  BY <1>1, AtmGetsCounts
<1>7. PinPending' = PinPending /\ Owed' = Owed /\ Paid' = Paid
  BY <1>4, <1>5, <1>6 DEF PinPending, Owed, Paid
<1>8. Typed'
  <2>1. /\ cancels' \in [DOMAIN Awaits -> Nat]
        /\ \A s \in DOMAIN Awaits : cancels'[s] \in {cancels[s], cancels[s] + 1}
        /\ \A s \in DOMAIN Awaits : cancels[s] \in Nat
    BY <1>1, <1>2 DEF Typed
  <2>2. \A s \in DOMAIN Awaits : cancels'[s] + Count(atmQ', "CancelPressed") <= keys'
    BY <1>1, <1>2, <1>6, <2>1 DEF Typed
  <2>3. state' \in DOMAIN Handles /\ atmQ' \in Seq(AtmMsgs)
    BY <1>1, <1>2, States, AtmGetsMsg
  <2> QED
    BY <1>1, <1>2, <1>4, <1>5, <2>1, <2>2, <2>3 DEF Typed
<1>9. AnswerOK'
  BY <1>2 DEF AnswerOK
<1>10. MoneyOK'
  <2>1. /\ cancels.process_withdrawal \in Nat
        /\ cancels'.process_withdrawal = cancels.process_withdrawal +
              IF state = "process_withdrawal" THEN 1 ELSE 0
    BY <1>1, <1>2, States DEF Typed
  <2>2. CASE state = "process_withdrawal"
    <3>1. Lost' = Lost
      BY <1>1, <1>2, <1>7, <2>1, <2>2, CountsAreNat DEF Lost
    <3> QED
      BY <1>1, <1>2, <1>7, <1>8, <3>1, MoneyStep, CountsAreNat DEF IInv
  <2>3. CASE state # "process_withdrawal"
    <3>1. Lost' = Lost
      BY <1>1, <1>2, <1>7, <2>1, <2>3, CountsAreNat DEF Lost
    <3> QED
      BY <1>1, <1>2, <1>7, <1>8, <3>1, MoneyStep, CountsAreNat DEF IInv
  <2> QED
    BY <2>2, <2>3
<1>11. PinOK'
  <2> SUFFICES ASSUME cancels'.verifying_pin = 0 PROVE PinOK'
    BY DEF PinOK
  <2>1. cancels.verifying_pin = 0 /\ state # "verifying_pin"
    <3>1. /\ cancels.verifying_pin \in Nat
          /\ cancels'.verifying_pin = cancels.verifying_pin + IF state = "verifying_pin" THEN 1 ELSE 0
      BY <1>1, <1>2, States DEF Typed
    <3> QED
      BY <3>1
  <2>2. \A i \in DOMAIN bankQ' : bankQ'[i].kind = "VerifyPin" => bankQ'[i].pin = pin'
    BY <1>2, <1>3, <1>4, <2>1 DEF IInv, PinOK
  <2>3. Count(atmQ', "PinVerified") = Count(atmQ, "PinVerified")
    BY <1>6
  <2> QED
    BY <1>2, <1>7, <2>1, <2>2, <2>3 DEF IInv, PinOK
<1> QED
  BY <1>8, <1>9, <1>10, <1>11

\* A message is thrown away: an approval thrown away is an amount that is lost.
LEMMA AtmDropsStep ==
  ASSUME IInv, AtmDrops
  PROVE  Typed' /\ AnswerOK' /\ MoneyOK' /\ PinOK'
<1> USE DEF queues, atmVars, bankVars, history, mainVars, Account
<1>0. Typed /\ state \in DOMAIN Handles
  BY DEF IInv, Typed
<1>1. PICK k : /\ AtmGets(k)
               /\ state = "verifying_pin" => k \notin {"PinVerified", "PinIncorrect"}
               /\ state = "process_withdrawal" => k \notin {"WithdrawOk", "WithdrawDenied"}
               /\ state = "process_balance" => k # "Balance"
  BY <1>0, DroppedKinds
<1>2. UNCHANGED <<bankQ, ifQ, state, called, pin, amount, balance, debit, running, main, keys,
                  dispensed, cancels>>
  BY DEF AtmDrops
<1>3. /\ IF k \in {"PinVerified", "PinIncorrect"} THEN PinPending' = PinPending - 1
                                                  ELSE PinPending' = PinPending
      /\ IF k \in {"WithdrawOk", "WithdrawDenied"} THEN Owed' = Owed - 1 ELSE Owed' = Owed
      /\ IF k = "Balance" THEN BalancePending' = BalancePending - 1
                          ELSE BalancePending' = BalancePending
  BY <1>0, <1>1, <1>2, AtmTakes
<1>4. /\ \A j : j # k => Count(atmQ', j) = Count(atmQ, j)
      /\ Count(atmQ', k) = Count(atmQ, k) - 1
      /\ \A j : Count(atmQ, j) \in Nat
  BY <1>0, <1>1, AtmGetsCounts
<1>5. IF k = "WithdrawOk" THEN Paid' = Paid - 1 ELSE Paid' = Paid
  BY <1>0, <1>2, <1>4, CountsAreNat DEF Paid
<1>6. Typed'
  BY <1>0, <1>1, <1>2, AtmTyped DEF Typed
<1>7. AnswerOK'
  BY <1>1, <1>2, <1>3 DEF IInv, AnswerOK
<1>8. MoneyOK'
  <2>1. cancels.process_withdrawal \in Nat
    BY <1>0, States DEF Typed
  <2>2. CASE k \in {"WithdrawOk", "WithdrawDenied"}
    <3>1. Lost' = Lost + 1
      BY <1>0, <1>2, <1>3, <2>1, <2>2, CountsAreNat DEF Lost
    <3>2. Lost' >= Lost
      BY <1>0, <3>1, CountsAreNat
    <3> QED
      BY <1>0, <1>2, <1>5, <1>6, <3>1, <3>2, MoneyStep DEF IInv
  <2>3. CASE k \notin {"WithdrawOk", "WithdrawDenied"}
    <3>1. Lost' = Lost /\ Paid' = Paid
      BY <1>2, <1>3, <1>5, <2>3 DEF Lost
    <3> QED
      BY <1>0, <1>2, <1>6, <3>1, MoneyStep, CountsAreNat DEF IInv
  <2> QED
    BY <2>2, <2>3
<1>9. PinOK'
  <2> SUFFICES ASSUME cancels'.verifying_pin = 0 PROVE PinOK'
    BY DEF PinOK
  <2>1. PinPending' <= PinPending /\ PinPending \in Nat /\ PinPending' \in Int
    BY <1>0, <1>3, CountsAreNat
  <2>2. Count(atmQ', "PinVerified") <= Count(atmQ, "PinVerified") /\ Count(atmQ', "PinVerified") \in Int
    BY <1>4
  <2>3. Count(atmQ', "PinVerified") > 0 => Count(atmQ, "PinVerified") > 0
    BY <1>4, <2>2
  <2>4. PinPending' <= IF state' = "verifying_pin" THEN 1 ELSE 0
    BY <1>2, <2>1 DEF IInv, PinOK
  <2> QED
    BY <1>2, <2>3, <2>4 DEF IInv, PinOK
<1> QED
  BY <1>6, <1>7, <1>8, <1>9

\* run() calls a state function; the machine is closed.
LEMMA AtmRunsStep ==
  ASSUME IInv, CallState \/ CallDoneProcessing \/ AtmCloses
  PROVE  Typed' /\ AnswerOK' /\ MoneyOK' /\ PinOK'
<1> USE DEF queues, atmVars, bankVars, history, mainVars, Account
<1>0. Typed /\ ifQ \in Seq(IfMsgs)
  BY DEF IInv, Typed
<1>1. CASE CallState
  <2>1. /\ UNCHANGED <<atmQ, bankQ, state, pin, amount, balance, debit, running, main, keys, dispensed, cancels>>
        /\ called' = TRUE /\ ifQ' \in {Show(ifQ), ifQ}
    BY <1>1 DEF CallState
  <2>2. ifQ' \in Seq(IfMsgs) /\ Count(ifQ', "IssueMoney") = Count(ifQ, "IssueMoney")
    BY <1>0, <2>1, Shown
  <2>3. Typed'
    <3>1. called' \in BOOLEAN
      BY <2>1
    <3> QED
      BY <1>0, <2>1, <2>2, <3>1 DEF Typed
  <2>4. AnswerOK' /\ MoneyOK' /\ PinOK'
    BY <2>1, <2>2, Neutral
  <2> QED
    BY <2>3, <2>4
<1>2. CASE CallDoneProcessing
  <2>1. /\ UNCHANGED <<atmQ, bankQ, called, pin, amount, balance, debit, running, main, keys, dispensed, cancels>>
        /\ state = "done_processing" /\ state' = "waiting_for_card" /\ ifQ' = Show(ifQ)
    BY <1>2 DEF CallDoneProcessing
  <2>2. ifQ' \in Seq(IfMsgs) /\ Count(ifQ', "IssueMoney") = Count(ifQ, "IssueMoney")
    BY <1>0, <2>1, Shown
  <2>3. PinPending' = PinPending /\ Owed' = Owed /\ Paid' = Paid
    BY <2>1, <2>2 DEF PinPending, Owed, Paid
  <2>4. Typed'
    <3>1. state' \in DOMAIN Handles
      BY <2>1, States
    <3> QED
      BY <1>0, <2>1, <2>2, <3>1 DEF Typed
  <2>5. AnswerOK'
    BY <2>1 DEF AnswerOK
  <2>6. MoneyOK'
    BY <1>0, <2>1, <2>3, <2>4, MoneyStep, CountsAreNat DEF IInv, Lost
  <2>7. PinOK'
    BY <2>1, <2>3 DEF IInv, PinOK
  <2> QED
    BY <2>4, <2>5, <2>6, <2>7
<1>3. CASE AtmCloses
  <2>1. /\ AtmGets("CloseQueue") /\ running' \subseteq running
        /\ UNCHANGED <<bankQ, ifQ, state, called, pin, amount, balance, debit, main, keys, dispensed, cancels>>
    BY <1>3 DEF AtmCloses
  <2>2. Typed'
    BY <1>0, <2>1, AtmTyped DEF Typed
  <2>3. \A j : j # "CloseQueue" => Count(atmQ', j) = Count(atmQ, j)
    BY <1>0, <2>1, AtmGetsCounts
  <2>4. AnswerOK' /\ MoneyOK' /\ PinOK'
    BY <2>1, <2>3, Neutral
  <2> QED
    BY <2>2, <2>4
<1> QED
  BY <1>1, <1>2, <1>3
-------------------------------------------------------------------------------
(* The bank. *)

\* The types after the bank has taken a message of kind k and sent at most one answer.
LEMMA BankTyped ==
  ASSUME Typed, NEW k, BankGets(k), NEW m \in AtmMsgs, m.kind # "CancelPressed",
         atmQ' = atmQ \/ atmQ' = Append(atmQ, m),
         UNCHANGED <<ifQ, state, called, pin, amount, main, keys, dispensed, cancels>>,
         balance' \in Nat, debit' \in {0, Amount}, debit' <= balance',
         running' \subseteq {"atm", "bank", "interface"}
  PROVE  Typed'
<1>1. atmQ' \in Seq(AtmMsgs) /\ Count(atmQ', "CancelPressed") = Count(atmQ, "CancelPressed")
  <2>1. CASE atmQ' = atmQ
    BY <2>1 DEF Typed
  <2>2. CASE atmQ' = Append(atmQ, m)
    BY <2>2, AtmSent
  <2> QED
    BY <2>1, <2>2
<1>2. bankQ' \in Seq(BankMsgs)
  BY BankGetsMsg
<1> QED
  BY <1>1, <1>2 DEF Typed

\* What a request turned into an answer changes: nothing is more or less pending.
LEMMA BankAnswers ==
  ASSUME Typed, NEW k, BankGets(k), NEW m \in AtmMsgs, atmQ' = Append(atmQ, m),
         \/ k = "VerifyPin" /\ m.kind \in {"PinVerified", "PinIncorrect"}
         \/ k = "Withdraw" /\ m.kind \in {"WithdrawOk", "WithdrawDenied"}
         \/ k = "GetBalance" /\ m.kind = "Balance"
  PROVE  /\ PinPending' = PinPending /\ Owed' = Owed /\ BalancePending' = BalancePending
         /\ \A j : j # m.kind => Count(atmQ', j) = Count(atmQ, j)
         /\ Count(atmQ', m.kind) = Count(atmQ, m.kind) + 1
<1>1. /\ \A j : j # k => Count(bankQ', j) = Count(bankQ, j)
      /\ Count(bankQ', k) = Count(bankQ, k) - 1
      /\ \A j : Count(atmQ, j) \in Nat /\ Count(bankQ, j) \in Nat
  <2>1. /\ \A j : Count(bankQ', j) = Count(bankQ, j) - IF j = k THEN 1 ELSE 0
        /\ \A j : Count(bankQ, j) \in Nat
    BY BankGetsMsg
  <2> QED
    BY <2>1, CountsAreNat
<1>2. /\ \A j : j # m.kind => Count(atmQ', j) = Count(atmQ, j)
      /\ Count(atmQ', m.kind) = Count(atmQ, m.kind) + 1
  BY AtmSent
<1>3. CASE k = "VerifyPin" /\ m.kind \in {"PinVerified", "PinIncorrect"}
  <2>1. /\ Count(bankQ', "VerifyPin") = Count(bankQ, "VerifyPin") - 1
        /\ \/ /\ Count(atmQ', "PinVerified") = Count(atmQ, "PinVerified") + 1
              /\ Count(atmQ', "PinIncorrect") = Count(atmQ, "PinIncorrect")
           \/ /\ Count(atmQ', "PinVerified") = Count(atmQ, "PinVerified")
              /\ Count(atmQ', "PinIncorrect") = Count(atmQ, "PinIncorrect") + 1
    BY <1>1, <1>2, <1>3
  <2>2. PinPending' = PinPending
    <3>1. /\ Count(bankQ, "VerifyPin") \in Nat /\ Count(atmQ, "PinVerified") \in Nat
          /\ Count(atmQ, "PinIncorrect") \in Nat
      BY <1>1
    <3>2. CASE Count(atmQ', "PinVerified") = Count(atmQ, "PinVerified")
      BY <2>1, <3>1, <3>2 DEF PinPending
    <3>3. CASE Count(atmQ', "PinIncorrect") = Count(atmQ, "PinIncorrect")
      <4>1. /\ Count(bankQ', "VerifyPin") + Count(atmQ', "PinVerified")
                  = Count(bankQ, "VerifyPin") + Count(atmQ, "PinVerified")
        BY <2>1, <3>1, <3>3
      <4> QED
        BY <3>3, <4>1 DEF PinPending
    <3> QED
      BY <2>1, <3>2, <3>3
  <2>3. Owed' = Owed /\ BalancePending' = BalancePending
    BY <1>1, <1>2, <1>3 DEF Owed, BalancePending
  <2> QED
    BY <1>2, <2>2, <2>3
<1>4. CASE k = "Withdraw" /\ m.kind \in {"WithdrawOk", "WithdrawDenied"}
  <2>1. /\ Count(bankQ', "Withdraw") = Count(bankQ, "Withdraw") - 1
        /\ \/ /\ Count(atmQ', "WithdrawOk") = Count(atmQ, "WithdrawOk") + 1
              /\ Count(atmQ', "WithdrawDenied") = Count(atmQ, "WithdrawDenied")
           \/ /\ Count(atmQ', "WithdrawOk") = Count(atmQ, "WithdrawOk")
              /\ Count(atmQ', "WithdrawDenied") = Count(atmQ, "WithdrawDenied") + 1
    BY <1>1, <1>2, <1>4
  <2>2. Owed' = Owed
    <3>1. /\ Count(bankQ, "Withdraw") \in Nat /\ Count(atmQ, "WithdrawOk") \in Nat
          /\ Count(atmQ, "WithdrawDenied") \in Nat
      BY <1>1
    <3>2. CASE Count(atmQ', "WithdrawOk") = Count(atmQ, "WithdrawOk")
      BY <2>1, <3>1, <3>2 DEF Owed
    <3>3. CASE Count(atmQ', "WithdrawDenied") = Count(atmQ, "WithdrawDenied")
      <4>1. /\ Count(bankQ', "Withdraw") + Count(atmQ', "WithdrawOk")
                  = Count(bankQ, "Withdraw") + Count(atmQ, "WithdrawOk")
        BY <2>1, <3>1, <3>3
      <4> QED
        BY <3>3, <4>1 DEF Owed
    <3> QED
      BY <2>1, <3>2, <3>3
  <2>3. PinPending' = PinPending /\ BalancePending' = BalancePending
    BY <1>1, <1>2, <1>4 DEF PinPending, BalancePending
  <2> QED
    BY <1>2, <2>2, <2>3
<1>5. CASE k = "GetBalance" /\ m.kind = "Balance"
  <2>1. /\ Count(bankQ', "GetBalance") = Count(bankQ, "GetBalance") - 1
        /\ Count(atmQ', "Balance") = Count(atmQ, "Balance") + 1
    BY <1>1, <1>2, <1>5
  <2>2. BalancePending' = BalancePending
    BY <1>1, <2>1 DEF BalancePending
  <2>3. PinPending' = PinPending /\ Owed' = Owed
    BY <1>1, <1>2, <1>5 DEF PinPending, Owed
  <2> QED
    BY <1>2, <2>2, <2>3
<1> QED
  BY <1>3, <1>4, <1>5

\* What is left in the bank's queue was in it before.
LEMMA BankQueueShrinks ==
  ASSUME Typed, NEW k, BankGets(k)
  PROVE  /\ \A i \in DOMAIN bankQ' : \E j \in DOMAIN bankQ : bankQ[j] = bankQ'[i]
         /\ \A j : j # k => Count(bankQ', j) = Count(bankQ, j)
  BY BankGetsMsg

\* The bank looks at the PIN.
LEMMA BankVerifiesPinStep ==
  ASSUME IInv, BankVerifiesPin
  PROVE  Typed' /\ AnswerOK' /\ MoneyOK' /\ PinOK'
<1> USE DEF queues, atmVars, bankVars, history, mainVars, Account
<1> DEFINE m == Msg(IF Head(bankQ).pin = CorrectPin THEN "PinVerified" ELSE "PinIncorrect")
<1>1. Typed /\ BankGets("VerifyPin")
  BY DEF IInv, BankVerifiesPin
<1>2. /\ atmQ' = Append(atmQ, m)
      /\ UNCHANGED <<ifQ, state, called, pin, amount, balance, debit, running, main, keys, dispensed, cancels>>
  BY DEF BankVerifiesPin
<1>3. /\ m \in AtmMsgs /\ m.kind \in {"PinVerified", "PinIncorrect"}
      /\ m.kind = "PinVerified" => Head(bankQ).pin = CorrectPin
  BY DEF AtmMsgs, Msg
<1> HIDE DEF m
<1>4. /\ PinPending' = PinPending /\ Owed' = Owed /\ BalancePending' = BalancePending
      /\ \A j : j # m.kind => Count(atmQ', j) = Count(atmQ, j)
      /\ Count(atmQ', m.kind) = Count(atmQ, m.kind) + 1
  BY <1>1, <1>2, <1>3, BankAnswers
<1>5. Paid' = Paid
  BY <1>2, <1>3, <1>4 DEF Paid
<1>6. Typed'
  <2>1. m.kind # "CancelPressed"
    BY <1>3
  <2> QED
    BY <1>1, <1>2, <1>3, <2>1, BankTyped DEF Typed
<1>7. AnswerOK'
  BY <1>2, <1>4 DEF IInv, AnswerOK
<1>8. MoneyOK'
  BY <1>1, <1>2, <1>4, <1>5, <1>6, MoneyStep, CountsAreNat DEF IInv, Lost
<1>9. PinOK'
  <2> SUFFICES ASSUME cancels'.verifying_pin = 0 PROVE PinOK'
    BY DEF PinOK
  <2>1. 1 \in DOMAIN bankQ /\ bankQ[1] = Head(bankQ) /\ Head(bankQ).kind = "VerifyPin"
    BY <1>1, BankGetsMsg
  <2>2. Head(bankQ).pin = pin
    BY <1>2, <2>1 DEF IInv, PinOK
  <2>3. Count(atmQ', "PinVerified") > 0 => pin' = CorrectPin
    <3>1. CASE m.kind = "PinVerified"
      BY <1>2, <1>3, <2>2, <3>1
    <3>2. CASE m.kind # "PinVerified"
      BY <1>2, <1>4, <3>2 DEF IInv, PinOK
    <3> QED
      BY <3>1, <3>2
  <2>4. \A i \in DOMAIN bankQ' : bankQ'[i].kind = "VerifyPin" => bankQ'[i].pin = pin'
    BY <1>1, <1>2, BankQueueShrinks DEF IInv, PinOK
  <2> QED
    BY <1>2, <1>4, <2>3, <2>4 DEF IInv, PinOK
<1> QED
  BY <1>6, <1>7, <1>8, <1>9

\* The bank approves a withdrawal that the account covers, or declines.
LEMMA BankWithdrawsStep ==
  ASSUME IInv, BankWithdraws
  PROVE  Typed' /\ AnswerOK' /\ MoneyOK' /\ PinOK'
<1> USE DEF queues, atmVars, bankVars, history, mainVars, Account
<1>1. Typed /\ BankGets("Withdraw") /\ debit = 0
  BY DEF IInv, BankWithdraws, BankGets
<1>2. Head(bankQ).amount = Amount
  <2>1. Head(bankQ) \in BankMsgs /\ Head(bankQ).kind = "Withdraw"
    BY <1>1, BankGetsMsg
  <2> QED
    BY <2>1 DEF BankMsgs, Msg
<1>3. PICK m \in {Msg("WithdrawOk"), Msg("WithdrawDenied")} :
        /\ atmQ' = Append(atmQ, m)
        /\ IF m = Msg("WithdrawOk") THEN balance >= Amount /\ debit' = Amount ELSE debit' = 0
        /\ UNCHANGED <<ifQ, state, called, pin, amount, balance, running, main, keys, dispensed, cancels>>
  BY <1>1, <1>2 DEF BankWithdraws, BankGets, Msg
<1>4. /\ m \in AtmMsgs /\ m.kind \in {"WithdrawOk", "WithdrawDenied"}
      /\ m.kind = "WithdrawOk" <=> m = Msg("WithdrawOk")
  BY DEF AtmMsgs, Msg
<1>5. /\ PinPending' = PinPending /\ Owed' = Owed /\ BalancePending' = BalancePending
      /\ \A j : j # m.kind => Count(atmQ', j) = Count(atmQ, j)
      /\ Count(atmQ', m.kind) = Count(atmQ, m.kind) + 1
  BY <1>1, <1>3, <1>4, BankAnswers
<1>6. Typed'
  <2>1. m.kind # "CancelPressed"
    BY <1>4
  <2>2. balance' \in Nat /\ debit' \in {0, Amount} /\ debit' <= balance'
    BY <1>1, <1>3, ATMAssumption DEF Typed
  <2> QED
    BY <1>1, <1>3, <1>4, <2>1, <2>2, BankTyped DEF Typed
<1>7. AnswerOK'
  BY <1>3, <1>5 DEF IInv, AnswerOK
<1>8. MoneyOK'
  <2>1. Lost' = Lost
    BY <1>3, <1>5 DEF Lost
  <2>2. CASE m.kind = "WithdrawOk"
    <3>1. Paid' = Paid + 1
      <4>1. Count(ifQ, "IssueMoney") \in Nat /\ Count(atmQ, "WithdrawOk") \in Nat
        BY <1>1, CountsAreNat
      <4> QED
        BY <1>3, <1>5, <2>2, <4>1 DEF Paid
    <3>2. Account' = Account - Amount
      BY <1>1, <1>3, <1>4, <2>2, ATMAssumption DEF Typed
    <3> QED
      BY <1>1, <1>3, <1>6, <2>1, <3>1, <3>2, MoneyStep DEF IInv
  <2>3. CASE m.kind = "WithdrawDenied"
    <3>1. Paid' = Paid
      BY <1>3, <1>5, <2>3 DEF Paid
    <3>2. Account' = Account
      BY <1>1, <1>3, <1>4, <2>3
    <3> QED
      BY <1>1, <1>3, <1>6, <2>1, <3>1, <3>2, MoneyStep, CountsAreNat DEF IInv
  <2> QED
    BY <1>4, <2>2, <2>3
<1>9. PinOK'
  <2>1. Count(atmQ', "PinVerified") = Count(atmQ, "PinVerified")
    BY <1>4, <1>5
  <2>2. \A i \in DOMAIN bankQ' : \E j \in DOMAIN bankQ : bankQ[j] = bankQ'[i]
    BY <1>1, BankQueueShrinks
  <2> QED
    BY <1>3, <1>5, <2>1, <2>2 DEF IInv, PinOK
<1> QED
  BY <1>6, <1>7, <1>8, <1>9

\* The bank subtracts what it has approved: the books are of the account after that.
LEMMA BankSubtractsStep ==
  ASSUME IInv, BankSubtracts
  PROVE  Typed' /\ AnswerOK' /\ MoneyOK' /\ PinOK'
<1> USE DEF queues, atmVars, bankVars, history, mainVars, Account
<1>1. /\ Typed /\ balance' = balance - debit /\ debit' = 0
      /\ UNCHANGED <<atmQ, bankQ, ifQ, state, called, pin, amount, running, main, keys, dispensed, cancels>>
  BY DEF IInv, BankSubtracts
<1>2. balance' \in Nat /\ debit' <= balance' /\ Account' = Account
  BY <1>1, ATMAssumption DEF Typed
<1>3. Typed'
  BY <1>1, <1>2 DEF Typed
<1>4. AnswerOK' /\ MoneyOK' /\ PinOK'
  BY <1>1, <1>2, Neutral
<1> QED
  BY <1>3, <1>4

\* The bank tells the balance.
LEMMA BankTellsBalanceStep ==
  ASSUME IInv, BankTellsBalance
  PROVE  Typed' /\ AnswerOK' /\ MoneyOK' /\ PinOK'
<1> USE DEF queues, atmVars, bankVars, history, mainVars, Account
<1> DEFINE m == Msg("Balance")
<1>1. Typed /\ BankGets("GetBalance")
  BY DEF IInv, BankTellsBalance
<1>2. /\ atmQ' = Append(atmQ, m)
      /\ UNCHANGED <<ifQ, state, called, pin, amount, balance, debit, running, main, keys, dispensed, cancels>>
  BY DEF BankTellsBalance
<1>3. m \in AtmMsgs /\ m.kind = "Balance"
  BY DEF AtmMsgs, Msg
<1> HIDE DEF m
<1>4. /\ PinPending' = PinPending /\ Owed' = Owed /\ BalancePending' = BalancePending
      /\ \A j : j # "Balance" => Count(atmQ', j) = Count(atmQ, j)
  BY <1>1, <1>2, <1>3, BankAnswers
<1>5. Paid' = Paid
  BY <1>2, <1>4 DEF Paid
<1>6. Typed'
  <2>1. m.kind # "CancelPressed"
    BY <1>3
  <2> QED
    BY <1>1, <1>2, <1>3, <2>1, BankTyped DEF Typed
<1>7. AnswerOK'
  BY <1>2, <1>4 DEF IInv, AnswerOK
<1>8. MoneyOK'
  BY <1>1, <1>2, <1>4, <1>5, <1>6, MoneyStep, CountsAreNat DEF IInv, Lost
<1>9. PinOK'
  <2>1. \A i \in DOMAIN bankQ' : \E j \in DOMAIN bankQ : bankQ[j] = bankQ'[i]
    BY <1>1, BankQueueShrinks
  <2>2. Count(atmQ', "PinVerified") = Count(atmQ, "PinVerified")
    BY <1>4
  <2> QED
    BY <1>2, <1>4, <2>1, <2>2 DEF IInv, PinOK
<1> QED
  BY <1>6, <1>7, <1>8, <1>9

\* The other messages of the bank change no account.
LEMMA BankRestStep ==
  ASSUME IInv, BankIgnores \/ BankCloses
  PROVE  Typed' /\ AnswerOK' /\ MoneyOK' /\ PinOK'
<1> USE DEF queues, atmVars, bankVars, history, mainVars, Account
<1>1. PICK k \in {"WithdrawalProcessed", "CancelWithdrawal", "CloseQueue"} :
        /\ BankGets(k) /\ running' \subseteq running
        /\ UNCHANGED <<atmQ, ifQ, state, called, pin, amount, balance, debit, main, keys, dispensed, cancels>>
  BY DEF BankIgnores, BankCloses
<1>2. Typed
  BY DEF IInv
<1>3. Typed'
  <2>1. bankQ' \in Seq(BankMsgs)
    BY <1>1, <1>2, BankGetsMsg
  <2> QED
    BY <1>1, <1>2, <2>1 DEF Typed
<1>4. AnswerOK' /\ MoneyOK' /\ PinOK'
  <2>1. /\ \A i \in DOMAIN bankQ' : \E j \in DOMAIN bankQ : bankQ[j] = bankQ'[i]
        /\ \A j : j # k => Count(bankQ', j) = Count(bankQ, j)
    BY <1>1, <1>2, BankQueueShrinks
  <2> QED
    BY <1>1, <2>1, Neutral
<1> QED
  BY <1>3, <1>4
-------------------------------------------------------------------------------
(* The interface and main. *)

\* The interface acts on what the ATM sends it.
LEMMA InterfaceSteps ==
  ASSUME IInv, InterfaceStep
  PROVE  Typed' /\ AnswerOK' /\ MoneyOK' /\ PinOK'
<1> USE DEF queues, atmVars, bankVars, history, mainVars, Account
<1>0. Typed
  BY DEF IInv
<1>1. CASE IssueMoney
  <2>1. /\ IfGets("IssueMoney") /\ dispensed' = dispensed + Head(ifQ).amount
        /\ UNCHANGED <<atmQ, bankQ, state, called, pin, amount, balance, debit, running, main, keys, cancels>>
    BY <1>1 DEF IssueMoney
  <2>2. ifQ' \in Seq(IfMsgs) /\ Head(ifQ) \in IfMsgs /\ Head(ifQ).kind = "IssueMoney"
    BY <1>0, <2>1, IfGetsMsg
  <2>3. Count(ifQ', "IssueMoney") = Count(ifQ, "IssueMoney") - 1
    <3>1. \A j : Count(ifQ', j) = Count(ifQ, j) - IF j = "IssueMoney" THEN 1 ELSE 0
      BY <1>0, <2>1, IfGetsMsg
    <3> QED
      BY <3>1
  <2>4. Head(ifQ).amount = Amount
    BY <2>2 DEF IfMsgs, Msg
  <2>5. PinPending' = PinPending /\ Owed' = Owed /\ BalancePending' = BalancePending
    BY <2>1 DEF PinPending, Owed, BalancePending
  <2>6. Paid' = Paid - 1
    <3>1. Count(ifQ, "IssueMoney") \in Nat /\ Count(atmQ, "WithdrawOk") \in Nat
      BY <1>0, CountsAreNat
    <3> QED
      BY <2>1, <2>3, <3>1 DEF Paid
  <2>7. Typed'
    <3>1. dispensed' \in Nat
      BY <1>0, <2>1, <2>4, ATMAssumption DEF Typed
    <3> QED
      BY <1>0, <2>1, <2>2, <3>1 DEF Typed
  <2>8. AnswerOK'
    BY <2>1, <2>5 DEF IInv, AnswerOK
  <2>9. MoneyOK'
    <3>1. Lost' = Lost
      BY <2>1, <2>5 DEF Lost
    <3> QED
      BY <1>0, <2>1, <2>4, <2>6, <2>7, <3>1, MoneyStep DEF IInv
  <2>10. PinOK'
    BY <2>1, <2>5 DEF IInv, PinOK
  <2> QED
    BY <2>7, <2>8, <2>9, <2>10
<1>2. CASE Display \/ InterfaceCloses
  <2>1. PICK k \in {"Display", "CloseQueue"} :
          /\ IfGets(k) /\ running' \subseteq running
          /\ UNCHANGED <<atmQ, bankQ, state, called, pin, amount, balance, debit, main, keys, dispensed, cancels>>
    BY <1>2 DEF Display, InterfaceCloses
  <2>2. ifQ' \in Seq(IfMsgs) /\ Count(ifQ', "IssueMoney") = Count(ifQ, "IssueMoney")
    <3>1. /\ ifQ' \in Seq(IfMsgs) /\ \A j : Count(ifQ, j) \in Nat
          /\ \A j : Count(ifQ', j) = Count(ifQ, j) - IF j = k THEN 1 ELSE 0
      BY <1>0, <2>1, IfGetsMsg
    <3>2. Count(ifQ', "IssueMoney") = Count(ifQ, "IssueMoney") - 0
      BY <3>1
    <3> QED
      BY <3>1, <3>2
  <2>3. Typed'
    BY <1>0, <2>1, <2>2 DEF Typed
  <2>4. AnswerOK' /\ MoneyOK' /\ PinOK'
    BY <2>1, <2>2, Neutral
  <2> QED
    BY <2>3, <2>4
<1> QED
  BY <1>1, <1>2 DEF InterfaceStep

\* The keys of main and the end of the program.
LEMMA MainSteps ==
  ASSUME IInv,
         \/ \E d \in Digits : PressDigit(d)
         \/ \E k \in Keys : PressKey(k)
         \/ PressQuit \/ MainShutsDown
  PROVE  Typed' /\ AnswerOK' /\ MoneyOK' /\ PinOK'
<1> USE DEF queues, atmVars, bankVars, history, mainVars, Account
<1>0. Typed /\ Typed'
  BY MainTyped DEF IInv
<1>1. UNCHANGED <<state, pin, balance, debit, dispensed, cancels>>
  BY DEF PressDigit, PressKey, PressQuit, MainShutsDown, CloseBank, CloseAtm, CloseInterface, Join
<1>2. Msg("CloseQueue") \in AtmMsgs \cap BankMsgs \cap IfMsgs /\ Msg("CloseQueue").kind = "CloseQueue"
  BY DEF AtmMsgs, BankMsgs, IfMsgs, Msg
<1>3. \A k \in {"PinVerified", "PinIncorrect", "WithdrawOk", "WithdrawDenied", "Balance"} :
        Count(atmQ', k) = Count(atmQ, k)
  <2>1. CASE \E d \in Digits : PressDigit(d)
    <3>1. PICK d \in Digits : PressDigit(d)
      BY <2>1
    <3> DEFINE m == [kind |-> "DigitPressed", digit |-> d]
    <3>2. m \in AtmMsgs /\ m.kind = "DigitPressed" /\ atmQ' = Append(atmQ, m)
      BY <3>1 DEF AtmMsgs, PressDigit
    <3> HIDE DEF m
    <3> QED
      BY <1>0, <3>2, AtmSent
  <2>2. CASE \E k \in Keys : PressKey(k)
    <3>1. PICK k \in Keys : PressKey(k)
      BY <2>2
    <3>2. /\ Msg(k) \in AtmMsgs /\ Msg(k).kind = k /\ atmQ' = Append(atmQ, Msg(k))
          /\ k \in {"CardInserted", "WithdrawPressed", "BalancePressed", "CancelPressed",
                    "ClearLastPressed"}
      BY <3>1, ATMAssumption DEF AtmMsgs, PressKey, Msg
    <3> QED
      BY <1>0, <3>2, AtmSent
  <2>3. CASE PressQuit \/ CloseBank \/ CloseInterface \/ Join
    BY <2>3 DEF PressQuit, CloseBank, CloseInterface, Join
  <2>4. CASE CloseAtm
    BY <1>0, <1>2, <2>4, AtmSent DEF CloseAtm
  <2> QED
    BY <2>1, <2>2, <2>3, <2>4 DEF MainShutsDown
<1>4. /\ \A k \in {"VerifyPin", "Withdraw", "GetBalance"} : Count(bankQ', k) = Count(bankQ, k)
      /\ \A i \in DOMAIN bankQ' : bankQ'[i].kind = "VerifyPin" =>
            \E j \in DOMAIN bankQ : bankQ[j] = bankQ'[i]
  <2>1. CASE CloseBank
    BY <1>0, <1>2, <2>1, BankSent DEF CloseBank
  <2>2. CASE ~CloseBank
    <3>1. bankQ' = bankQ
      BY <2>2 DEF PressDigit, PressKey, PressQuit, MainShutsDown, CloseAtm, CloseInterface, Join
    <3> QED
      BY <3>1
  <2> QED
    BY <2>1, <2>2
<1>5. Count(ifQ', "IssueMoney") = Count(ifQ, "IssueMoney")
  <2>1. CASE CloseInterface
    BY <1>0, <1>2, <2>1, IfSent DEF CloseInterface
  <2>2. CASE ~CloseInterface
    <3>1. ifQ' = ifQ
      BY <2>2 DEF PressDigit, PressKey, PressQuit, MainShutsDown, CloseBank, CloseAtm, Join
    <3> QED
      BY <3>1
  <2> QED
    BY <2>1, <2>2
<1> QED
  BY <1>0, <1>1, <1>3, <1>4, <1>5, Neutral
-------------------------------------------------------------------------------
(* The inductive invariant. *)

\* As long as main reads keys, the bank is not told to end.
LEMMA StaysOpen ==
  ASSUME IInv, Typed', Next
  PROVE  OpenOK'
<1> USE DEF queues, atmVars, bankVars, history, mainVars, Account
<1> SUFFICES ASSUME main' = "reading" PROVE OpenOK'
  BY DEF OpenOK
<1>1. /\ Typed /\ bankQ \in Seq(BankMsgs)
  BY DEF IInv, Typed
<1>2. main = "reading" /\ ~PressQuit /\ ~MainShutsDown
  <2>1. ~PressQuit /\ ~MainShutsDown
    BY DEF PressQuit, MainShutsDown, CloseBank, CloseAtm, CloseInterface, Join
  <2>2. main' = main
    BY <2>1 DEF Next, PressDigit, PressKey, AtmStep, CallState, CallDoneProcessing, AtmDrops,
         AtmCloses, CardInserted, DigitPressed, ClearLastPressed, PinVerified, PinIncorrect,
         WithdrawPressed, BalancePressed, WithdrawOk, WithdrawDenied, BalanceAnswer,
         CancelPressed, BankStep, BankVerifiesPin, BankWithdraws, BankSubtracts, BankTellsBalance,
         BankIgnores, BankCloses, InterfaceStep, IssueMoney, Display, InterfaceCloses
  <2> QED
    BY <2>1, <2>2
<1>3. "bank" \in running /\ Count(bankQ, "CloseQueue") = 0
  BY <1>2 DEF IInv, OpenOK
<1>4. ~BankCloses
  <2> SUFFICES ASSUME BankCloses PROVE FALSE
    OBVIOUS
  <2>1. BankGets("CloseQueue")
    BY DEF BankCloses
  <2>2. /\ \A j : Count(bankQ', j) = Count(bankQ, j) - IF j = "CloseQueue" THEN 1 ELSE 0
        /\ \A j : Count(bankQ', j) \in Nat
    BY <1>1, <2>1, BankGetsMsg
  <2>3. Count(bankQ', "CloseQueue") = 0 - 1 /\ Count(bankQ', "CloseQueue") \in Nat
    BY <1>3, <2>2
  <2> QED
    BY <2>3
<1>5. "bank" \in running'
  BY <1>2, <1>3, <1>4 DEF Next, PressDigit, PressKey, AtmStep, CallState, CallDoneProcessing,
     AtmDrops, AtmCloses, CardInserted, DigitPressed, ClearLastPressed, PinVerified,
     PinIncorrect, WithdrawPressed, BalancePressed, WithdrawOk, WithdrawDenied, BalanceAnswer,
     CancelPressed, BankStep, BankVerifiesPin, BankWithdraws, BankSubtracts, BankTellsBalance,
     BankIgnores, InterfaceStep, IssueMoney, Display, InterfaceCloses
<1>6. Count(bankQ', "CloseQueue") = 0
  <2>1. CASE bankQ' = bankQ
    BY <1>3, <2>1
  <2>2. CASE \E m \in BankMsgs : bankQ' = Append(bankQ, m) /\ m.kind # "CloseQueue"
    BY <1>1, <1>3, <2>2, BankSent
  <2>3. CASE \E k \in {"VerifyPin", "Withdraw", "GetBalance", "WithdrawalProcessed",
                       "CancelWithdrawal"} : BankGets(k)
    BY <1>1, <1>3, <2>3, BankQueueShrinks
  <2>4. CASE BankStep
    BY <1>4, <2>1, <2>3, <2>4 DEF BankStep, BankVerifiesPin, BankWithdraws, BankSubtracts,
       BankTellsBalance, BankIgnores
  <2>5. CASE DigitPressed
    <3>1. bankQ' = bankQ \/ bankQ' = Append(bankQ, [kind |-> "VerifyPin", pin |-> pin'])
      BY <2>5 DEF DigitPressed
    <3>2. [kind |-> "VerifyPin", pin |-> pin'] \in BankMsgs
      BY DEF Typed, BankMsgs
    <3> QED
      BY <2>1, <2>2, <3>1, <3>2
  <2>6. CASE WithdrawPressed
    <3>1. [kind |-> "Withdraw", amount |-> Amount] \in BankMsgs
      BY DEF BankMsgs
    <3> QED
      BY <2>2, <2>6, <3>1 DEF WithdrawPressed
  <2>7. CASE BalancePressed \/ WithdrawOk \/ CancelPressed
    <3>1. /\ \A k \in {"GetBalance", "WithdrawalProcessed", "CancelWithdrawal"} :
                Msg(k) \in BankMsgs /\ Msg(k).kind = k
      BY DEF BankMsgs, Msg
    <3>2. \/ bankQ' = bankQ
          \/ \E k \in {"GetBalance", "WithdrawalProcessed", "CancelWithdrawal"} :
                bankQ' = Append(bankQ, Msg(k))
      BY <2>7 DEF BalancePressed, WithdrawOk, CancelPressed
    <3> QED
      BY <2>1, <2>2, <3>1, <3>2
  <2>8. CASE \/ \E d \in Digits : PressDigit(d)
             \/ \E k \in Keys : PressKey(k)
             \/ InterfaceStep
             \/ CallState \/ CallDoneProcessing \/ AtmDrops \/ AtmCloses \/ CardInserted
             \/ ClearLastPressed \/ PinVerified \/ PinIncorrect \/ WithdrawDenied \/ BalanceAnswer
    BY <2>1, <2>8 DEF PressDigit, PressKey, InterfaceStep, IssueMoney, Display, InterfaceCloses,
       CallState, CallDoneProcessing, AtmDrops, AtmCloses, CardInserted, ClearLastPressed,
       PinVerified, PinIncorrect, WithdrawDenied, BalanceAnswer
  <2> QED
    BY <1>2, <2>4, <2>5, <2>6, <2>7, <2>8 DEF Next, AtmStep
<1> QED
  BY <1>5, <1>6 DEF OpenOK

\* A step that changes nothing keeps the invariant.
LEMMA StutterIInv == IInv /\ UNCHANGED vars => IInv'
<1> SUFFICES ASSUME IInv, UNCHANGED vars PROVE IInv'
  OBVIOUS
<1> USE DEF vars, queues, atmVars, bankVars, history, mainVars, Account
<1>1. Typed'
  BY DEF IInv, Typed
<1>2. AnswerOK' /\ OpenOK' /\ PinOK'
  BY DEF IInv, AnswerOK, OpenOK, PinOK, PinPending, Owed, BalancePending
<1>3. MoneyOK'
  BY DEF IInv, MoneyOK, Paid, Lost, Owed
<1> QED
  BY <1>1, <1>2, <1>3 DEF IInv

\* Every step keeps the invariant.
LEMMA NextIInv == IInv /\ [Next]_vars => IInv'
<1> SUFFICES ASSUME IInv, Next PROVE IInv'
  BY StutterIInv
<1>1. CASE \/ \E d \in Digits : PressDigit(d)
           \/ \E k \in Keys : PressKey(k)
           \/ PressQuit \/ MainShutsDown
  BY <1>1, MainSteps, StaysOpen DEF IInv
<1>2. CASE AtmStep
  <2>1. Typed' /\ AnswerOK' /\ MoneyOK' /\ PinOK'
    BY <1>2, AtmRunsStep, AtmDropsStep, CardInsertedStep, DigitPressedStep, ClearLastPressedStep,
       PinVerifiedStep, PinIncorrectStep, WithdrawPressedStep, BalancePressedStep,
       WithdrawOkStep, WithdrawDeniedStep, BalanceAnswerStep, CancelPressedStep DEF AtmStep
  <2> QED
    BY <2>1, StaysOpen DEF IInv
<1>3. CASE BankStep
  <2>1. Typed' /\ AnswerOK' /\ MoneyOK' /\ PinOK'
    BY <1>3, BankVerifiesPinStep, BankWithdrawsStep, BankSubtractsStep,
       BankTellsBalanceStep, BankRestStep DEF BankStep
  <2> QED
    BY <2>1, StaysOpen DEF IInv
<1>4. CASE InterfaceStep
  BY <1>4, InterfaceSteps, StaysOpen DEF IInv
<1> QED
  BY <1>1, <1>2, <1>3, <1>4 DEF Next

-------------------------------------------------------------------------------
(* What follows from it. *)

\* What is said of all kinds of messages that a state handles holds for one of them.
LEMMA KindsIn ==
  ASSUME NEW S, NEW q \in Seq(S), NEW K, \A m \in S : m.kind \in K
  PROVE  Kinds(q) \subseteq K
<1>1. \A i \in DOMAIN q : q[i] \in S
  BY LenProperties
<1> QED
  BY <1>1 DEF Kinds

\* The ATM is sent only messages that some state handles, and CloseQueue.
LEMMA AtmKinds == \A m \in AtmMsgs : m.kind \in (UNION {Handles[s] : s \in DOMAIN Handles}) \cup {"CloseQueue"}
<1> DEFINE U == UNION {Handles[s] : s \in DOMAIN Handles}
<1>1. /\ \A s \in DOMAIN Handles : Handles[s] \subseteq UNION {Handles[t] : t \in DOMAIN Handles}
      /\ Handles["waiting_for_card"] = {"CardInserted"}
      /\ Handles["getting_pin"] = {"DigitPressed", "ClearLastPressed", "CancelPressed"}
      /\ Handles["verifying_pin"] = {"PinVerified", "PinIncorrect", "CancelPressed"}
      /\ Handles["wait_for_action"] = {"WithdrawPressed", "BalancePressed", "CancelPressed"}
      /\ Handles["process_withdrawal"] = {"WithdrawOk", "WithdrawDenied", "CancelPressed"}
      /\ Handles["process_balance"] = {"Balance", "CancelPressed"}
  BY DEF Handles
<1>2. {"CardInserted", "DigitPressed", "ClearLastPressed", "CancelPressed", "PinVerified",
       "PinIncorrect", "WithdrawPressed", "BalancePressed", "WithdrawOk", "WithdrawDenied",
       "Balance"} \subseteq U
  BY <1>1, States
<1>3. \A m \in AtmMsgs : m.kind \in {"CardInserted", "DigitPressed", "ClearLastPressed",
       "CancelPressed", "PinVerified", "PinIncorrect", "WithdrawPressed", "BalancePressed",
       "WithdrawOk", "WithdrawDenied", "Balance", "CloseQueue"}
  BY DEF AtmMsgs, Msg
<1> HIDE DEF U
<1>4. \A m \in AtmMsgs : m.kind \in U \cup {"CloseQueue"}
  BY <1>2, <1>3
<1> QED
  BY <1>4 DEF U

\* The invariant gives the types.
LEMMA IInvTypeOK == IInv => TypeOK
<1> SUFFICES ASSUME Typed PROVE TypeOK
  BY DEF IInv
<1>1. Kinds(atmQ) \subseteq (UNION {Handles[s] : s \in DOMAIN Handles}) \cup {"CloseQueue"}
  <2> DEFINE K == (UNION {Handles[s] : s \in DOMAIN Handles}) \cup {"CloseQueue"}
  <2>1. \A m \in AtmMsgs : m.kind \in K
    BY AtmKinds
  <2>2. atmQ \in Seq(AtmMsgs)
    BY DEF Typed
  <2> HIDE DEF K
  <2>3. Kinds(atmQ) \subseteq K
    BY <2>1, <2>2, KindsIn
  <2> QED
    BY <2>3 DEF K
<1>2. Kinds(bankQ) \subseteq {"VerifyPin", "Withdraw", "GetBalance", "WithdrawalProcessed",
                              "CancelWithdrawal", "CloseQueue"}
  <2>1. \A m \in BankMsgs : m.kind \in {"VerifyPin", "Withdraw", "GetBalance",
                               "WithdrawalProcessed", "CancelWithdrawal", "CloseQueue"}
    BY DEF BankMsgs, Msg
  <2>2. bankQ \in Seq(BankMsgs)
    BY DEF Typed
  <2> QED
    BY <2>1, <2>2, KindsIn
<1>3. Kinds(ifQ) \subseteq {"IssueMoney", "Display", "CloseQueue"}
  <2>1. \A m \in IfMsgs : m.kind \in {"IssueMoney", "Display", "CloseQueue"}
    BY DEF IfMsgs, Msg
  <2> QED
    BY <2>1, KindsIn DEF Typed
<1>4. cancels \in [DOMAIN Awaits -> 0 .. MaxKeys]
  <2>1. \A s \in DOMAIN Awaits : cancels[s] \in 0 .. MaxKeys
    <3> TAKE s \in DOMAIN Awaits
    <3>1. /\ cancels[s] \in Nat /\ cancels[s] + Count(atmQ, "CancelPressed") <= keys
          /\ keys \in 0 .. MaxKeys
      BY DEF Typed
    <3>2. Count(atmQ, "CancelPressed") \in Nat
      BY CountsAreNat
    <3> QED
      BY <3>1, <3>2, ATMAssumption
  <2> QED
    BY <2>1 DEF Typed
<1>5. /\ state \in DOMAIN Handles /\ pin \in Seq(Digits) /\ Len(pin) <= PinLength
      /\ amount \in {0, Amount} /\ balance \in Nat /\ debit \in {0, Amount} /\ dispensed \in Nat
      /\ running \subseteq {"atm", "bank", "interface"} /\ keys \in 0 .. MaxKeys
      /\ main \in {"reading", "close_bank", "close_atm", "close_interface", "joining", "returned"}
  BY DEF Typed
<1>6. called \in BOOLEAN
  BY DEF Typed
<1> QED
  BY <1>1, <1>2, <1>3, <1>4, <1>5, <1>6 DEF TypeOK

\* What is owed an answer is not lost: at most the cancelled withdrawals are.
LEMMA LostIsCancelled == IInv => Lost <= cancels.process_withdrawal
<1> SUFFICES ASSUME IInv PROVE Lost <= cancels.process_withdrawal
  OBVIOUS
<1>1. Typed /\ Owed \in Nat /\ cancels.process_withdrawal \in Nat
  BY CountsAreNat, States DEF IInv, Typed
<1>2. CASE state = "process_withdrawal"
  BY <1>1, <1>2 DEF IInv, AnswerOK, Lost
<1>3. CASE state # "process_withdrawal"
  BY <1>1, <1>3 DEF Lost
<1> QED
  BY <1>2, <1>3

\* The invariant gives the two properties about money.
LEMMA IInvMoney == IInv => IssuedIsCovered /\ LossOnlyByCancel
<1> SUFFICES ASSUME IInv PROVE IssuedIsCovered /\ LossOnlyByCancel
  OBVIOUS
<1> DEFINE i == Count(ifQ, "IssueMoney")
           o == Count(atmQ, "WithdrawOk")
           c == cancels.process_withdrawal
<1>1. /\ i \in Nat /\ o \in Nat /\ c \in Nat /\ Lost \in Int
      /\ balance \in Nat /\ debit \in Nat /\ debit <= balance
      /\ dispensed \in Nat /\ Amount \in Nat /\ InitialBalance \in Nat
  <2>1. /\ balance \in Nat /\ debit \in {0, Amount} /\ debit <= balance
        /\ dispensed \in Nat /\ cancels \in [DOMAIN Awaits -> Nat]
    BY DEF IInv, Typed
  <2>2. i \in Nat /\ o \in Nat /\ Lost \in Int
    BY CountsAreNat DEF IInv
  <2>3. c \in Nat
    BY <2>1, States
  <2> QED
    BY <2>1, <2>2, <2>3, ATMAssumption
<1>2. /\ dispensed + Amount * (i + o) <= InitialBalance - (balance - debit)
      /\ InitialBalance - (balance - debit) <= dispensed + Amount * ((i + o) + Lost)
  BY DEF IInv, MoneyOK, Books, Paid, Account
<1>3. Lost <= c
  BY LostIsCancelled
<1> HIDE DEF i, o, c
<1>4. Amount * (i + o) = Amount * i + Amount * o
  BY <1>1
<1>5. Amount * ((i + o) + Lost) <= Amount * ((i + o) + c)
  BY <1>1, <1>3
<1>6. Amount * ((i + o) + c) = Amount * i + Amount * o + Amount * c
  BY <1>1
<1>7. Amount * i \in Nat /\ Amount * o \in Nat /\ Amount * c \in Nat /\ Amount * ((i + o) + Lost) \in Int
  BY <1>1
<1>8. (dispensed + Amount * i) + Amount * o <= InitialBalance - (balance - debit)
  BY <1>1, <1>2, <1>4, <1>7
<1>9. InitialBalance - (balance - debit) <= ((dispensed + Amount * i) + Amount * o) + Amount * c
  BY <1>1, <1>2, <1>5, <1>6, <1>7
<1>10. InitialBalance - balance <= InitialBalance - (balance - debit)
  BY <1>1
<1> QED
  BY <1>1, <1>8, <1>9, <1>10 DEF IssuedIsCovered, LossOnlyByCancel, Issued, Approved, Debited, i, o, c

\* A request that is pending is in the bank's queue, or its answer is in the ATM's.
LEMMA IInvAnswer == IInv => AnswerUnderWay
<1> SUFFICES ASSUME IInv, main = "reading", state \in DOMAIN Awaits
             PROVE  \/ Awaits[state].request \in Kinds(bankQ) /\ "bank" \in running
                    \/ Awaits[state].answers \cap Kinds(atmQ) # {}
  BY DEF AnswerUnderWay
<1>1. Typed /\ "bank" \in running
  BY DEF IInv, OpenOK
<1>2. /\ \A k : Count(atmQ, k) \in Nat /\ Count(bankQ, k) \in Nat
      /\ \A k : Count(atmQ, k) > 0 => k \in Kinds(atmQ)
      /\ \A k : Count(bankQ, k) > 0 => k \in Kinds(bankQ)
  <2>1. atmQ \in Seq(AtmMsgs) /\ bankQ \in Seq(BankMsgs)
    BY <1>1 DEF Typed
  <2> QED
    BY <2>1, CountType
<1>3. CASE state = "verifying_pin"
  <2>1. \/ Count(bankQ, "VerifyPin") > 0 \/ Count(atmQ, "PinVerified") > 0
        \/ Count(atmQ, "PinIncorrect") > 0
    BY <1>2, <1>3 DEF IInv, AnswerOK, PinPending
  <2>2. \/ "VerifyPin" \in Kinds(bankQ)
        \/ "PinVerified" \in Kinds(atmQ) \/ "PinIncorrect" \in Kinds(atmQ)
    BY <1>2, <2>1
  <2> QED
    BY <1>1, <1>3, <2>2 DEF Awaits
<1>4. CASE state = "process_withdrawal"
  <2>1. \/ Count(bankQ, "Withdraw") > 0 \/ Count(atmQ, "WithdrawOk") > 0
        \/ Count(atmQ, "WithdrawDenied") > 0
    BY <1>2, <1>4 DEF IInv, AnswerOK, Owed
  <2>2. \/ "Withdraw" \in Kinds(bankQ)
        \/ "WithdrawOk" \in Kinds(atmQ) \/ "WithdrawDenied" \in Kinds(atmQ)
    BY <1>2, <2>1
  <2> QED
    BY <1>1, <1>4, <2>2 DEF Awaits
<1>5. CASE state = "process_balance"
  <2>1. Count(bankQ, "GetBalance") > 0 \/ Count(atmQ, "Balance") > 0
    BY <1>2, <1>5 DEF IInv, AnswerOK, BalancePending
  <2>2. "GetBalance" \in Kinds(bankQ) \/ "Balance" \in Kinds(atmQ)
    BY <1>2, <2>1
  <2> QED
    BY <1>1, <1>5, <2>2 DEF Awaits
<1> QED
  BY <1>3, <1>4, <1>5, States
-------------------------------------------------------------------------------
(* The theorems. *)

\* The invariant holds throughout, whatever the customer presses and however the
\* three threads are scheduled.
THEOREM Invariant == Spec => []IInv
  BY InitIInv, NextIInv, PTL DEF Spec

\* Every variable has its type: no machine is sent a message it has no use for, no
\* PIN is longer than the right one, and the unsigned balance does not go below zero.
THEOREM TypesHold == Spec => []TypeOK
  BY Invariant, IInvTypeOK, PTL

\* What is approved or issued never exceeds what left the account and the one amount
\* that the bank, which answers first, is about to subtract, and the balance covers that
\* amount: however often withdrawals are cancelled and their answers arrive in the
\* middle of the next customer's business.
THEOREM NoMoneyFromNothing == Spec => []IssuedIsCovered
  BY Invariant, IInvMoney, PTL

\* A debit without money is a cancelled withdrawal, and no cancellation costs more
\* than one amount.
THEOREM CancellationsAccountForLoss == Spec => []LossOnlyByCancel
  BY Invariant, IInvMoney, PTL

\* No state of the machine waits for an answer that neither is in its queue nor will be
\* sent, although a late answer to a cancelled request may be taken for the wanted one.
THEOREM AnswersAreUnderWay == Spec => []AnswerUnderWay
  BY Invariant, IInvAnswer, PTL

\* As long as no verification was cancelled, only the right PIN gets to the menu.
THEOREM OnlyTheRightPin == Spec => []PinChecked
<1>1. IInv => PinChecked
  BY DEF IInv, PinOK, PinChecked
<1> QED
  BY <1>1, Invariant, PTL
===============================================================================
