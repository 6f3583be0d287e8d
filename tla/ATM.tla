---------------------------------- MODULE ATM ----------------------------------
(***************************************************************************)
(* The cash machine of ATM/: three machines, each a thread with a message  *)
(* queue of its own (the bank, the ATM, the interface hardware), and main, *)
(* which turns key presses into messages and closes the three queues when  *)
(* q is pressed.                                                           *)
(*                                                                         *)
(* A send and a receive are one step each: that is what MonitorQueue shows *)
(* of Messaging::Queue.  A machine waits with a chain of handlers; a       *)
(* message that none of them takes is dropped and the same wait goes on;   *)
(* CloseQueue ends the machine in every state (the base Dispatcher throws  *)
(* it).  A handler runs in one step, what it touches besides the queues it *)
(* sends to being private to its thread; the exception is the bank, which  *)
(* approves a withdrawal first and subtracts the amount afterwards.        *)
(*                                                                         *)
(* The messages by which the ATM shows something (prompts, the balance,    *)
(* EjectCard) are only printed: they are all "Display" here, and a run of  *)
(* them in the interface's queue counts as one.                            *)
(***************************************************************************)
EXTENDS Naturals, Sequences, FiniteSets, SequencesExt

CONSTANTS Digits,          \* the digit keys
          Keys,            \* the other keys that are pressed; the ATM handles
                           \* ClearLastPressed, though main has no key for it
          CorrectPin,      \* "1937"
          InitialBalance,  \* 199
          Amount,          \* 50, the only amount main asks for
          MaxKeys,         \* bound: how many keys are pressed
          MaxAhead         \* bound: how many messages the ATM lags behind the keys

ASSUME ATMAssumption ==
    /\ CorrectPin \in Seq(Digits)
    /\ CorrectPin # <<>>
    /\ Keys \subseteq {"CardInserted", "WithdrawPressed", "BalancePressed",
                       "CancelPressed", "ClearLastPressed"}
    /\ InitialBalance \in Nat
    /\ Amount \in Nat \ {0}
    /\ MaxKeys \in Nat
    /\ MaxAhead \in Nat

VARIABLES atmQ, bankQ, ifQ,   \* the queue of each machine
          state,      \* ATM::_state
          called,     \* the state function has run up to its wait
          pin,        \* ATM::_pin
          amount,     \* ATM::_withdrawal_amount
          balance,    \* BankMachine::_balance
          debit,      \* what the bank has approved and not subtracted yet, or 0
          running,    \* the machines whose run() has not returned
          main,       \* what main does next
          keys,       \* keys pressed so far
          dispensed,  \* history: money issued by the interface hardware
          cancels     \* history: cancellations in each state that waits for the bank

atmVars  == <<state, called, pin, amount>>
bankVars == <<balance, debit>>
mainVars == <<main, keys>>
history  == <<dispensed, cancels>>
queues   == <<atmQ, bankQ, ifQ>>
vars     == <<queues, atmVars, bankVars, running, mainVars, history>>

PinLength == Len(CorrectPin)

Msg(k) == [kind |-> k]
Kinds(q) == {q[i].kind : i \in DOMAIN q}
\* How many messages of kind k are in q.
Count(q, k) == Cardinality({i \in DOMAIN q : q[i].kind = k})

\* The interface's queue q with a display message behind it.
Show(q) == IF q # <<>> /\ Last(q) = Msg("Display") THEN q ELSE Append(q, Msg("Display"))

\* What the bank answers to each request, and the requests each state waits on.
Awaits == [verifying_pin      |-> [request |-> "VerifyPin",
                                   answers |-> {"PinVerified", "PinIncorrect"}],
           process_withdrawal |-> [request |-> "Withdraw",
                                   answers |-> {"WithdrawOk", "WithdrawDenied"}],
           process_balance    |-> [request |-> "GetBalance", answers |-> {"Balance"}]]

Init == /\ atmQ = <<>> /\ bankQ = <<>> /\ ifQ = <<>>
        /\ state = "waiting_for_card"
        /\ called = FALSE
        /\ pin = <<>>
        /\ amount = 0
        /\ balance = InitialBalance
        /\ debit = 0
        /\ running = {"atm", "bank", "interface"}
        /\ main = "reading"
        /\ keys = 0
        /\ dispensed = 0
        /\ cancels = [s \in DOMAIN Awaits |-> 0]
-------------------------------------------------------------------------------
(* main. *)

\* The two bounds on the customer.
CanPress == keys < MaxKeys /\ Len(atmQ) < MaxAhead

PressDigit(d) == /\ main = "reading"
                 /\ CanPress
                 /\ keys' = keys + 1
                 /\ atmQ' = Append(atmQ, [kind |-> "DigitPressed", digit |-> d])
                 /\ UNCHANGED <<bankQ, ifQ, atmVars, bankVars, running, main, history>>

PressKey(k) == /\ main = "reading"
               /\ CanPress
               /\ keys' = keys + 1
               /\ atmQ' = Append(atmQ, Msg(k))
               /\ UNCHANGED <<bankQ, ifQ, atmVars, bankVars, running, main, history>>

PressQuit == /\ main = "reading"
             /\ main' = "close_bank"
             /\ UNCHANGED <<queues, atmVars, bankVars, running, keys, history>>

\* bank.done(), machine.done(), interface_hardware.done(), in this order.
CloseBank == /\ main = "close_bank"
             /\ main' = "close_atm"
             /\ bankQ' = Append(bankQ, Msg("CloseQueue"))
             /\ UNCHANGED <<atmQ, ifQ, atmVars, bankVars, running, keys, history>>

CloseAtm == /\ main = "close_atm"
            /\ main' = "close_interface"
            /\ atmQ' = Append(atmQ, Msg("CloseQueue"))
            /\ UNCHANGED <<bankQ, ifQ, atmVars, bankVars, running, keys, history>>

CloseInterface == /\ main = "close_interface"
                  /\ main' = "joining"
                  /\ ifQ' = Append(ifQ, Msg("CloseQueue"))
                  /\ UNCHANGED <<atmQ, bankQ, atmVars, bankVars, running, keys, history>>

\* The three joins: main returns once every machine has ended.
Join == /\ main = "joining"
        /\ running = {}
        /\ main' = "returned"
        /\ UNCHANGED <<queues, atmVars, bankVars, running, keys, history>>
-------------------------------------------------------------------------------
(* The ATM. *)

\* The handlers each state function chains to its wait.
Handles == [waiting_for_card   |-> {"CardInserted"},
            getting_pin        |-> {"DigitPressed", "ClearLastPressed", "CancelPressed"},
            verifying_pin      |-> {"PinVerified", "PinIncorrect", "CancelPressed"},
            wait_for_action    |-> {"WithdrawPressed", "BalancePressed", "CancelPressed"},
            process_withdrawal |-> {"WithdrawOk", "WithdrawDenied", "CancelPressed"},
            process_balance    |-> {"Balance", "CancelPressed"},
            done_processing    |-> {}]

\* run() calls the state function, which may show a prompt before it waits.
CallState == /\ "atm" \in running
             /\ ~called
             /\ state # "done_processing"
             /\ called' = TRUE
             /\ ifQ' = IF state \in {"waiting_for_card", "wait_for_action"} THEN Show(ifQ) ELSE ifQ
             /\ UNCHANGED <<atmQ, bankQ, state, pin, amount, bankVars, running, mainVars, history>>

\* done_processing ejects the card and does not wait.
CallDoneProcessing == /\ "atm" \in running
                      /\ ~called
                      /\ state = "done_processing"
                      /\ state' = "waiting_for_card"
                      /\ ifQ' = Show(ifQ)
                      /\ UNCHANGED <<atmQ, bankQ, called, pin, amount, bankVars, running,
                                     mainVars, history>>

\* The ATM is waiting and its next message is of kind k.
AtmGets(k) == /\ "atm" \in running
              /\ called
              /\ atmQ # <<>>
              /\ Head(atmQ).kind = k
              /\ atmQ' = Tail(atmQ)

\* The handler of the current state for k runs and the state function returns.
AtmHandles(k) == /\ AtmGets(k)
                 /\ k \in Handles[state]
                 /\ called' = FALSE

AtmDrops == /\ \E k \in Kinds(atmQ) \ (Handles[state] \cup {"CloseQueue"}) : AtmGets(k)
            /\ UNCHANGED <<bankQ, ifQ, atmVars, bankVars, running, mainVars, history>>

\* Seeded fault: CloseQueue is noticed only between two customers.
AtmCloses_WhenIdle == /\ AtmGets("CloseQueue")
                      /\ state = "waiting_for_card"
                      /\ running' = running \ {"atm"}
                      /\ UNCHANGED <<bankQ, ifQ, atmVars, bankVars, mainVars, history>>

AtmCloses == /\ AtmGets("CloseQueue")
             /\ running' = running \ {"atm"}
             /\ UNCHANGED <<bankQ, ifQ, atmVars, bankVars, mainVars, history>>

CardInserted == /\ AtmHandles("CardInserted")
                /\ pin' = <<>>
                /\ ifQ' = Show(ifQ)
                /\ state' = "getting_pin"
                /\ UNCHANGED <<bankQ, amount, bankVars, running, mainVars, history>>

\* Seeded fault: digits are still collected while the PIN is being verified.
DigitPressed_WhileVerifying ==
    /\ AtmGets("DigitPressed")
    /\ state \in {"getting_pin", "verifying_pin"}
    /\ called' = FALSE
    /\ pin' = Append(pin, Head(atmQ).digit)
    /\ \/ /\ Len(pin') = PinLength
          /\ bankQ' = Append(bankQ, [kind |-> "VerifyPin", pin |-> pin'])
          /\ state' = "verifying_pin"
       \/ /\ Len(pin') # PinLength
          /\ UNCHANGED <<bankQ, state>>
    /\ UNCHANGED <<ifQ, amount, bankVars, running, mainVars, history>>

DigitPressed == /\ AtmHandles("DigitPressed")
                /\ pin' = Append(pin, Head(atmQ).digit)
                /\ \/ /\ Len(pin') = PinLength
                      /\ bankQ' = Append(bankQ, [kind |-> "VerifyPin", pin |-> pin'])
                      /\ state' = "verifying_pin"
                   \/ /\ Len(pin') # PinLength
                      /\ UNCHANGED <<bankQ, state>>
                /\ UNCHANGED <<ifQ, amount, bankVars, running, mainVars, history>>

ClearLastPressed == /\ AtmHandles("ClearLastPressed")
                    /\ pin' = IF pin = <<>> THEN pin ELSE Front(pin)
                    /\ UNCHANGED <<bankQ, ifQ, state, amount, bankVars, running, mainVars, history>>

PinVerified == /\ AtmHandles("PinVerified")
               /\ state' = "wait_for_action"
               /\ UNCHANGED <<bankQ, ifQ, pin, amount, bankVars, running, mainVars, history>>

PinIncorrect == /\ AtmHandles("PinIncorrect")
                /\ ifQ' = Show(ifQ)
                /\ state' = "done_processing"
                /\ UNCHANGED <<bankQ, pin, amount, bankVars, running, mainVars, history>>

WithdrawPressed == /\ AtmHandles("WithdrawPressed")
                   /\ amount' = Amount
                   /\ bankQ' = Append(bankQ, [kind |-> "Withdraw", amount |-> Amount])
                   /\ state' = "process_withdrawal"
                   /\ UNCHANGED <<ifQ, pin, bankVars, running, mainVars, history>>

BalancePressed == /\ AtmHandles("BalancePressed")
                  /\ bankQ' = Append(bankQ, Msg("GetBalance"))
                  /\ state' = "process_balance"
                  /\ UNCHANGED <<ifQ, pin, amount, bankVars, running, mainVars, history>>

\* Seeded fault: the bank is told that the money was issued, the hardware is not.
WithdrawOk_NoMoney == /\ AtmHandles("WithdrawOk")
                      /\ bankQ' = Append(bankQ, Msg("WithdrawalProcessed"))
                      /\ state' = "done_processing"
                      /\ UNCHANGED <<ifQ, pin, amount, bankVars, running, mainVars, history>>

WithdrawOk == /\ AtmHandles("WithdrawOk")
              /\ ifQ' = Append(ifQ, [kind |-> "IssueMoney", amount |-> amount])
              /\ bankQ' = Append(bankQ, Msg("WithdrawalProcessed"))
              /\ state' = "done_processing"
              /\ UNCHANGED <<pin, amount, bankVars, running, mainVars, history>>

WithdrawDenied == /\ AtmHandles("WithdrawDenied")
                  /\ ifQ' = Show(ifQ)
                  /\ state' = "done_processing"
                  /\ UNCHANGED <<bankQ, pin, amount, bankVars, running, mainVars, history>>

BalanceAnswer == /\ AtmHandles("Balance")
                 /\ ifQ' = Show(ifQ)
                 /\ state' = "wait_for_action"
                 /\ UNCHANGED <<bankQ, pin, amount, bankVars, running, mainVars, history>>

\* The cancel key: a withdrawal in progress is also cancelled with the bank.
CancelPressed == /\ AtmHandles("CancelPressed")
                 /\ state' = "done_processing"
                 /\ cancels' = [s \in DOMAIN Awaits |-> cancels[s] + IF s = state THEN 1 ELSE 0]
                 /\ \/ /\ state = "process_withdrawal"
                       /\ bankQ' = Append(bankQ, Msg("CancelWithdrawal"))
                       /\ ifQ' = Show(ifQ)
                    \/ /\ state # "process_withdrawal"
                       /\ UNCHANGED <<bankQ, ifQ>>
                 /\ UNCHANGED <<pin, amount, bankVars, running, mainVars, dispensed>>
-------------------------------------------------------------------------------
(* The bank. *)

\* The bank takes a message: its handler of the one before has returned.
BankGets(k) == /\ "bank" \in running
               /\ debit = 0
               /\ bankQ # <<>>
               /\ Head(bankQ).kind = k
               /\ bankQ' = Tail(bankQ)

BankVerifiesPin ==
    /\ BankGets("VerifyPin")
    /\ atmQ' = Append(atmQ, Msg(IF Head(bankQ).pin = CorrectPin THEN "PinVerified"
                                                                ELSE "PinIncorrect"))
    /\ UNCHANGED <<ifQ, atmVars, bankVars, running, mainVars, history>>

\* Seeded fault: a withdrawal that the balance does not cover gets no answer.
BankWithdraws_Silent ==
    /\ BankGets("Withdraw")
    /\ \/ /\ balance >= Head(bankQ).amount
          /\ atmQ' = Append(atmQ, Msg("WithdrawOk"))
          /\ debit' = Head(bankQ).amount
       \/ /\ balance < Head(bankQ).amount
          /\ UNCHANGED <<atmQ, debit>>
    /\ UNCHANGED <<ifQ, atmVars, balance, running, mainVars, history>>

\* Seeded fault: the answer is sent outside the test: every withdrawal is
\* answered WithdrawOk and only a covered one is subtracted.
BankWithdraws_AlwaysOk ==
    /\ BankGets("Withdraw")
    /\ atmQ' = Append(atmQ, Msg("WithdrawOk"))
    /\ debit' = IF balance >= Head(bankQ).amount THEN Head(bankQ).amount ELSE 0
    /\ UNCHANGED <<ifQ, atmVars, balance, running, mainVars, history>>

\* Seeded fault: the balance is not tested, and goes below zero.
BankWithdraws_Overdraws ==
    /\ BankGets("Withdraw")
    /\ atmQ' = Append(atmQ, Msg("WithdrawOk"))
    /\ debit' = Head(bankQ).amount
    /\ UNCHANGED <<ifQ, atmVars, balance, running, mainVars, history>>

\* The answer is sent first: while the amount is still to be subtracted, the ATM
\* and the interface may already act on it.
BankWithdraws ==
    /\ BankGets("Withdraw")
    /\ \/ /\ balance >= Head(bankQ).amount
          /\ atmQ' = Append(atmQ, Msg("WithdrawOk"))
          /\ debit' = Head(bankQ).amount
       \/ /\ balance < Head(bankQ).amount
          /\ atmQ' = Append(atmQ, Msg("WithdrawDenied"))
          /\ UNCHANGED debit
    /\ UNCHANGED <<ifQ, atmVars, balance, running, mainVars, history>>

\* _balance -= msg.amount, the last thing the handler does.
BankSubtracts == /\ debit # 0
                 /\ balance' = balance - debit
                 /\ debit' = 0
                 /\ UNCHANGED <<queues, atmVars, running, mainVars, history>>

BankTellsBalance == /\ BankGets("GetBalance")
                    /\ atmQ' = Append(atmQ, Msg("Balance"))
                    /\ UNCHANGED <<ifQ, atmVars, bankVars, running, mainVars, history>>

\* The handlers of WithdrawalProcessed and CancelWithdrawal are empty.
BankIgnores == /\ \E k \in {"WithdrawalProcessed", "CancelWithdrawal"} : BankGets(k)
               /\ UNCHANGED <<atmQ, ifQ, atmVars, bankVars, running, mainVars, history>>

BankCloses == /\ BankGets("CloseQueue")
              /\ running' = running \ {"bank"}
              /\ UNCHANGED <<atmQ, ifQ, atmVars, bankVars, mainVars, history>>
-------------------------------------------------------------------------------
(* The interface hardware. *)

IfGets(k) == /\ "interface" \in running
             /\ ifQ # <<>>
             /\ Head(ifQ).kind = k
             /\ ifQ' = Tail(ifQ)

IssueMoney == /\ IfGets("IssueMoney")
              /\ dispensed' = dispensed + Head(ifQ).amount
              /\ UNCHANGED <<atmQ, bankQ, atmVars, bankVars, running, mainVars, cancels>>

Display == /\ IfGets("Display")
           /\ UNCHANGED <<atmQ, bankQ, atmVars, bankVars, running, mainVars, history>>

InterfaceCloses == /\ IfGets("CloseQueue")
                   /\ running' = running \ {"interface"}
                   /\ UNCHANGED <<atmQ, bankQ, atmVars, bankVars, mainVars, history>>
-------------------------------------------------------------------------------
AtmStep == \/ CallState
           \/ CallDoneProcessing
           \/ AtmDrops
           \/ AtmCloses
           \/ CardInserted
           \/ DigitPressed
           \/ ClearLastPressed
           \/ PinVerified
           \/ PinIncorrect
           \/ WithdrawPressed
           \/ BalancePressed
           \/ WithdrawOk
           \/ WithdrawDenied
           \/ BalanceAnswer
           \/ CancelPressed

BankStep == \/ BankVerifiesPin
            \/ BankWithdraws
            \/ BankSubtracts
            \/ BankTellsBalance
            \/ BankIgnores
            \/ BankCloses

InterfaceStep == IssueMoney \/ Display \/ InterfaceCloses

MainShutsDown == CloseBank \/ CloseAtm \/ CloseInterface \/ Join

Next == \/ \E d \in Digits : PressDigit(d)
        \/ \E k \in Keys : PressKey(k)
        \/ PressQuit
        \/ MainShutsDown
        \/ AtmStep
        \/ BankStep
        \/ InterfaceStep

Spec == Init /\ [][Next]_vars

\* Each thread runs on while it can.  Nobody is obliged to press a key.
Fairness == /\ WF_vars(AtmStep)
            /\ WF_vars(BankStep)
            /\ WF_vars(InterfaceStep)
            /\ WF_vars(MainShutsDown)
-------------------------------------------------------------------------------
(* Properties. *)

\* Every variable has its type; in particular the bank's unsigned balance does
\* not go below zero (bank_machine.cpp:20-22).
TypeOK ==
    /\ Kinds(atmQ) \subseteq (UNION {Handles[s] : s \in DOMAIN Handles}) \cup {"CloseQueue"}
    /\ Kinds(bankQ) \subseteq {"VerifyPin", "Withdraw", "GetBalance", "WithdrawalProcessed",
                               "CancelWithdrawal", "CloseQueue"}
    /\ Kinds(ifQ) \subseteq {"IssueMoney", "Display", "CloseQueue"}
    /\ state \in DOMAIN Handles
    /\ called \in BOOLEAN
    /\ pin \in Seq(Digits) /\ Len(pin) <= PinLength
    /\ amount \in {0, Amount}
    /\ balance \in Nat
    /\ debit \in {0, Amount}
    /\ running \subseteq {"atm", "bank", "interface"}
    /\ main \in {"reading", "close_bank", "close_atm", "close_interface", "joining", "returned"}
    /\ keys \in 0 .. MaxKeys
    /\ dispensed \in Nat
    /\ cancels \in [DOMAIN Awaits -> 0 .. MaxKeys]

\* Money on its way to the customer: issued, or approved and not yet issued.
Issued   == dispensed + Amount * Count(ifQ, "IssueMoney")
Approved == Amount * Count(atmQ, "WithdrawOk")
Debited  == InitialBalance - balance

\* Every amount that is approved or issued has a debit of its own, done or about
\* to be done by the bank and covered by the balance, although the bank answers
\* before it subtracts and however the customer cancels and starts again: in the
\* time between the two lines only that one amount may be out before it left the
\* account (atm.cpp:9, bank_machine.cpp:20-22).
IssuedIsCovered == /\ Issued + Approved <= Debited + debit
                   /\ debit <= balance

\* Money leaves the account without reaching the customer only through a
\* cancelled withdrawal whose answer came too late, one amount for each.
LossOnlyByCancel == Debited <= Issued + Approved + Amount * cancels.process_withdrawal

\* With the bank idle, what left the account is what the customer gets, as
\* "Withdrawal cancelled" tells a customer (interface_machine.cpp:54).
BooksBalance == bankQ = <<>> /\ debit = 0 => Debited = Issued + Approved

\* A machine that waits for the bank does not wait in vain: its answer is in
\* its queue, or the request is in the queue of a bank that runs, unless q was
\* pressed.  A late answer to a cancelled request may be taken instead, but never
\* leaves the machine without one.
AnswerUnderWay ==
    state \in DOMAIN Awaits =>
        \/ Awaits[state].request \in Kinds(bankQ) /\ "bank" \in running
        \/ Awaits[state].answers \cap Kinds(atmQ) # {}
        \/ main # "reading"

\* As long as nobody has cancelled while a PIN was being verified, nothing is
\* offered to a customer whose PIN is not the right one, and the PIN does not
\* change under the bank's answer (atm.cpp:66-78, bank_machine.cpp:11).  Without
\* that premise it does not hold: the answer to a cancelled verification may come
\* while the next customer's PIN is being verified, and it is taken for its verdict.
PinChecked == /\ state \in {"wait_for_action", "process_withdrawal", "process_balance"}
              /\ cancels.verifying_pin = 0
              => pin = CorrectPin

\* Pressing q ends the program from every state of the three machines, with
\* whatever is still in the queues (main.cpp:51-57).
QuitTerminates == main # "reading" ~> main = "returned"

\* A withdrawal ends: with money, with a denial, with a cancellation, or with
\* the closing of the machine.
WithdrawalResolves == state = "process_withdrawal" ~> \/ state # "process_withdrawal"
                                                      \/ "atm" \notin running
===============================================================================
