------------------------------ MODULE GasMeter ------------------------------
(***************************************************************************)
(* Gas metering as evmjit compiles it (src/libevmjit/GasMeter.cpp and the  *)
(* instructions of Compiler.cpp whose gas is seen outside).                *)
(*                                                                         *)
(* The static costs of consecutive instructions are summed into a cost     *)
(* block that a single gas.check, placed before the first of them, pays in *)
(* advance.  Costs known at run time are paid where they arise.  A cost    *)
(* block is committed before anyone can see the gas left.                  *)
(*                                                                         *)
(* As in LocalStack, the module follows one execution path: the code of a  *)
(* cost block runs when the block is committed.                            *)
(***************************************************************************)
EXTENDS Integers

CONSTANTS
    MaxGas,         \* Constant::gasMax, INT64_MAX
    KeepDiv,        \* a call keeps the gas left divided by KeepDiv (64)
    StepCosts,      \* what getStepCost() returns
    CallCost,       \* what it returns for CALL* and CREATE
    LogGas,         \* what it returns for LOGn
    Charges,        \* costs computed at run time, of 256 bits
    Asks,           \* gas operands of CALL*, of 256 bits
    TransferGas,    \* JITSchedule::valueTransferGas
    CallStipend,    \* JITSchedule::callStipend
    NewAccountGas,  \* JITSchedule::callNewAccount
    MaxOwed         \* bound on what a cost block owes before its last instruction

ASSUME GasAssumption ==
    /\ MaxGas \in Nat
    /\ KeepDiv \in Nat \ {0}
    /\ StepCosts \subseteq Nat
    /\ CallCost \in Nat \ {0}
    /\ LogGas \in Nat \ {0}
    /\ Charges \subseteq Nat
    /\ Asks \subseteq Nat

(* The stipend is paid for by the transfer of value it comes with.         *)
ASSUME StipendAssumption ==
    /\ TransferGas \in Nat
    /\ CallStipend \in 0..TransferGas
    /\ NewAccountGas \in Nat
    /\ MaxOwed \in Nat

VARIABLES
    inst,           \* the instruction that comes next, with what it will cost
    capCalls,       \* m_rev >= EVMC_TANGERINE_WHISTLE
    meter,          \* the compiler's cost block and the gas at run time
    report,         \* the gas shown by the last step to the program, a callee
                    \* or the host
    status          \* "running", "stopped" or "aborted"

vars == <<inst, capCalls, meter, report, status>>

None == [op |-> "none"]

(* An instruction with its step cost and up to two run-time costs (memory  *)
(* and data; zero when it has none).  Of a CALL* they are those of its two *)
(* memory ranges, with the transfer of value, the new account and the gas  *)
(* that it asks to pass on.  A CALL of static code must not transfer value.*)
Instructions ==
    [op : {"plain", "stop"}, step : StepCosts, c1 : Charges, c2 : Charges]
    \cup [op : {"log"}, step : {LogGas}, c1 : Charges, c2 : Charges]
    \cup [op : {"gas"}, step : StepCosts]
    \cup [op : {"call"}, c1 : Charges, c2 : Charges, account : BOOLEAN,
          transfer : {"none", "value", "forbidden"}, ask : Asks]
    \cup [op : {"create"}, c1 : Charges]
    \cup [op : {"invalid"}]

(* open: m_checkCall is set; cost: m_blockCost; charged: the run-time costs *)
(* the code of the open cost block pays; gas: *gas.ptr; oog: gas.check has  *)
(* jumped to the abort handler.                                             *)
Meters == [open : BOOLEAN, cost : Nat, charged : Nat, gas : 0..MaxGas,
           oog : BOOLEAN]

TypeOK ==
    /\ inst \in Instructions \cup {None}
    /\ capCalls \in BOOLEAN
    /\ meter \in Meters
    /\ report \in 0..MaxGas
    /\ status \in {"running", "stopped", "aborted"}

Init ==
    /\ inst = None
    /\ capCalls \in BOOLEAN
    /\ \E g \in 0..MaxGas :
         meter = [open |-> FALSE, cost |-> 0, charged |-> 0, gas |-> g,
                  oog |-> FALSE]
    /\ report = 0
    /\ status = "running"

-----------------------------------------------------------------------------
(* gas.check(gasPtr, cost).                                                *)
Check(m, cost) ==
    IF m.oog \/ m.gas - cost < 0
    THEN [m EXCEPT !.oog = TRUE]
    ELSE [m EXCEPT !.gas = @ - cost]

(* count(Instruction): the first one of a cost block emits its check.      *)
Count(m, step) == [m EXCEPT !.open = TRUE, !.cost = @ + step]

(* count(Value): a cost too high for the 64 bits of gas is the highest.    *)
Clamp(cost) == IF cost > MaxGas THEN MaxGas ELSE cost

CountValue(m, cost) ==
    IF m.open
    THEN [m EXCEPT !.charged = @ + Clamp(cost)]
    ELSE Check(m, Clamp(cost))

(* commitCostBlock(), and the run of the code up to there: the check of    *)
(* the cost block, unless it was erased, and then the run-time costs.      *)
Commit(m) ==
    LET paid == IF m.open /\ m.cost # 0 THEN Check(m, m.cost) ELSE m
    IN  [Check(paid, m.charged) EXCEPT !.open = FALSE, !.cost = 0, !.charged = 0]

GiveBack(m, g) == [m EXCEPT !.gas = @ + g]

-----------------------------------------------------------------------------
Counted(i) == CountValue(CountValue(Count(meter, i.step), i.c1), i.c2)

(* gas.check has nothing left to refuse only a cost that was clamped when  *)
(* nothing was paid yet; instructions with run-time costs either cost      *)
(* something or take operands that did.                                    *)
Payable(i) ==
    i.c1 + i.c2 > 0 => i.step > 0 \/ meter.cost > 0 \/ meter.gas < MaxGas

Possible(i) ==
    /\ i.op \in {"plain", "log", "stop"} => Payable(i)
    /\ i.op \in {"plain", "log"} => meter.cost + meter.charged <= MaxOwed

(* The next instruction of the path.                                       *)
Fetch ==
    /\ status = "running" /\ inst = None
    /\ \E i \in Instructions : Possible(i) /\ inst' = i
    /\ report' = 0
    /\ UNCHANGED <<meter, status>>

(* An instruction that does not end the cost block, LOGn among them.       *)
Plain ==
    /\ inst.op \in {"plain", "log"}
    /\ inst' = None
    /\ meter' = Counted(inst)
    /\ UNCHANGED <<report, status>>

(* The rest of an action when the gas has run out at run time.             *)
AbortWith(m) ==
    /\ m.oog
    /\ meter' = m
    /\ status' = "aborted"
    /\ UNCHANGED report

(* GAS.                                                                    *)
ReadGas ==
    /\ inst.op = "gas"
    /\ inst' = None
    /\ LET m == Commit(Count(meter, inst.step))
       IN  \/ AbortWith(m)
           \/ /\ ~m.oog
              /\ meter' = m
              /\ report' = m.gas
              /\ UNCHANGED status

(* The end of a basic block that goes on with another one.                 *)
EndBlock ==
    /\ status = "running" /\ inst = None
    /\ LET m == Commit(meter)
       IN  \/ AbortWith(m)
           \/ /\ ~m.oog
              /\ meter' = m
              /\ UNCHANGED <<report, status>>
    /\ UNCHANGED inst

(* STOP, RETURN, REVERT, SUICIDE: the exit block stores the gas left for   *)
(* the host.                                                               *)
Stop ==
    /\ inst.op = "stop"
    /\ inst' = None
    /\ LET m == Commit(Counted(inst))
       IN  \/ AbortWith(m)
           \/ /\ ~m.oog
              /\ meter' = m
              /\ report' = m.gas
              /\ status' = "stopped"

(* An invalid instruction leaves through the exit block as out of gas.     *)
Invalid ==
    /\ inst.op = "invalid"
    /\ inst' = None
    /\ meter' = Commit(Count(meter, 0))
    /\ status' = "aborted"
    /\ UNCHANGED report

-----------------------------------------------------------------------------
(* The result of evm.call: the gas left, with the sign bit set             *)
(* (EVM_CALL_FAILURE) when the call failed; call.rmagic removes it.        *)
Flag == MaxGas + 1

Encoded(back, success) == IF success THEN back ELSE back - Flag

DecodedRaw(r) == r                                              \* mutant
Decoded(r) == IF r >= 0 THEN r ELSE r + Flag

(* GasLeft >> 6.                                                           *)
Kept(gas) == IF capCalls THEN gas \div KeepDiv ELSE 0

AskedAll(gas, ask) ==                                           \* mutant
    IF capCalls /\ ask > gas THEN gas ELSE ask
Asked(gas, ask) ==
    IF capCalls /\ ask > gas - Kept(gas) THEN gas - Kept(gas) ELSE ask

(* trunc to i64, as an unsigned number.                                    *)
Trunc(v) == v % (2 * Flag)

(* Mutant: the transfer of value is free.                                  *)
BeforeCallFree(i) ==
    LET m == CountValue(CountValue(Commit(Count(meter, CallCost)), i.c1), i.c2)
    IN  CountValue(m, IF i.account THEN NewAccountGas ELSE 0)

(* The infinite penalty keeps static code from transferring value.         *)
TransferCost(i) ==
    CASE i.transfer = "none" -> 0
      [] i.transfer = "value" -> TransferGas
      [] i.transfer = "forbidden" -> MaxGas

(* The cost block is committed before memory, value transfer and new       *)
(* account are paid.                                                       *)
BeforeCall(i) ==
    LET m1 == CountValue(CountValue(Commit(Count(meter, CallCost)), i.c1), i.c2)
        m2 == CountValue(m1, TransferCost(i))
    IN  CountValue(m2, IF i.account THEN NewAccountGas ELSE 0)

(* CALL, CALLCODE, DELEGATECALL, STATICCALL.                               *)
Call ==
    /\ inst.op = "call"
    /\ inst' = None
    /\ LET m == BeforeCall(inst)
           asked == Asked(m.gas, inst.ask)
           sent == CountValue(m, asked)
           gas == Trunc(asked) + (IF inst.transfer = "none" THEN 0 ELSE CallStipend)
       IN  \/ AbortWith(sent)
           \/ /\ ~sent.oog
              /\ report' = gas
              /\ \E back \in 0..gas, success \in BOOLEAN :
                   meter' = GiveBack(sent, Decoded(Encoded(back, success)))
              /\ UNCHANGED status

(* CREATE: memory is paid as part of the cost block, which is committed    *)
(* just before the gas is divided.                                         *)
Create ==
    /\ inst.op = "create"
    /\ inst' = None
    /\ LET m == Commit(CountValue(Count(meter, CallCost), inst.c1))
           gas == m.gas - Kept(m.gas)
       IN  \/ AbortWith(m)
           \/ /\ ~m.oog
              /\ report' = gas
              /\ \E back \in 0..gas, success \in BOOLEAN :
                   meter' = [m EXCEPT !.gas = Decoded(Encoded(back, success))
                                              + Kept(m.gas)]
              /\ UNCHANGED status

Next ==
    /\ \/ Fetch
       \/ Plain \/ ReadGas \/ EndBlock \/ Stop \/ Invalid \/ Call \/ Create
    /\ UNCHANGED capCalls

Spec == Init /\ [][Next]_vars

-----------------------------------------------------------------------------
(* The gas a program really has: what is left when all it owes is paid.    *)
Net(m) == IF m.oog THEN -1 ELSE m.gas - m.cost - m.charged

Solvent == status # "aborted" /\ Net(meter) >= 0

Account == IF Solvent THEN Net(meter) ELSE 0

(* No instruction, no call with a stipend and no failed call ever leaves   *)
(* the program with more gas than it had.                                  *)
GasNeverCreated == [][Account' <= Account]_vars

(* Whoever sees the gas sees what metering one instruction at a time would *)
(* have left, nobody sees any when it would have run out, and an abort     *)
(* means that it would have.                                               *)
CostOf(i) ==
    CASE i.op \in {"plain", "log", "stop"} -> i.step + i.c1 + i.c2
      [] i.op = "gas" -> i.step
      [] i.op = "call" -> CallCost + i.c1 + i.c2
                          + (IF i.transfer = "none" THEN 0 ELSE TransferGas)
                          + (IF i.account THEN NewAccountGas ELSE 0)
      [] i.op = "create" -> CallCost + i.c1
      [] OTHER -> 0

Evm == INSTANCE EvmGas WITH
    Cost <- CostOf,
    Stipend <- CallStipend,
    gas <- Account,
    ok <- Solvent

ImplementsEvmGas == Evm!Spec
=============================================================================
