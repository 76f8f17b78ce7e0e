--------------------------- MODULE GasMeterProofs ---------------------------
(***************************************************************************)
(* Proofs about GasMeter, for any schedule of costs and any amounts of gas *)
(* and that it implements EvmGas.                                          *)
(***************************************************************************)
EXTENDS GasMeter, TLAPS

(* Without a cost block nothing is owed.                                   *)
Settled(m) == ~m.open => m.cost = 0 /\ m.charged = 0

(* The meter stands still between the choice of an instruction and its     *)
(* execution.                                                              *)
Fetched == inst # None => status = "running" /\ Possible(inst)

IInv == TypeOK /\ Settled(meter) /\ Fetched

(* What a meter n has left of m after c was paid: the program is insolvent *)
(* exactly when it could not pay.                                          *)
Pays(m, n, c) == IF Net(m) >= c THEN Net(n) = Net(m) - c ELSE Net(n) < 0

-----------------------------------------------------------------------------
LEMMA ConstantFacts ==
    /\ MaxGas \in Nat /\ KeepDiv \in Nat /\ KeepDiv > 0
    /\ CallCost \in Nat /\ CallCost > 0 /\ LogGas \in Nat /\ LogGas > 0
    /\ TransferGas \in Nat /\ NewAccountGas \in Nat
    /\ CallStipend \in Nat /\ CallStipend <= TransferGas
    /\ Flag = MaxGas + 1
  BY GasAssumption, StipendAssumption DEF Flag

LEMMA InstructionFacts ==
    ASSUME NEW i \in Instructions
    PROVE  /\ i # None
           /\ i.op \in {"plain", "stop", "log", "gas", "call", "create", "invalid"}
           /\ i.op \in {"plain", "stop", "log"} =>
                i.step \in Nat /\ i.c1 \in Nat /\ i.c2 \in Nat
           /\ i.op = "gas" => i.step \in Nat
           /\ i.op = "call" =>
                /\ i.c1 \in Nat /\ i.c2 \in Nat /\ i.ask \in Nat
                /\ i.account \in BOOLEAN
                /\ i.transfer \in {"none", "value", "forbidden"}
           /\ i.op = "create" => i.c1 \in Nat
<1>1. \A n \in StepCosts \cup {LogGas} \cup Charges \cup Asks : n \in Nat
  BY GasAssumption
<1>2. CASE i \in [op : {"plain", "stop"}, step : StepCosts, c1 : Charges,
                  c2 : Charges]
  BY <1>1, <1>2 DEF None
<1>3. CASE i \in [op : {"log"}, step : {LogGas}, c1 : Charges, c2 : Charges]
  BY <1>1, <1>3 DEF None
<1>4. CASE i \in [op : {"gas"}, step : StepCosts]
  BY <1>1, <1>4 DEF None
<1>5. CASE i \in [op : {"call"}, c1 : Charges, c2 : Charges, account : BOOLEAN,
                  transfer : {"none", "value", "forbidden"}, ask : Asks]
  BY <1>1, <1>5 DEF None
<1>6. CASE i \in [op : {"create"}, c1 : Charges]
  BY <1>1, <1>6 DEF None
<1>7. CASE i \in [op : {"invalid"}]
  BY <1>7 DEF None
<1>8. QED
  BY <1>2, <1>3, <1>4, <1>5, <1>6, <1>7 DEF Instructions

LEMMA NoneFacts == None.op = "none"
  BY DEF None

LEMMA CostFacts ==
    ASSUME NEW i \in Instructions
    PROVE  /\ CostOf(i) \in Nat
           /\ i.op \in {"plain", "stop", "log"} => CostOf(i) = i.step + i.c1 + i.c2
           /\ i.op = "gas" => CostOf(i) = i.step
           /\ i.op = "call" =>
                CostOf(i) = CallCost + i.c1 + i.c2
                            + (IF i.transfer = "none" THEN 0 ELSE TransferGas)
                            + (IF i.account THEN NewAccountGas ELSE 0)
           /\ i.op = "create" => CostOf(i) = CallCost + i.c1
<1>1. i.op \in {"plain", "stop", "log", "gas", "call", "create", "invalid"}
  BY InstructionFacts
<1>2. CASE i.op \in {"plain", "stop", "log"}
  BY <1>2, InstructionFacts DEF CostOf
<1>3. CASE i.op = "gas"
  BY <1>3, InstructionFacts DEF CostOf
<1>4. CASE i.op = "call"
  BY <1>4, InstructionFacts, ConstantFacts DEF CostOf
<1>5. CASE i.op = "create"
  BY <1>5, InstructionFacts, ConstantFacts DEF CostOf
<1>6. CASE i.op = "invalid"
  BY <1>6 DEF CostOf
<1>7. QED
  BY <1>1, <1>2, <1>3, <1>4, <1>5, <1>6

-----------------------------------------------------------------------------
(* What the operations of the meter cost.                                  *)

LEMMA MeterFacts ==
    ASSUME NEW m \in Meters
    PROVE  /\ m.open \in BOOLEAN /\ m.cost \in Nat /\ m.charged \in Nat
           /\ m.gas \in 0..MaxGas /\ m.gas \in Nat /\ m.oog \in BOOLEAN
           /\ Net(m) \in Int /\ Net(m) <= MaxGas
           /\ Net(m) = IF m.oog THEN -1 ELSE m.gas - m.cost - m.charged
  BY ConstantFacts DEF Meters, Net

LEMMA CheckFacts ==
    ASSUME NEW m \in Meters, NEW cost \in Nat
    PROVE  /\ Check(m, cost) \in Meters
           /\ Check(m, cost).open = m.open /\ Check(m, cost).cost = m.cost
           /\ Check(m, cost).charged = m.charged
           /\ Check(m, cost).oog <=> m.oog \/ m.gas < cost
           /\ ~Check(m, cost).oog => Check(m, cost).gas = m.gas - cost
<1> DEFINE n == Check(m, cost)
<1>1. m.gas \in 0..MaxGas /\ m.gas \in Int /\ MaxGas \in Nat
      /\ m.oog \in BOOLEAN
  BY MeterFacts, ConstantFacts
<1>2. CASE m.oog \/ m.gas < cost
  <2>1. n = [m EXCEPT !.oog = TRUE]
    BY <1>1, <1>2 DEF Check
  <2>2. /\ n \in Meters /\ n.open = m.open /\ n.cost = m.cost
        /\ n.charged = m.charged /\ n.oog = TRUE
    BY <2>1 DEF Meters
  <2>3. QED
    BY <1>2, <2>2
<1>3. CASE ~(m.oog \/ m.gas < cost)
  <2>1. n = [m EXCEPT !.gas = m.gas - cost]
    BY <1>1, <1>3 DEF Check
  <2>2. m.gas - cost \in 0..MaxGas
    BY <1>1, <1>3
  <2>3. /\ n \in Meters /\ n.open = m.open /\ n.cost = m.cost
        /\ n.charged = m.charged /\ n.oog = m.oog /\ n.gas = m.gas - cost
    BY <2>1, <2>2 DEF Meters
  <2>4. QED
    BY <1>3, <2>3
<1>4. QED
  BY <1>2, <1>3

LEMMA ClampFacts ==
    ASSUME NEW c \in Nat
    PROVE  Clamp(c) \in Nat /\ Clamp(c) = IF c > MaxGas THEN MaxGas ELSE c
  BY ConstantFacts DEF Clamp

LEMMA CountFacts ==
    ASSUME NEW m \in Meters, NEW step \in Nat
    PROVE  /\ Count(m, step) \in Meters /\ Settled(Count(m, step))
           /\ Count(m, step).open
           /\ Pays(m, Count(m, step), step)
<1> DEFINE n == Count(m, step)
<1>1. /\ n \in Meters /\ n.open /\ n.cost = m.cost + step
      /\ n.charged = m.charged /\ n.gas = m.gas /\ n.oog = m.oog
  <2>1. n = [m EXCEPT !.open = TRUE, !.cost = m.cost + step]
    BY DEF Count, Meters
  <2>2. m.cost + step \in Nat
    BY MeterFacts
  <2> HIDE DEF n
  <2>3. QED
    BY <2>1, <2>2 DEF Meters
<1> HIDE DEF n
<1>2. Settled(n)
  BY <1>1 DEF Settled
<1>3. Pays(m, n, step)
  BY <1>1, MeterFacts DEF Pays
<1>4. QED
  BY <1>1, <1>2, <1>3 DEF n

LEMMA CountValueFacts ==
    ASSUME NEW m \in Meters, Settled(m), NEW c \in Nat
    PROVE  /\ CountValue(m, c) \in Meters /\ Settled(CountValue(m, c))
           /\ CountValue(m, c).open = m.open
           /\ Pays(m, CountValue(m, c), Clamp(c))
<1> DEFINE n == CountValue(m, c)
<1>1. CASE m.open
  <2>1. n = [m EXCEPT !.charged = m.charged + Clamp(c)]
    BY <1>1 DEF CountValue, Meters
  <2>2. /\ n \in Meters /\ n.open /\ n.cost = m.cost
        /\ n.charged = m.charged + Clamp(c) /\ n.gas = m.gas /\ n.oog = m.oog
    BY <1>1, <2>1, ClampFacts DEF Meters
  <2> HIDE DEF n
  <2>3. Settled(n)
    BY <2>2 DEF Settled
  <2>4. Pays(m, n, Clamp(c))
    BY <2>2, MeterFacts, ClampFacts DEF Pays
  <2>5. QED
    BY <1>1, <2>2, <2>3, <2>4 DEF n
<1>2. CASE ~m.open
  <2>1. n = Check(m, Clamp(c)) /\ m.cost = 0 /\ m.charged = 0
    BY <1>2 DEF CountValue, Settled
  <2> HIDE DEF n
  <2>2. /\ n \in Meters /\ n.open = m.open /\ n.cost = 0 /\ n.charged = 0
        /\ n.oog <=> m.oog \/ m.gas < Clamp(c)
        /\ ~n.oog => n.gas = m.gas - Clamp(c)
    BY <2>1, ClampFacts, CheckFacts
  <2>3. Settled(n)
    BY <2>2 DEF Settled
  <2>4. Pays(m, n, Clamp(c))
    BY <2>1, <2>2, MeterFacts, ClampFacts DEF Pays
  <2>5. QED
    BY <1>2, <2>2, <2>3, <2>4 DEF n
<1>3. QED
  BY <1>1, <1>2, MeterFacts

LEMMA CommitFacts ==
    ASSUME NEW m \in Meters, Settled(m)
    PROVE  /\ Commit(m) \in Meters /\ Settled(Commit(m))
           /\ ~Commit(m).open /\ Commit(m).cost = 0 /\ Commit(m).charged = 0
           /\ Commit(m).oog <=> Net(m) < 0
           /\ ~Commit(m).oog => Commit(m).gas = Net(m)
           /\ Pays(m, Commit(m), 0)
<1> DEFINE paid == IF m.open /\ m.cost # 0 THEN Check(m, m.cost) ELSE m
<1> DEFINE ran == Check(paid, m.charged)
<1> DEFINE n == Commit(m)
<1>1. m.cost \in Nat /\ m.charged \in Nat /\ m.gas \in Nat /\ m.oog \in BOOLEAN
  BY MeterFacts
<1>2. /\ paid \in Meters
      /\ paid.oog <=> m.oog \/ m.gas < m.cost
      /\ ~paid.oog => paid.gas = m.gas - m.cost
  <2>1. CASE m.open /\ m.cost # 0
    <3>1. paid = Check(m, m.cost)
      BY <2>1
    <3> HIDE DEF paid
    <3>2. QED
      BY <1>1, <3>1, CheckFacts
  <2>2. CASE ~(m.open /\ m.cost # 0)
    <3>1. paid = m /\ m.cost = 0
      BY <2>2 DEF Settled
    <3> HIDE DEF paid
    <3>2. QED
      BY <1>1, <3>1
  <2>3. QED
    BY <2>1, <2>2
<1>3. n = [ran EXCEPT !.open = FALSE, !.cost = 0, !.charged = 0]
  BY DEF Commit
<1> HIDE DEF paid, n
<1>4. /\ ran \in Meters
      /\ ran.oog <=> paid.oog \/ paid.gas < m.charged
      /\ ~ran.oog => ran.gas = paid.gas - m.charged
  BY <1>1, <1>2, CheckFacts
<1> HIDE DEF ran
<1>5. /\ n \in Meters /\ ~n.open /\ n.cost = 0 /\ n.charged = 0
      /\ n.oog = ran.oog /\ n.gas = ran.gas
  BY <1>3, <1>4 DEF Meters
<1>6. n.oog <=> Net(m) < 0
  BY <1>1, <1>2, <1>4, <1>5, MeterFacts
<1>7. ~n.oog => n.gas = Net(m)
  BY <1>1, <1>2, <1>4, <1>5, MeterFacts
<1>8. Pays(m, n, 0)
  BY <1>5, <1>6, <1>7, MeterFacts DEF Pays
<1>9. QED
  BY <1>5, <1>6, <1>7, <1>8 DEF Settled, n

(* Costs add up.                                                           *)
LEMMA PaysTwice ==
    ASSUME NEW m \in Meters, NEW n \in Meters, NEW k \in Meters,
           NEW a \in Nat, NEW b \in Nat, Pays(m, n, a), Pays(n, k, b)
    PROVE  Pays(m, k, a + b)
  BY MeterFacts DEF Pays

(* A program that has paid anything cannot pay a cost that was clamped.    *)
LEMMA PaysReal ==
    ASSUME NEW m \in Meters, NEW n \in Meters, NEW c \in Nat,
           Pays(m, n, Clamp(c)), Net(m) < MaxGas \/ c = 0
    PROVE  Pays(m, n, c)
  BY MeterFacts, ClampFacts, ConstantFacts DEF Pays

LEMMA PaysKeepsBelow ==
    ASSUME NEW m \in Meters, NEW n \in Meters, NEW c \in Nat, Pays(m, n, c),
           Net(m) < MaxGas \/ c > 0
    PROVE  Net(n) < MaxGas
  BY MeterFacts, ConstantFacts DEF Pays

-----------------------------------------------------------------------------
(* What the instructions cost.                                             *)

LEMMA InvFacts ==
    ASSUME IInv
    PROVE  /\ meter \in Meters /\ Settled(meter) /\ report \in 0..MaxGas
           /\ capCalls \in BOOLEAN
           /\ status \in {"running", "stopped", "aborted"}
           /\ inst # None =>
                inst \in Instructions /\ status = "running" /\ Possible(inst)
           /\ inst.op # "none" => inst # None
  BY NoneFacts DEF IInv, TypeOK, Fetched

LEMMA CountedFacts ==
    ASSUME IInv, inst.op \in {"plain", "log", "stop"}
    PROVE  /\ Counted(inst) \in Meters /\ Settled(Counted(inst))
           /\ Pays(meter, Counted(inst), CostOf(inst))
<1> DEFINE m1 == Count(meter, inst.step)
<1> DEFINE m2 == CountValue(m1, inst.c1)
<1> DEFINE m3 == CountValue(m2, inst.c2)
<1>1. /\ meter \in Meters /\ Settled(meter)
      /\ inst \in Instructions /\ Possible(inst)
  BY InvFacts
<1>2. inst.step \in Nat /\ inst.c1 \in Nat /\ inst.c2 \in Nat
  BY <1>1, InstructionFacts
<1>3. m1 \in Meters /\ Settled(m1) /\ Pays(meter, m1, inst.step)
  BY <1>1, <1>2, CountFacts
<1> HIDE DEF m1
<1>4. m2 \in Meters /\ Settled(m2) /\ Pays(m1, m2, Clamp(inst.c1))
  BY <1>2, <1>3, CountValueFacts
<1> HIDE DEF m2
<1>5. m3 \in Meters /\ Settled(m3) /\ Pays(m2, m3, Clamp(inst.c2))
  BY <1>2, <1>4, CountValueFacts
<1>6. m3 = Counted(inst)
  BY DEF Counted, m1, m2
<1> HIDE DEF m3
<1>7. inst.c1 + inst.c2 > 0 => Net(m1) < MaxGas
  <2> SUFFICES ASSUME inst.c1 + inst.c2 > 0 PROVE Net(m1) < MaxGas
    OBVIOUS
  <2>1. inst.step > 0 \/ meter.cost > 0 \/ meter.gas < MaxGas
    BY <1>1 DEF Possible, Payable
  <2>2. inst.step > 0 \/ Net(meter) < MaxGas
    BY <1>1, <2>1, MeterFacts, ConstantFacts
  <2>3. QED
    BY <1>1, <1>2, <1>3, <2>2, PaysKeepsBelow
<1>8. Pays(m1, m2, inst.c1)
  BY <1>2, <1>3, <1>4, <1>7, PaysReal
<1>9. Net(m2) < MaxGas \/ inst.c2 = 0
  BY <1>2, <1>3, <1>4, <1>7, <1>8, PaysKeepsBelow
<1>10. Pays(m2, m3, inst.c2)
  BY <1>2, <1>4, <1>5, <1>9, PaysReal
<1>11. Pays(meter, m2, inst.step + inst.c1)
  BY <1>1, <1>2, <1>3, <1>4, <1>8, PaysTwice
<1>12. inst.step + inst.c1 \in Nat
  BY <1>2
<1>13. Pays(meter, m3, inst.step + inst.c1 + inst.c2)
  BY <1>1, <1>2, <1>4, <1>5, <1>10, <1>11, <1>12, PaysTwice
<1>14. CostOf(inst) = inst.step + inst.c1 + inst.c2
  BY <1>1, CostFacts
<1>15. QED
  BY <1>5, <1>6, <1>13, <1>14

(* The program is solvent as long as it can pay.                           *)
LEMMA AffordFacts ==
    ASSUME IInv, NEW n \in Meters, NEW c \in Nat, status # "aborted",
           Pays(meter, n, c)
    PROVE  /\ Solvent /\ Account >= c <=> Net(n) >= 0
           /\ Net(n) >= 0 => Net(n) = Account - c
           /\ Account \in Nat
<1>1. meter \in Meters
  BY InvFacts
<1>2. QED
  BY <1>1, MeterFacts DEF Pays, Solvent, Account

LEMMA PlainStep ==
    ASSUME IInv, Plain, capCalls' = capCalls
    PROVE  TypeOK' /\ Settled(meter)' /\ Evm!Plain
<1>1. /\ inst.op \in {"plain", "log"} /\ inst' = None
      /\ meter' = Counted(inst) /\ UNCHANGED <<report, status>>
  BY DEF Plain
<1>2. /\ meter \in Meters /\ inst \in Instructions /\ status = "running"
      /\ report \in 0..MaxGas
  BY <1>1, InvFacts
<1>3. /\ meter' \in Meters /\ Settled(meter')
      /\ Pays(meter, meter', CostOf(inst))
  BY <1>1, CountedFacts
<1>4. CostOf(inst) \in Nat
  BY <1>2, CostFacts
<1>5. /\ Solvent /\ Account >= CostOf(inst) <=> Net(meter') >= 0
      /\ Net(meter') >= 0 => Net(meter') = Account - CostOf(inst)
  BY <1>2, <1>3, <1>4, AffordFacts
<1>6. /\ Solvent' <=> Net(meter') >= 0
      /\ Account' = IF Net(meter') >= 0 THEN Net(meter') ELSE 0
  BY <1>1, <1>2 DEF Solvent, Account, Net
<1>7. Solvent' = Evm!Affordable
  BY <1>5, <1>6 DEF Solvent, Evm!Affordable
<1>8. Account' = IF Evm!Affordable THEN Evm!Left ELSE 0
  BY <1>5, <1>6 DEF Evm!Affordable, Evm!Left
<1>9. Evm!Plain
  BY <1>1, <1>7, <1>8 DEF Evm!Plain
<1>10. TypeOK'
  BY <1>1, <1>2, <1>3, InvFacts DEF TypeOK
<1>11. QED
  BY <1>3, <1>9, <1>10 DEF Settled

(* Out of gas: the host finds none.                                        *)
LEMMA AbortStep ==
    ASSUME IInv, NEW m \in Meters, Settled(m), AbortWith(m),
           inst' \in {inst, None}, capCalls' = capCalls
    PROVE  TypeOK' /\ Settled(meter)' /\ Evm!Abort
<1>1. meter' = m /\ status' = "aborted" /\ report' = report
  BY DEF AbortWith
<1>2. ~Solvent' /\ Account' = 0
  BY <1>1 DEF Solvent, Account
<1>3. Solvent' = FALSE
  BY <1>1 DEF Solvent
<1>4. Evm!Abort
  BY <1>1, <1>2, <1>3 DEF Evm!Abort
<1>5. TypeOK'
  BY <1>1, InvFacts DEF TypeOK, IInv
<1>6. QED
  BY <1>1, <1>4, <1>5 DEF Settled

(* GAS and the end of the program: the cost block is committed first.      *)
LEMMA ShowStep ==
    ASSUME IInv, inst # None, NEW m \in Meters, Settled(m),
           Pays(meter, m, CostOf(inst)), NEW next \in {"running", "stopped"},
           inst' = None, capCalls' = capCalls,
           \/ AbortWith(Commit(m))
           \/ /\ ~Commit(m).oog /\ meter' = Commit(m)
              /\ report' = Commit(m).gas /\ status' = next
    PROVE  TypeOK' /\ Settled(meter)' /\ Evm!Show(next)
<1> DEFINE n == Commit(m)
<1>1. /\ n \in Meters /\ Settled(n) /\ ~n.open /\ n.cost = 0 /\ n.charged = 0
      /\ n.oog <=> Net(m) < 0
      /\ ~n.oog => n.gas = Net(m)
  BY CommitFacts
<1>2. n.gas \in 0..MaxGas
  BY <1>1, MeterFacts
<1>3. /\ meter \in Meters /\ inst \in Instructions /\ status = "running"
      /\ CostOf(inst) \in Nat
  BY InvFacts, CostFacts
<1>4. /\ Solvent /\ Account >= CostOf(inst) <=> Net(m) >= 0
      /\ Net(m) >= 0 => Net(m) = Account - CostOf(inst)
  BY <1>3, AffordFacts
<1>5. Net(m) \in Int
  BY MeterFacts
<1>6. CASE AbortWith(n)
  <2>1. n.oog
    BY <1>6 DEF AbortWith
  <2>2. TypeOK' /\ Settled(meter)' /\ Evm!Abort
    BY <1>1, <1>6, AbortStep
  <2>3. ~Evm!Affordable
    BY <1>1, <1>4, <1>5, <2>1 DEF Evm!Affordable
  <2>4. QED
    BY <2>2, <2>3 DEF Evm!Show
<1>7. CASE /\ ~n.oog /\ meter' = n /\ report' = n.gas /\ status' = next
  <2>1. Net(m) >= 0
    BY <1>1, <1>5, <1>7
  <2>2. Evm!Affordable /\ Evm!Left = n.gas
    BY <1>1, <1>4, <1>7, <2>1 DEF Evm!Affordable, Evm!Left
  <2>3. Net(meter') = n.gas
    BY <1>1, <1>2, <1>7 DEF Net
  <2>4. Solvent' = TRUE /\ Account' = n.gas
    BY <1>2, <1>7, <2>3 DEF Solvent, Account, Net
  <2>5. Solvent = TRUE
    BY <2>2 DEF Evm!Affordable, Solvent
  <2>6. Evm!Show(next)
    BY <1>7, <2>2, <2>4, <2>5 DEF Evm!Show
  <2>7. TypeOK'
    BY <1>1, <1>2, <1>7, InvFacts DEF TypeOK, IInv
  <2>8. QED
    BY <1>1, <1>7, <2>6, <2>7 DEF Settled
<1>8. QED
  BY <1>6, <1>7

LEMMA StopStep ==
    ASSUME IInv, Stop, capCalls' = capCalls
    PROVE  TypeOK' /\ Settled(meter)' /\ Evm!Show("stopped")
<1>1. /\ inst.op = "stop" /\ inst' = None
      /\ \/ AbortWith(Commit(Counted(inst)))
         \/ /\ ~Commit(Counted(inst)).oog /\ meter' = Commit(Counted(inst))
            /\ report' = Commit(Counted(inst)).gas /\ status' = "stopped"
  BY DEF Stop
<1>2. inst # None
  BY <1>1, InvFacts
<1>3. /\ Counted(inst) \in Meters /\ Settled(Counted(inst))
      /\ Pays(meter, Counted(inst), CostOf(inst))
  BY <1>1, CountedFacts
<1>4. QED
  BY <1>1, <1>2, <1>3, ShowStep

LEMMA ReadGasStep ==
    ASSUME IInv, ReadGas, capCalls' = capCalls
    PROVE  TypeOK' /\ Settled(meter)' /\ Evm!Show("running")
<1> DEFINE m == Count(meter, inst.step)
<1>1. /\ inst.op = "gas" /\ inst' = None
      /\ \/ AbortWith(Commit(m))
         \/ /\ ~Commit(m).oog /\ meter' = Commit(m)
            /\ report' = Commit(m).gas /\ status' = status
  BY DEF ReadGas
<1>2. /\ inst # None /\ inst \in Instructions /\ status = "running"
      /\ meter \in Meters
  BY <1>1, InvFacts
<1>3. inst.step \in Nat /\ CostOf(inst) = inst.step
  BY <1>1, <1>2, InstructionFacts, CostFacts
<1>4. m \in Meters /\ Settled(m) /\ Pays(meter, m, CostOf(inst))
  BY <1>2, <1>3, CountFacts
<1> HIDE DEF m
<1>5. QED
  BY <1>1, <1>2, <1>4, ShowStep

LEMMA InvalidStep ==
    ASSUME IInv, Invalid, capCalls' = capCalls
    PROVE  TypeOK' /\ Settled(meter)' /\ Evm!Abort
<1>1. /\ inst' = None /\ meter' = Commit(Count(meter, 0))
      /\ status' = "aborted" /\ report' = report
  BY DEF Invalid
<1>2. Count(meter, 0) \in Meters /\ Settled(Count(meter, 0))
  BY InvFacts, CountFacts
<1>3. meter' \in Meters /\ Settled(meter')
  BY <1>1, <1>2, CommitFacts
<1>4. Account' = 0 /\ Solvent' = FALSE
  BY <1>1 DEF Account, Solvent
<1>5. Evm!Abort
  BY <1>1, <1>4 DEF Evm!Abort
<1>6. TypeOK'
  BY <1>1, <1>3, InvFacts DEF TypeOK
<1>7. QED
  BY <1>3, <1>5, <1>6 DEF Settled

(* The end of a block shows nothing, or that the program could not pay.    *)
LEMMA EndBlockStep ==
    ASSUME IInv, EndBlock, capCalls' = capCalls
    PROVE  /\ TypeOK' /\ Settled(meter)'
           /\ Evm!Reveal \/ UNCHANGED <<inst, Account, Solvent, report, status>>
<1> DEFINE n == Commit(meter)
<1>1. /\ status = "running" /\ inst = None /\ inst' = inst
      /\ \/ AbortWith(n)
         \/ /\ ~n.oog /\ meter' = n
            /\ UNCHANGED <<report, status>>
  BY DEF EndBlock
<1>2. meter \in Meters /\ Settled(meter)
  BY InvFacts
<1>3. /\ n \in Meters /\ Settled(n) /\ ~n.open /\ n.cost = 0 /\ n.charged = 0
      /\ n.oog <=> Net(meter) < 0
      /\ ~n.oog => n.gas = Net(meter)
  BY <1>2, CommitFacts
<1>4. Net(meter) \in Int /\ n.gas \in 0..MaxGas
  BY <1>2, <1>3, MeterFacts
<1> HIDE DEF n
<1>5. CASE AbortWith(n)
  <2>1. n.oog
    BY <1>5 DEF AbortWith
  <2>2. TypeOK' /\ Settled(meter)' /\ Evm!Abort
    BY <1>1, <1>3, <1>5, AbortStep
  <2>3. ~Solvent
    BY <1>3, <1>4, <2>1 DEF Solvent
  <2>4. Evm!Reveal
    BY <1>1, <2>2, <2>3 DEF Evm!Reveal
  <2>5. QED
    BY <2>2, <2>4
<1>6. CASE ~n.oog /\ meter' = n /\ UNCHANGED <<report, status>>
  <2>1. Net(meter') = Net(meter) /\ Net(meter) >= 0
    BY <1>3, <1>4, <1>6 DEF Net
  <2>2. Account' = Account /\ Solvent' = Solvent
    BY <1>6, <2>1 DEF Account, Solvent, Net
  <2>3. TypeOK'
    BY <1>1, <1>3, <1>6, InvFacts DEF TypeOK, IInv
  <2>4. QED
    BY <1>1, <1>3, <1>6, <2>2, <2>3 DEF Settled
<1>7. QED
  BY <1>1, <1>5, <1>6

-----------------------------------------------------------------------------
(* Calls.                                                                  *)

LEMMA KeptFacts ==
    ASSUME NEW g \in Nat
    PROVE  Kept(g) \in Nat /\ Kept(g) <= g
<1>1. g \div KeepDiv \in Nat /\ g \div KeepDiv <= g
  BY ConstantFacts
<1>2. QED
  BY <1>1 DEF Kept

(* The flag of a failed call takes no bit from the gas it gives back.      *)
LEMMA EncodingFacts ==
    ASSUME NEW back \in 0..MaxGas, NEW success \in BOOLEAN
    PROVE  Decoded(Encoded(back, success)) = back
  BY ConstantFacts DEF Decoded, Encoded

LEMMA TruncFacts ==
    ASSUME NEW v \in 0..MaxGas
    PROVE  Trunc(v) = v
<1>1. v \in Nat /\ 2 * Flag \in Nat /\ v < 2 * Flag
  BY ConstantFacts
<1>2. QED
  BY <1>1 DEF Trunc

LEMMA AskedFacts ==
    ASSUME NEW g \in Nat, NEW ask \in Nat
    PROVE  Asked(g, ask) \in Nat
  BY KeptFacts DEF Asked

LEMMA CreateStep ==
    ASSUME IInv, Create, capCalls' = capCalls
    PROVE  TypeOK' /\ Settled(meter)' /\ Evm!Create
<1> DEFINE m1 == Count(meter, CallCost)
<1> DEFINE m2 == CountValue(m1, inst.c1)
<1> DEFINE n == Commit(m2)
<1> DEFINE gas == n.gas - Kept(n.gas)
<1>1. /\ inst.op = "create" /\ inst' = None
      /\ \/ AbortWith(n)
         \/ /\ ~n.oog /\ report' = gas
            /\ \E back \in 0..gas, success \in BOOLEAN :
                 meter' = [n EXCEPT !.gas = Decoded(Encoded(back, success))
                                            + Kept(n.gas)]
            /\ UNCHANGED status
  BY DEF Create
<1>2. /\ inst \in Instructions /\ status = "running" /\ meter \in Meters
      /\ inst.c1 \in Nat /\ CallCost \in Nat /\ CallCost > 0
      /\ CostOf(inst) = CallCost + inst.c1 /\ CostOf(inst) \in Nat
  BY <1>1, InvFacts, InstructionFacts, CostFacts, ConstantFacts
<1>3. m1 \in Meters /\ Settled(m1) /\ Pays(meter, m1, CallCost)
  BY <1>2, CountFacts
<1> HIDE DEF m1
<1>4. m2 \in Meters /\ Settled(m2) /\ Pays(m1, m2, Clamp(inst.c1))
  BY <1>2, <1>3, CountValueFacts
<1> HIDE DEF m2
<1>5. Net(m1) < MaxGas
  BY <1>2, <1>3, PaysKeepsBelow
<1>6. Pays(m1, m2, inst.c1)
  BY <1>2, <1>3, <1>4, <1>5, PaysReal
<1>7. Pays(meter, m2, CostOf(inst))
  BY <1>2, <1>3, <1>4, <1>6, PaysTwice
<1>8. /\ n \in Meters /\ Settled(n) /\ ~n.open /\ n.cost = 0 /\ n.charged = 0
      /\ n.oog <=> Net(m2) < 0
      /\ ~n.oog => n.gas = Net(m2)
  BY <1>4, CommitFacts
<1> HIDE DEF n
<1>9. /\ Solvent /\ Account >= CostOf(inst) <=> Net(m2) >= 0
      /\ Net(m2) >= 0 => Net(m2) = Account - CostOf(inst)
  BY <1>2, <1>4, <1>7, AffordFacts
<1>10. n.gas \in 0..MaxGas /\ Net(m2) \in Int
  BY <1>4, <1>8, MeterFacts
<1>11. CASE AbortWith(n)
  <2>1. n.oog
    BY <1>11 DEF AbortWith
  <2>2. TypeOK' /\ Settled(meter)' /\ Evm!Abort
    BY <1>1, <1>8, <1>11, AbortStep
  <2>3. ~Evm!Affordable
    BY <1>8, <1>9, <1>10, <2>1 DEF Evm!Affordable
  <2>4. QED
    BY <2>2, <2>3 DEF Evm!Create
<1>12. ASSUME ~n.oog, report' = gas, status' = status,
              NEW back \in 0..gas, NEW success \in BOOLEAN,
              meter' = [n EXCEPT !.gas = Decoded(Encoded(back, success))
                                         + Kept(n.gas)]
       PROVE  TypeOK' /\ Settled(meter)' /\ Evm!Create
  <2>1. Net(m2) >= 0
    BY <1>8, <1>10, <1>12
  <2>2. Evm!Affordable /\ Evm!Left = n.gas /\ Solvent = TRUE
    BY <1>8, <1>9, <1>12, <2>1 DEF Evm!Affordable, Evm!Left, Solvent
  <2>3. Kept(n.gas) \in Nat /\ Kept(n.gas) <= n.gas /\ n.gas \in Nat
    BY <1>10, KeptFacts, ConstantFacts
  <2>4. gas \in 0..MaxGas /\ back \in 0..MaxGas
    BY <1>10, <2>3, ConstantFacts
  <2>5. Decoded(Encoded(back, success)) = back
    BY <2>4, EncodingFacts
  <2>6. back + Kept(n.gas) \in 0..MaxGas
    BY <1>10, <1>12, <2>3, ConstantFacts
  <2>7. /\ meter' \in Meters /\ ~meter'.oog /\ meter'.cost = 0
        /\ meter'.charged = 0 /\ ~meter'.open
        /\ meter'.gas = Kept(n.gas) + back
    BY <1>8, <1>12, <2>3, <2>5, <2>6 DEF Meters
  <2>8. Net(meter') = Kept(n.gas) + back
    BY <2>3, <2>6, <2>7 DEF Net
  <2>9. Solvent' = TRUE /\ Account' = Kept(n.gas) + back
    BY <1>2, <1>12, <2>3, <2>8 DEF Solvent, Account, Net
  <2>10. Evm!Kept(n.gas) = Kept(n.gas)
    BY DEF Evm!Kept, Kept
  <2>11. Evm!Create
    <3>1. report' = Evm!Left - Evm!Kept(Evm!Left)
      BY <1>12, <2>2, <2>10
    <3>2. back \in 0..report' /\ Account' = Evm!Kept(Evm!Left) + back
      BY <1>12, <2>2, <2>9, <2>10
    <3>3. QED
      BY <1>12, <2>2, <2>9, <3>1, <3>2 DEF Evm!Create
  <2>12. TypeOK'
    BY <1>1, <1>12, <2>4, <2>7, InvFacts DEF TypeOK, IInv
  <2>13. QED
    BY <2>7, <2>11, <2>12 DEF Settled
<1>13. QED
  BY <1>1, <1>11, <1>12

(* Before it calls, the program has paid for all that it does not pass on. *)
LEMMA BeforeCallFacts ==
    ASSUME IInv, inst.op = "call"
    PROVE  /\ BeforeCall(inst) \in Meters /\ Settled(BeforeCall(inst))
           /\ ~BeforeCall(inst).open /\ Net(BeforeCall(inst)) < MaxGas
           /\ inst.transfer # "forbidden" =>
                Pays(meter, BeforeCall(inst), CostOf(inst))
           /\ inst.transfer = "forbidden" => Net(BeforeCall(inst)) < 0
<1> DEFINE account == IF inst.account THEN NewAccountGas ELSE 0
<1> DEFINE m0 == Count(meter, CallCost)
<1> DEFINE m1 == Commit(m0)
<1> DEFINE m2 == CountValue(m1, inst.c1)
<1> DEFINE m3 == CountValue(m2, inst.c2)
<1> DEFINE m4 == CountValue(m3, TransferCost(inst))
<1> DEFINE m5 == CountValue(m4, account)
<1>1. BeforeCall(inst) = m5
  BY DEF BeforeCall
<1>2. /\ inst \in Instructions /\ meter \in Meters
      /\ inst.c1 \in Nat /\ inst.c2 \in Nat
      /\ inst.transfer \in {"none", "value", "forbidden"}
      /\ CallCost \in Nat /\ CallCost > 0 /\ MaxGas \in Nat
  BY InvFacts, InstructionFacts, ConstantFacts
<1>3. account \in Nat /\ TransferCost(inst) \in Nat
  BY <1>2, ConstantFacts DEF TransferCost
<1>4. CostOf(inst) = CallCost + inst.c1 + inst.c2
                     + (IF inst.transfer = "none" THEN 0 ELSE TransferGas)
                     + account
  BY <1>2, CostFacts
<1> HIDE DEF account
<1>5. m0 \in Meters /\ Settled(m0) /\ Pays(meter, m0, CallCost)
  BY <1>2, CountFacts
<1> HIDE DEF m0
<1>6. m1 \in Meters /\ Settled(m1) /\ ~m1.open /\ Pays(m0, m1, 0)
  BY <1>5, CommitFacts
<1> HIDE DEF m1
<1>7. Pays(meter, m1, CallCost)
  <2>1. Pays(meter, m1, CallCost + 0)
    BY <1>2, <1>5, <1>6, PaysTwice
  <2>2. QED
    BY <1>2, <2>1
<1>8. Net(m1) < MaxGas
  BY <1>2, <1>6, <1>7, PaysKeepsBelow
<1>9. m2 \in Meters /\ Settled(m2) /\ ~m2.open /\ Pays(m1, m2, Clamp(inst.c1))
  BY <1>2, <1>6, CountValueFacts
<1> HIDE DEF m2
<1>10. Pays(m1, m2, inst.c1)
  BY <1>2, <1>6, <1>8, <1>9, PaysReal
<1>11. Net(m2) < MaxGas
  BY <1>2, <1>6, <1>8, <1>9, <1>10, PaysKeepsBelow
<1>12. m3 \in Meters /\ Settled(m3) /\ ~m3.open /\ Pays(m2, m3, Clamp(inst.c2))
  BY <1>2, <1>9, CountValueFacts
<1> HIDE DEF m3
<1>13. Pays(m2, m3, inst.c2)
  BY <1>2, <1>9, <1>11, <1>12, PaysReal
<1>14. Net(m3) < MaxGas
  BY <1>2, <1>9, <1>11, <1>12, <1>13, PaysKeepsBelow
<1>15. /\ m4 \in Meters /\ Settled(m4) /\ ~m4.open
       /\ Pays(m3, m4, Clamp(TransferCost(inst)))
  BY <1>3, <1>12, CountValueFacts
<1> HIDE DEF m4
<1>16. Pays(m3, m4, TransferCost(inst))
  BY <1>3, <1>12, <1>14, <1>15, PaysReal
<1>17. Net(m4) < MaxGas
  BY <1>3, <1>12, <1>14, <1>15, <1>16, PaysKeepsBelow
<1>18. m5 \in Meters /\ Settled(m5) /\ ~m5.open /\ Pays(m4, m5, Clamp(account))
  BY <1>3, <1>15, CountValueFacts
<1> HIDE DEF m5
<1>19. Pays(m4, m5, account)
  BY <1>3, <1>15, <1>17, <1>18, PaysReal
<1>20. Net(m5) < MaxGas
  BY <1>3, <1>15, <1>17, <1>18, <1>19, PaysKeepsBelow
<1>21. inst.transfer # "forbidden" => Pays(meter, m5, CostOf(inst))
  <2> SUFFICES ASSUME inst.transfer # "forbidden"
               PROVE  Pays(meter, m5, CostOf(inst))
    OBVIOUS
  <2> DEFINE c1 == CallCost + inst.c1
  <2> DEFINE c2 == c1 + inst.c2
  <2> DEFINE c3 == c2 + TransferCost(inst)
  <2>1. c1 \in Nat /\ c2 \in Nat /\ c3 \in Nat
    BY <1>2, <1>3
  <2>2. CostOf(inst) = c3 + account
    <3>1. TransferCost(inst) = IF inst.transfer = "none" THEN 0 ELSE TransferGas
      BY <1>2 DEF TransferCost
    <3>2. QED
      BY <1>4, <3>1
  <2>3. Pays(meter, m2, c1)
    BY <1>2, <1>6, <1>7, <1>9, <1>10, PaysTwice
  <2> HIDE DEF c1
  <2>4. Pays(meter, m3, c2)
    BY <1>2, <1>9, <1>12, <1>13, <2>1, <2>3, PaysTwice
  <2> HIDE DEF c2
  <2>5. Pays(meter, m4, c3)
    BY <1>2, <1>3, <1>12, <1>15, <1>16, <2>1, <2>4, PaysTwice
  <2> HIDE DEF c3
  <2>6. Pays(meter, m5, c3 + account)
    BY <1>2, <1>3, <1>15, <1>18, <1>19, <2>1, <2>5, PaysTwice
  <2>7. QED
    BY <2>2, <2>6
<1>22. inst.transfer = "forbidden" => Net(m5) < 0
  <2> SUFFICES ASSUME inst.transfer = "forbidden" PROVE Net(m5) < 0
    OBVIOUS
  <2>1. TransferCost(inst) = MaxGas
    BY DEF TransferCost
  <2>2. Pays(m3, m4, MaxGas) /\ Net(m3) \in Int /\ Net(m4) \in Int
    BY <1>12, <1>15, <1>16, <2>1, MeterFacts
  <2>3. Net(m4) < 0
    BY <1>2, <1>14, <2>2 DEF Pays
  <2>4. QED
    BY <1>3, <1>19, <2>2, <2>3 DEF Pays
<1>23. QED
  BY <1>1, <1>18, <1>20, <1>21, <1>22

LEMMA CallStep ==
    ASSUME IInv, Call, capCalls' = capCalls
    PROVE  TypeOK' /\ Settled(meter)' /\ Evm!Call
<1> DEFINE m == BeforeCall(inst)
<1> DEFINE asked == Asked(m.gas, inst.ask)
<1> DEFINE sent == CountValue(m, asked)
<1> DEFINE stipend == IF inst.transfer = "none" THEN 0 ELSE CallStipend
<1> DEFINE gas == Trunc(asked) + stipend
<1>1. /\ inst.op = "call" /\ inst' = None
      /\ \/ AbortWith(sent)
         \/ /\ ~sent.oog /\ report' = gas
            /\ \E back \in 0..gas, success \in BOOLEAN :
                 meter' = GiveBack(sent, Decoded(Encoded(back, success)))
            /\ UNCHANGED status
  BY DEF Call
<1>2. /\ inst \in Instructions /\ status = "running" /\ meter \in Meters
      /\ inst.ask \in Nat
      /\ inst.transfer \in {"none", "value", "forbidden"}
      /\ CostOf(inst) \in Nat /\ MaxGas \in Nat
      /\ CallStipend \in Nat /\ CallStipend <= TransferGas /\ TransferGas \in Nat
  BY <1>1, InvFacts, InstructionFacts, CostFacts, ConstantFacts
<1>3. /\ m \in Meters /\ Settled(m) /\ ~m.open /\ Net(m) < MaxGas
      /\ inst.transfer # "forbidden" => Pays(meter, m, CostOf(inst))
      /\ inst.transfer = "forbidden" => Net(m) < 0
  BY <1>1, BeforeCallFacts
<1> HIDE DEF m
<1>4. /\ m.gas \in Nat /\ m.gas <= MaxGas /\ Net(m) \in Int
      /\ m.cost = 0 /\ m.charged = 0
      /\ Net(m) = IF m.oog THEN -1 ELSE m.gas
  BY <1>2, <1>3, MeterFacts DEF Settled
<1>5. asked \in Nat
  BY <1>2, <1>4, AskedFacts
<1>6. /\ Evm!Sent(m.gas, inst.ask) = asked
  BY DEF Evm!Sent, Evm!Kept, Asked, Kept
<1> HIDE DEF asked
<1>7. /\ sent \in Meters /\ Settled(sent) /\ ~sent.open
      /\ Pays(m, sent, Clamp(asked))
  BY <1>3, <1>5, CountValueFacts
<1> HIDE DEF sent
<1>8. Pays(m, sent, asked)
  BY <1>3, <1>5, <1>7, PaysReal
<1>9. /\ sent.gas \in Nat /\ sent.gas <= MaxGas
      /\ sent.cost = 0 /\ sent.charged = 0
      /\ Net(sent) = IF sent.oog THEN -1 ELSE sent.gas
  BY <1>2, <1>7, MeterFacts DEF Settled
<1>10. inst.transfer # "forbidden" =>
         /\ Solvent /\ Account >= CostOf(inst) <=> Net(m) >= 0
         /\ Net(m) >= 0 => Net(m) = Account - CostOf(inst)
  BY <1>2, <1>3, AffordFacts
<1>11. CASE AbortWith(sent)
  <2>1. sent.oog
    BY <1>11 DEF AbortWith
  <2>2. TypeOK' /\ Settled(meter)' /\ Evm!Abort
    BY <1>1, <1>7, <1>11, AbortStep
  <2>3. Net(m) < asked
    BY <1>4, <1>5, <1>8, <1>9, <2>1 DEF Pays
  <2>4. ~(Evm!Affordable /\ Evm!Sent(Evm!Left, inst.ask) <= Evm!Left
          /\ inst.transfer # "forbidden")
    <3>1. SUFFICES ASSUME Evm!Affordable, inst.transfer # "forbidden"
                   PROVE  ~(Evm!Sent(Evm!Left, inst.ask) <= Evm!Left)
      OBVIOUS
    <3>2. Net(m) >= 0 /\ Net(m) = Evm!Left
      BY <1>10, <3>1 DEF Evm!Affordable, Evm!Left
    <3>3. Evm!Left = m.gas
      BY <1>4, <3>2
    <3>4. QED
      BY <1>4, <1>5, <1>6, <2>3, <3>2, <3>3
  <2>5. QED
    BY <2>2, <2>4 DEF Evm!Call
<1>12. ASSUME ~sent.oog, report' = gas, status' = status,
              NEW back \in 0..gas, NEW success \in BOOLEAN,
              meter' = GiveBack(sent, Decoded(Encoded(back, success)))
       PROVE  TypeOK' /\ Settled(meter)' /\ Evm!Call
  <2>1. Net(m) >= asked /\ sent.gas = m.gas - asked /\ Net(m) = m.gas
    BY <1>4, <1>5, <1>8, <1>9, <1>12 DEF Pays
  <2>2. inst.transfer # "forbidden"
    BY <1>3, <1>4, <1>5, <2>1
  <2>3. /\ Solvent /\ Account >= CostOf(inst)
        /\ m.gas = Account - CostOf(inst)
    BY <1>4, <1>5, <1>10, <2>1, <2>2
  <2>4. Account \in Nat /\ Account <= MaxGas
    BY <1>2, MeterFacts DEF Account, Solvent
  <2>5. asked \in 0..MaxGas /\ Trunc(asked) = asked
    <3>1. asked \in 0..MaxGas
      BY <1>2, <1>4, <1>5, <2>1
    <3>2. QED
      BY <3>1, TruncFacts
  <2>6. /\ stipend \in Nat
        /\ stipend = IF inst.transfer = "value" THEN CallStipend ELSE 0
    BY <1>2, <2>2
  <2>7. m.gas + stipend <= MaxGas
    <3>1. CASE inst.transfer = "none"
      BY <1>4, <3>1
    <3>2. CASE inst.transfer = "value"
      <4>1. CostOf(inst) >= TransferGas
        <5>1. /\ inst.c1 \in Nat /\ inst.c2 \in Nat /\ CallCost \in Nat
              /\ inst.account \in BOOLEAN /\ NewAccountGas \in Nat
          BY <1>1, <1>2, InstructionFacts, ConstantFacts
        <5>2. CostOf(inst) = CallCost + inst.c1 + inst.c2 + TransferGas
                             + (IF inst.account THEN NewAccountGas ELSE 0)
          BY <1>1, <1>2, <3>2, CostFacts
        <5>3. QED
          BY <1>2, <5>1, <5>2
      <4>2. QED
        BY <1>2, <2>3, <2>4, <3>2, <4>1
    <3>3. QED
      BY <1>2, <2>2, <3>1, <3>2
  <2> HIDE DEF stipend
  <2>8. gas = asked + stipend /\ gas \in 0..MaxGas
    <3>1. gas = asked + stipend
      BY <2>5
    <3>2. asked <= m.gas
      BY <2>1
    <3>3. QED
      BY <1>2, <1>4, <1>5, <2>6, <2>7, <3>1, <3>2
  <2> HIDE DEF gas
  <2>9. back \in Nat /\ back <= gas /\ back \in 0..MaxGas
    BY <1>2, <1>12, <2>8
  <2>10. Decoded(Encoded(back, success)) = back
    BY <2>9, EncodingFacts
  <2>11. sent.gas + back \in 0..MaxGas
    <3>1. sent.gas + back <= m.gas + stipend
      BY <1>4, <1>5, <2>1, <2>6, <2>8, <2>9
    <3>2. sent.gas + back \in Nat
      BY <1>9, <2>9
    <3>3. QED
      BY <1>2, <1>4, <2>6, <2>7, <3>1, <3>2
  <2>12. /\ meter' \in Meters /\ ~meter'.oog /\ meter'.cost = 0
         /\ meter'.charged = 0 /\ ~meter'.open
         /\ meter'.gas = sent.gas + back
    <3>1. meter' = [sent EXCEPT !.gas = sent.gas + back]
      BY <1>7, <1>12, <2>10 DEF GiveBack, Meters
    <3>2. QED
      BY <1>7, <1>9, <1>12, <2>11, <3>1 DEF Meters
  <2>13. Net(meter') = sent.gas + back
    BY <1>9, <2>9, <2>12 DEF Net
  <2>14. Solvent' = TRUE /\ Account' = sent.gas + back
    BY <1>2, <1>9, <1>12, <2>9, <2>13 DEF Solvent, Account, Net
  <2>15. Evm!Affordable /\ Evm!Left = m.gas /\ Solvent = TRUE
    BY <2>3 DEF Evm!Affordable, Evm!Left, Solvent
  <2>16. Evm!Call
    <3>1. Evm!Sent(Evm!Left, inst.ask) = asked /\ asked <= Evm!Left
      BY <1>6, <2>1, <2>15
    <3>2. report' = asked + (IF inst.transfer = "value" THEN CallStipend ELSE 0)
      BY <1>12, <2>6, <2>8
    <3>3. back \in 0..report' /\ Account' = Evm!Left - asked + back
      BY <1>12, <2>1, <2>14, <2>15
    <3>4. QED
      BY <1>12, <2>2, <2>14, <2>15, <3>1, <3>2, <3>3 DEF Evm!Call
  <2>17. TypeOK'
    BY <1>1, <1>12, <2>8, <2>12, InvFacts DEF TypeOK, IInv
  <2>18. QED
    BY <2>12, <2>16, <2>17 DEF Settled
<1>13. QED
  BY <1>1, <1>11, <1>12

LEMMA FetchStep ==
    ASSUME IInv, Fetch, capCalls' = capCalls
    PROVE  IInv' /\ Evm!Fetch
<1>1. /\ status = "running" /\ inst = None
      /\ report' = 0 /\ meter' = meter /\ status' = status
  BY DEF Fetch
<1>2. PICK i \in Instructions : Possible(i) /\ inst' = i
  BY DEF Fetch
<1>3. Possible(inst')
  BY <1>2
<1>4. Fetched'
  BY <1>1, <1>2 DEF Fetched, Possible, Payable
<1>5. TypeOK' /\ Settled(meter)'
  BY <1>1, <1>2, InvFacts, ConstantFacts DEF TypeOK, Settled
<1>6. Account' = Account /\ Solvent' = Solvent
  BY <1>1 DEF Account, Solvent, Net
<1>7. Evm!Fetch
  BY <1>1, <1>2, <1>6 DEF Evm!Fetch
<1>8. QED
  BY <1>4, <1>5, <1>7 DEF IInv

-----------------------------------------------------------------------------
(* The theorems.                                                           *)

LEMMA InitInvariant == Init => IInv /\ Evm!Init
<1> SUFFICES ASSUME Init PROVE IInv /\ Evm!Init
  OBVIOUS
<1>1. PICK g \in 0..MaxGas :
        meter = [open |-> FALSE, cost |-> 0, charged |-> 0, gas |-> g,
                 oog |-> FALSE]
  BY DEF Init
<1>2. /\ inst = None /\ capCalls \in BOOLEAN /\ report = 0
      /\ status = "running"
  BY DEF Init
<1>3. meter \in Meters
  BY <1>1, ConstantFacts DEF Meters
<1>4. Settled(meter) /\ Net(meter) = g /\ g \in Nat
  BY <1>1, ConstantFacts DEF Settled, Net
<1>5. IInv
  BY <1>2, <1>3, <1>4, ConstantFacts DEF IInv, TypeOK, Fetched
<1>6. Account = g /\ Solvent = TRUE
  BY <1>2, <1>4, ConstantFacts DEF Account, Solvent
<1>7. Evm!Init
  BY <1>2, <1>6 DEF Evm!Init
<1>8. QED
  BY <1>5, <1>7

(* Every step keeps the invariant, and is one of the abstract meter or     *)
(* invisible to it.                                                        *)
LEMMA NextRefines == IInv /\ [Next]_vars => IInv' /\ [Evm!Next]_(Evm!vars)
<1> SUFFICES ASSUME IInv, [Next]_vars PROVE IInv' /\ [Evm!Next]_(Evm!vars)
  OBVIOUS
<1>1. CASE UNCHANGED vars
  <2>1. UNCHANGED <<inst, capCalls, meter, report, status>>
    BY <1>1 DEF vars
  <2>2. IInv'
    BY <2>1 DEF IInv, TypeOK, Settled, Fetched, Possible, Payable
  <2>3. Account' = Account /\ Solvent' = Solvent
    BY <2>1 DEF Account, Solvent, Net
  <2>4. QED
    BY <2>1, <2>2, <2>3 DEF Evm!vars
<1>2. CASE Next
  <2>1. capCalls' = capCalls
    BY <1>2 DEF Next
  <2>2. CASE Fetch
    BY <2>1, <2>2, FetchStep DEF Evm!Next
  <2>3. ASSUME TypeOK', Settled(meter)', inst' = None PROVE IInv'
    BY <2>3 DEF IInv, Fetched
  <2>4. CASE Plain
    <3>1. inst.op \in {"plain", "log"} /\ inst' = None
      BY <2>4 DEF Plain
    <3>2. TypeOK' /\ Settled(meter)' /\ Evm!Plain
      BY <2>1, <2>4, PlainStep
    <3>3. QED
      BY <2>1, <2>3, <3>1, <3>2 DEF Evm!Next, Evm!Execute
  <2>5. CASE ReadGas
    <3>1. inst.op = "gas" /\ inst' = None
      BY <2>5 DEF ReadGas
    <3>2. TypeOK' /\ Settled(meter)' /\ Evm!Show("running")
      BY <2>1, <2>5, ReadGasStep
    <3>3. QED
      BY <2>1, <2>3, <3>1, <3>2 DEF Evm!Next, Evm!Execute
  <2>6. CASE EndBlock
    <3>1. inst = None /\ inst' = inst
      BY <2>6 DEF EndBlock
    <3>2. /\ TypeOK' /\ Settled(meter)'
          /\ Evm!Reveal \/ UNCHANGED <<inst, Account, Solvent, report, status>>
      BY <2>1, <2>6, EndBlockStep
    <3>3. QED
      BY <2>1, <2>3, <3>1, <3>2 DEF Evm!Next, Evm!vars
  <2>7. CASE Stop
    <3>1. inst.op = "stop" /\ inst' = None
      BY <2>7 DEF Stop
    <3>2. TypeOK' /\ Settled(meter)' /\ Evm!Show("stopped")
      BY <2>1, <2>7, StopStep
    <3>3. QED
      BY <2>1, <2>3, <3>1, <3>2 DEF Evm!Next, Evm!Execute
  <2>8. CASE Invalid
    <3>1. inst.op = "invalid" /\ inst' = None
      BY <2>8 DEF Invalid
    <3>2. TypeOK' /\ Settled(meter)' /\ Evm!Abort
      BY <2>1, <2>8, InvalidStep
    <3>3. QED
      BY <2>1, <2>3, <3>1, <3>2 DEF Evm!Next, Evm!Execute
  <2>9. CASE Call
    <3>1. inst.op = "call" /\ inst' = None
      BY <2>9 DEF Call
    <3>2. TypeOK' /\ Settled(meter)' /\ Evm!Call
      BY <2>1, <2>9, CallStep
    <3>3. QED
      BY <2>1, <2>3, <3>1, <3>2 DEF Evm!Next, Evm!Execute
  <2>10. CASE Create
    <3>1. inst.op = "create" /\ inst' = None
      BY <2>10 DEF Create
    <3>2. TypeOK' /\ Settled(meter)' /\ Evm!Create
      BY <2>1, <2>10, CreateStep
    <3>3. QED
      BY <2>1, <2>3, <3>1, <3>2 DEF Evm!Next, Evm!Execute
  <2>11. QED
    BY <1>2, <2>2, <2>4, <2>5, <2>6, <2>7, <2>8, <2>9, <2>10 DEF Next
<1>3. QED
  BY <1>1, <1>2

LEMMA InvariantHolds == Spec => []IInv
  BY InitInvariant, NextRefines, PTL DEF Spec

(* The gas in a meter and the gas that it shows never leave the range of a *)
(* signed 64-bit number, whatever costs, gas operands and answers of       *)
(* callees of up to 256 bits come in (GasMeter.cpp:56-79, 129-152;         *)
(* Compiler.cpp:793, 831).                                                 *)
THEOREM TypeCorrect == Spec => []TypeOK
<1>1. IInv => TypeOK
  BY DEF IInv
<1>2. QED
  BY <1>1, InvariantHolds, PTL

(* Paying for a cost block in advance shows nobody another amount of gas   *)
(* than paying for one instruction at a time: the compiled meter           *)
(* implements the abstract one (GasMeter.cpp, Compiler.cpp).               *)
THEOREM GasRefinement == Spec => ImplementsEvmGas
<1>1. Spec => Evm!Spec
  BY InitInvariant, NextRefines, InvariantHolds, PTL DEF Spec, Evm!Spec
<1>2. QED
  BY <1>1 DEF ImplementsEvmGas

(* No instruction, no call with a stipend and no failed call leaves the    *)
(* program with more gas than it had (GasMeter.cpp:129-152,                *)
(* Compiler.cpp:793, 831).                                                 *)
THEOREM NoGasIsCreated == Spec => GasNeverCreated
<1>1. IInv /\ IInv' /\ [Evm!Next]_(Evm!vars) => Account' <= Account
  <2> SUFFICES ASSUME IInv, IInv', [Evm!Next]_(Evm!vars)
               PROVE  Account' <= Account
    OBVIOUS
  <2>1. Account \in Nat
    BY InvFacts, MeterFacts DEF Account, Solvent
  <2>2. CASE Evm!Fetch \/ UNCHANGED Evm!vars
    BY <2>1, <2>2 DEF Evm!Fetch, Evm!vars
  <2>3. CASE Evm!Abort
    BY <2>1, <2>3 DEF Evm!Abort
  <2>4. CASE Evm!Execute
    <3>1. inst \in Instructions
      BY <2>4, InvFacts, NoneFacts DEF Evm!Execute
    <3>2. CostOf(inst) \in Nat
      BY <3>1, CostFacts
    <3>3. CASE Evm!Plain
      BY <2>1, <3>2, <3>3 DEF Evm!Plain, Evm!Affordable, Evm!Left
    <3>4. CASE Evm!Show("running") \/ Evm!Show("stopped")
      BY <2>1, <2>3, <3>2, <3>4 DEF Evm!Show, Evm!Left
    <3>5. CASE inst.op = "create" /\ Evm!Create
      <4> SUFFICES ASSUME ~Evm!Abort PROVE Account' <= Account
        BY <2>3
      <4>1. Evm!Left \in Nat /\ Evm!Left <= Account
        BY <2>1, <3>2, <3>5 DEF Evm!Create, Evm!Affordable, Evm!Left
      <4>2. PICK back \in 0..(Evm!Left - Evm!Kept(Evm!Left)) :
              Account' = Evm!Kept(Evm!Left) + back
        BY <3>5 DEF Evm!Create
      <4>3. Evm!Kept(Evm!Left) = Kept(Evm!Left)
        BY DEF Evm!Kept, Kept
      <4>4. Kept(Evm!Left) \in Nat
        BY <4>1, KeptFacts
      <4>5. QED
        BY <2>1, <4>1, <4>2, <4>3, <4>4
    <3>6. CASE inst.op = "call" /\ Evm!Call
      <4> SUFFICES ASSUME ~Evm!Abort PROVE Account' <= Account
        BY <2>3
      <4> DEFINE sent == Evm!Sent(Evm!Left, inst.ask)
      <4> DEFINE stipend == IF inst.transfer = "value" THEN CallStipend ELSE 0
      <4>1. Evm!Affordable
        BY <3>6 DEF Evm!Call
      <4>2. PICK back \in 0..(sent + stipend) : Account' = Evm!Left - sent + back
        BY <3>6 DEF Evm!Call
      <4>3. /\ inst.transfer \in {"none", "value", "forbidden"}
            /\ inst.ask \in Nat /\ CallStipend \in Nat
            /\ CallStipend <= TransferGas /\ TransferGas \in Nat
        BY <3>1, <3>6, InstructionFacts, ConstantFacts
      <4>4. Evm!Left \in Nat /\ Evm!Left = Account - CostOf(inst)
        BY <2>1, <3>2, <4>1 DEF Evm!Affordable, Evm!Left
      <4>5. sent \in Nat
        <5>1. sent = Asked(Evm!Left, inst.ask)
          BY DEF Evm!Sent, Evm!Kept, Asked, Kept
        <5>2. QED
          BY <4>3, <4>4, <5>1, AskedFacts
      <4>6. stipend \in Nat /\ stipend <= CostOf(inst)
        <5>1. /\ inst.c1 \in Nat /\ inst.c2 \in Nat /\ CallCost \in Nat
              /\ inst.account \in BOOLEAN /\ NewAccountGas \in Nat
          BY <3>1, <3>6, InstructionFacts, ConstantFacts
        <5>2. CostOf(inst) = CallCost + inst.c1 + inst.c2
                             + (IF inst.transfer = "none" THEN 0 ELSE TransferGas)
                             + (IF inst.account THEN NewAccountGas ELSE 0)
          BY <3>1, <3>6, CostFacts
        <5>3. QED
          BY <4>3, <5>1, <5>2
      <4> HIDE DEF sent, stipend
      <4>7. QED
        BY <2>1, <3>2, <4>2, <4>4, <4>5, <4>6
    <3>7. QED
      BY <2>3, <2>4, <3>3, <3>4, <3>5, <3>6 DEF Evm!Execute
  <2>5. QED
    BY <2>2, <2>3, <2>4 DEF Evm!Next, Evm!Reveal
<1>2. IInv /\ IInv' /\ [Next]_vars => [Account' <= Account]_vars
  BY <1>1, NextRefines
<1>3. QED
  BY <1>2, InvariantHolds, PTL DEF Spec, GasNeverCreated
=============================================================================
