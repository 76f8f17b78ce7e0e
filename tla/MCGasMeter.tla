----------------------------- MODULE MCGasMeter -----------------------------
(* Model-checking instance of GasMeter: gas of a few bits, and costs and   *)
(* operands below and above the greatest amount of gas.                    *)
EXTENDS GasMeter

MCStepCosts == {0, 2}
MCCharges == {0, 1, 3, MaxGas + 2}
MCAsks == {0, 2, 2 * MaxGas + 3}
=============================================================================
