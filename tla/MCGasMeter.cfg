SPECIFICATION Spec
CONSTANTS
    MaxGas = 17
    KeepDiv = 4
    StepCosts <- MCStepCosts
    CallCost = 1
    LogGas = 1
    Charges <- MCCharges
    Asks <- MCAsks
    TransferGas = 3
    CallStipend = 2
    NewAccountGas = 1
    MaxOwed = 4
INVARIANT TypeOK
PROPERTIES GasNeverCreated ImplementsEvmGas
CHECK_DEADLOCK FALSE
