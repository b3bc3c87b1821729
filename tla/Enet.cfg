SPECIFICATION Spec
CONSTANTS
  TwoContexts = FALSE
  RxN = 2
  MaxRx = 4
  TxN = 2
  MaxTx = 3
INVARIANTS RxInv NoneStranded TxInv
PROPERTIES AlwaysRefilled EventuallySent
CHECK_DEADLOCK FALSE
