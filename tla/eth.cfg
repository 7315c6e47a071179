CONSTANTS
    TxThreads = {ptpd, tcpip}
    TxDescriptors = 2
    NoFrame = NoFrame
    OldFrame = OldFrame
SPECIFICATION EthTxSpec
INVARIANTS
    TxExclusive
