SPECIFICATION FairSpec
CONSTANTS
    Worker = {w1, w2}
    None = None
    NoRow = NoRow
    AnyCurrency = AnyCurrency
    TxnId <- MCTxnId
    AccountId <- MCAccountId
    Account <- MCAccount
    RowOf <- MCRowOf
    LexRank <- MCLexRank
    Currency <- MCCurrency
    CurrencyOf <- MCCurrencyOf
    InitBalance <- MCInitBalance
    MaxBalance <- MCMaxBalance
    Request <- MCRequest
INVARIANTS
    NoOverdraft
    NoLostUpdate
    DoubleEntry
    OkMeansPosted
    BalanceIsLedgerSum
    NoCircularWait
PROPERTIES
    CallsReturn
    ImplementsTransfers
