SPECIFICATION Spec
CONSTANTS
    Worker = {w1, w2}
    None = None
    NoRow = NoRow
    AnyCurrency = AnyCurrency
    TxnId <- MCTxnId
    AccountId <- MCSpelling
    Account <- MCAccount
    RowOf <- MCCollatedRowOf
    LexRank <- MCByteRank
    Currency <- MCCurrency
    CurrencyOf <- MCCurrencyOf
    InitBalance <- MCInitBalance
    MaxBalance <- MCMaxBalance
    Request <- MCMixedSpellings
INVARIANT
    NoCircularWait
