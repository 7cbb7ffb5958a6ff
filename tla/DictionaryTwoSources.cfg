SPECIFICATION DictionarySpec
CONSTANTS
    t1 = t1
    t2 = t2
    w1 = w1
    w2 = w2
    w3 = w3
    m1 = m1
    m2 = m2
    v1 = v1
    v2 = v2
    wiktionary = wiktionary
    extract = extract
    entry = entry
    bank = bank
    us = us
    NoTime = NoTime
    NoEntry = NoEntry
    NoJob = NoJob
    Times = {t1, t2}
    FirstTimes = {t1}
    CalendarWorkers = {w1, w2}
    CalendarAttempts = 2
    MoveLimit = 1
    TokenLimit = 2
    FaultLimit = 1
    Tickers = {w1, w2, w3}
    PeriodLimit = 3
    Machines = {m1, m2}
    Videos = {v1, v2}
    HarvestAttempts = 1
    MaxWait = 2
    Horizon = 2
    Sources = {wiktionary, extract}
    Dumps <- ChangingDumps
    DictionaryBatch = 2
    DictionaryRuns = 3
    Exports <- LosingExports
    MaxTranslations = 1
    CorpusBatch = 2
    CorpusRuns = 4
INVARIANTS
    SameAsClean
CHECK_DEADLOCK FALSE
