CONSTANTS
    it1 = it1
    en1 = en1
    en2 = en2
    naruto = naruto
    bleach = bleach
    None = None
    Uploads <- MCUploads
    Series <- MCSeries
    SeriesOf <- MCSeriesOf
    NumberOf <- MCNumberOf
    LanguageOf <- MCLanguageOf
    Alphabet <- MCAlphabet
    ItalianPriority = TRUE
    Crons = {cron}
    Requests = {ask}
    Priorities <- MCPriorities
    Counts = {0, 1}
    Deletable = {}
    QueueSize = 1
    MaxFaults = 1
SPECIFICATION Spec
INVARIANTS TypeOK LogsCountTasks
PROPERTIES SelectsBest BackfillsLatest
