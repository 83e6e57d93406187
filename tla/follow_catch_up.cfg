CONSTANTS
    it1 = it1
    en1 = en1
    en2 = en2
    naruto = naruto
    bleach = bleach
    None = None
    Uploads <- MCUploads
    Series <- MCSeries
    SeriesOf <- MCSeriesOf
    NumberOf <- MCNumberOf
    LanguageOf <- MCLanguageOf
    Alphabet <- MCAlphabet
    ItalianPriority = TRUE
    Crons = {cron}
    Requests = {}
    Priorities <- MCPriorities
    Counts = {0}
    Deletable = {bleach}
    QueueSize = 1
    MaxFaults = 2
SPECIFICATION LiveSpec
INVARIANTS SweepsCheckAll
PROPERTIES FollowCatchesUp
