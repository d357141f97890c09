SPECIFICATION Spec
CONSTANTS
    Friends = {f, g}
    Ports = {p, q}
    NoPort = NoPort
    Nobody = Nobody
    t = t
    Torrents = {t}
    Bonkers = Bonkers
    Garbled = Garbled
    NoQuery = NoQuery
    Queries <- SomeQueries
    Reuse = FALSE
    MaxHashless = 2
INVARIANTS
    TypeOK
    FirstReplyFits
    AnswersAreFresh
PROPERTIES
    AnswersSettle
