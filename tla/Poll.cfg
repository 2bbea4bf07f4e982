CONSTANTS
    t1 = t1
    t2 = t2
    a1 = a1
    a2 = a2
    main = main
    prod = prod
    oldTags = oldTags
    newTags = newTags
    other = other
    mainFeed = mainFeed
    prodFeed = prodFeed
    tagsFeed = tagsFeed
    e1 = e1
    e2 = e2
    NoRef = NoRef
    NoFeed = NoFeed
    NoEntry = NoEntry
    NoEtag = NoEtag
    Target = {t1}
    App = {a1}
    AppOf <- MCAppOf
    Ref = {main, oldTags, newTags, other}
    Feed = {mainFeed, tagsFeed}
    TagFeed = {tagsFeed}
    FeedOf <- MCFeedOf
    Entry = {e1, e2}
    Matching <- MCMatching
    Batch = {b1, b2}
    Budget <- MCBudget
    FaultN = 1
    PushN = 2
    RegistryN = 2
SPECIFICATION CronSpec
INVARIANTS TypeOK HeadsAreSent
PROPERTIES EveryHeadTriggers PollingQuietens SweepRecurs
