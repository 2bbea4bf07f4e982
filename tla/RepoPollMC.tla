----------------------------- MODULE RepoPollMC -----------------------------
(***************************************************************************)
(* Small instances of RepoPoll for TLC.                                    *)
(***************************************************************************)
EXTENDS RepoPoll

CONSTANTS
    t1, t2, a1, a2,     \* two environments, of one app or of two
    main, prod, oldTags, newTags, other,  \* refs: branches, tag patterns, unpollable
    mainFeed, prodFeed, tagsFeed,
    e1, e2,             \* two commits, or two tags
    FaultN, PushN, RegistryN

MCAppOf == [t \in Target |-> IF t = t1 \/ a2 \notin App THEN a1 ELSE a2]
MCFeedOf == [r \in Ref |->
    CASE r = main -> mainFeed [] r = prod -> prodFeed
      [] r \in {oldTags, newTags} -> tagsFeed [] r = other -> NoFeed]
MCMatching == [r \in Ref |->
    CASE r = oldTags -> {e1} [] r = newTags -> {e2} [] OTHER -> Entry]
MCBudget == [k \in Disturbance |->
    CASE k = "fault" -> FaultN [] k = "push" -> PushN [] k = "registry" -> RegistryN]
=============================================================================
