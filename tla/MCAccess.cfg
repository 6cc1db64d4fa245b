SPECIFICATION AccessSpec
CONSTANTS
    Turns = {t1, t2, t3}
    Conversations = {c1, c2}
    Locks = {l1, l2, l3}
    NoLock = NoLock
    NoConversation = NoConversation
    NoTurn = NoTurn
    LocalServers = {local}
    OauthPresets = {account}
    KeyPresets = {key}
    Pages = {1}
    MaxLinks = 2
    MaxVersions = 2
    Leased = {1}
    Tests = {2}
    Probes = {3}
    Accounts = {"none"}
    MaxTokens = 3
    Sessions = {s1, s2}
    ToolCalls = {1, 2}
    Questions = {1, 2}
    MaxRounds = 1
    MaxQuestions = 2
    MaxPending = 1
    Requests = {q1, q2}
    Keys = {1, 2}
    MaxSlots = 1
    MaxRetirements = 1
    Backends = {"openai", "claude", "responses"}
    Styles = {"once", "repeated", "growing"}
    CutReasons = {"length", "content_filter"}
    MaxItems = 3
    MaxFragments = 1
    MaxTools = 2
    RecoveryLimit = 1
INVARIANTS
    MutualExclusion
    ConnectionsHold
    StaysRefreshable
    OpenQuestionsStay
    SlotsHold
    WholeRounds
