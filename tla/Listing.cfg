SPECIFICATION FairSpec
CONSTANTS
    Users = {u1}
    Daemon = daemon
    Gate = gate
    Dirs = {d1, d2}
    None = None
    MaxId = 2
    MaxConn = 2
    MaxPid = 2
INVARIANTS DaemonNeverWaits AnswersAreFresh
PROPERTIES OpensReturn QuestionsEnd
