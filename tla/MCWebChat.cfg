CONSTANTS
    Chats <- MCChats
    Subagents <- MCSubagents
    Turns <- MCTurns
    ChatOf <- MCChatOf
    MaxText <- MCMaxText
    Followed <- MCFollowed
    Unwritable <- MCUnwritable
    MaxSessions = 1

SPECIFICATION FairSpec

INVARIANTS
    TypeOK
    LiveTurnIsStoppable
    NoForeignText
    RunningHasATurn

PROPERTY FollowersEnd

CHECK_DEADLOCK FALSE
