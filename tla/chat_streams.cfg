SPECIFICATION FairSpec
CONSTANTS
  Chats = {1, 2, 3}
  PoolSize = 1
  QueueCapacity = 1
  MaxEvents = 1
  MaxCharacters = 1
  Sizes = {1, 2}
  Faults = {"client", "slow", "redis"}
INVARIANTS TypeOK NoOrphanCall NobodyLeftWaiting AnswerKept
PROPERTIES ImplementsReply ChatsEnd
