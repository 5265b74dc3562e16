SPECIFICATION FairSpec
CONSTANTS
  Requests = {r1, r2, r3}
  Users = {u1}
  Chats <- ChatIds
  Stored <- FirstChat
  Nobody = Nobody
  Connections = 3
  Permits = 1
  QueueSize = 1
  ChatsLimit = 1
  MessagesLimit = 2
  MaxFaults = 1
INVARIANTS
  TypeOK
  ChatsBounded
  MessagesBounded
  AnsweredIsKept
  DeletedIsGone
  ChargedIsServed
  PoolNeverStuck
PROPERTIES
  EveryRequestAnswered
