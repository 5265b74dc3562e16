SPECIFICATION TimeoutSpec
CONSTANTS
  Requests = {r1, r2, r3}
  Users = {u1}
  Chats <- ChatIds
  Stored <- FirstChat
  Nobody = Nobody
  Connections = 2
  Permits = 1
  QueueSize = 1
  ChatsLimit = 1
  MessagesLimit = 2
  MaxFaults = 0
PROPERTIES
  EveryRequestAnswered
