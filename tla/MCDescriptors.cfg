SPECIFICATION MCFairSpec
CONSTANTS
  Kinds = {"epoll", "kqueue", "poll", "select"}
  MaxIn = 2
  MaxOut = 2
  Space = 1
INVARIANTS SocketKeeps PortKeeps DatagramsHold
PROPERTIES ChangesHold DescriptorsMove
CHECK_DEADLOCK FALSE
