SPECIFICATION FairSpec
CONSTANTS
  host = host
  other = other
  zone = zone
  nowhere = nowhere
  localEnd = localEnd
  Svc = {"kubernetes"}
  Kubernetes = "kubernetes"
  Node = {host, other}
  hostName = host
  Key = {zone}
  Labels <- MCLabels
  Nowhere = nowhere
  LocalEnd = localEnd
  EndpointsObject <- MCEndpoints
  WrapperInCluster = TRUE
  ChannelSize = 1
  MaxEvents = 2
  Services0 <- MCServices0
  Endpoints0 <- MCEndpoints0
  Nodes0 <- MCNodes0
  MaxRestarts = 1
PROPERTIES ListsAreCurrent EndpointsSettle ServicesSettle ListsAreAnswered
CHECK_DEADLOCK FALSE
