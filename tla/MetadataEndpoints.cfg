CONSTANTS
  theia = theia
  java = java
  go = go
  lint = lint
  exec = exec
  javaLatest = javaLatest
  im1 = im1
  im2 = im2
  PluginID = {theia, java, go, lint, exec, javaLatest}
  Title = {theia, java, go, lint, exec}
  Image = {im1, im2}
  Word <- Words
  PluginList <- NoLists
  Unset = Unset
  Malformed = Malformed
  Conflict = Conflict
  Request <- Requests
  Served <- Registries
  Flag <- RemoteFlags
  CheTheia = {theia}
  RandomWord = {"4401"}
  PluginsPath <- Paths
  None = None
  Failure = Failure
SPECIFICATION StartSpec
INVARIANT EndpointsProvided
