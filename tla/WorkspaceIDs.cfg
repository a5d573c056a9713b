CONSTANTS
  java = java
  go = go
  cpp = cpp
  lint = lint
  far = far
  exec = exec
  javaLatest = javaLatest
  im1 = im1
  PluginID = {java, go, cpp, lint, far, exec, javaLatest}
  Title = {java, go, cpp, lint, far, exec}
  Image = {im1}
  Word <- Words
  PluginList <- NoLists
  Unset = Unset
  Malformed = Malformed
  Conflict = Conflict
  Request <- LatestRequests
  Served <- Registries
  Flag <- LatestFlags
  CheTheia = {}
  RandomWord = {"4401"}
  PluginsPath <- TitlePaths
  None = None
  Failure = Failure
  ArtifactsPath <- IDPaths
  Root = "/plugins"
  Relative = {"lint.vsix", "../far.vsix"}
  Escaping = {"../far.vsix"}
  RelativeURL <- RelativeURLs
SPECIFICATION WorkspaceSpec
INVARIANT SidecarsFindExtensions
