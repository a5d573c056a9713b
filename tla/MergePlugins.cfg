CONSTANTS
  red = red
  blue = blue
  im1 = im1
  im2 = im2
  PluginID = {red, blue}
  Title = {red, blue}
  Image = {im1, im2}
  Word <- Words
  PluginList <- UpToThree
  Unset = Unset
  Malformed = Malformed
  Conflict = Conflict
SPECIFICATION Spec
INVARIANTS MergeTypeOK Accounted MergedProvides CompatibleMerged MergedAsListed MergeInv
