\* One form with an image and two files; two requests fail, lose their answer or
\* are carried out after the page has given up on them.
SPECIFICATION FairSpec
CONSTANTS
  Files = {f1, f2}
  MaxFaults = 2
  MayTimeOut = TRUE
INVARIANTS
  FilesHaveBlobs
  ImageShown
PROPERTIES
  PublishedWhole
  SellerGetsThrough
CHECK_DEADLOCK FALSE
