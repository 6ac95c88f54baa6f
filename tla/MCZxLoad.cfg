CONSTANTS
  PageSize <- Page
  Files <- MCFiles

SPECIFICATION Spec

INVARIANTS
  PagesRestored
  BlocksApart
  BlocksInRam
  HeadersDescribeNextBlock
