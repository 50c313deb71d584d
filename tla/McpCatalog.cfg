\* a catalog of up to three tools and one of two
CONSTANTS
  Order <- MCOrder
  Listings <- MCListings
  Cached <- MCCached
  Renamings <- MCRenamings
  Results <- MCResults
  PageSize = 2
SPECIFICATION CatalogSpec
INVARIANT AnsweredByTheAdvertisedTool
PROPERTIES
  CatalogIsTheListing
  DiscoveryEnds
\* The call settles, or the request is refused: the last state has no successor.
CHECK_DEADLOCK FALSE
