\* Successive runs of one program with edited configurations over one cache
\* directory; each run may also use NoCache for either half.
CONSTANTS
  e1 = e1
  d1 = d1
  nocache = nocache
  Engines <- MCEngines
  Dirs <- MCDirs
  NoDir = nocache
  DomainLists <- MCDomainLists
  ContactLists <- MCContactLists
  DirectoryUrls <- MCDirectoryUrls
  MaxFiles = 1
SPECIFICATION Spec
INVARIANTS CacheIsolation
