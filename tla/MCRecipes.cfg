CONSTANTS
  Home <- MCHome
  Store <- MCStore
  Cwd <- MCCwd
  Env <- MCEnv
  Bundled <- MCBundled
  Globals <- MCGlobals
  Projects <- MCProjects
  PathArgs <- MCPathArgs
  AtPaths <- MCAtPaths
  Worktrees <- MCWorktrees
  Prefixed <- MCPrefixed
  Disk <- MCDisk
  Fickle <- MCFickle
  Drivers <- MCDrivers
  PlaceIds <- MCPlaceIds
  Requests <- MCRequests
SPECIFICATION Spec
CHECK_DEADLOCK FALSE
INVARIANTS RefusedIsFree NothingIsMasked SocketsStandClear SpacesHold
