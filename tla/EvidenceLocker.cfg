CONSTANTS
  monitor = monitor
  watcher = watcher
  external = external
  injected = injected
  hypervisor = hypervisor
  process = process
  module = module
  Monitor = monitor
  Pusher = pusher
  NoData = nodata
  NoThread = nothread
  Reports <- MCReports
  Data = {process, module}
  Watchers = {watcher}
  Flags = {external, injected, hypervisor}
SPECIFICATION FairSpec
INVARIANTS TypeOK OneWriter MarkedOnlyIfSent EvidenceSentOnce
           MonitorEvidenceKept MonitorFlagSentOnce
PROPERTIES ImplementsReporting DetectionReachesServer
