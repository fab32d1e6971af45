SPECIFICATION FairSpec
CONSTANTS
  NoBlob = NoBlob
  file1 = file1
  file2 = file2
  single = single
  script = script
  qmldir = qmldir
  module = module
  Blobs = {file1, file2, single, script, qmldir, module}
  ImportEdges <- QmldirImports
  TypeEdges <- Uses
  Singletons = {single}
  Qmldirs = {qmldir, module}
  Remote = {module}
  Asked = {file1, file2}
  Faulty = {script, file1, module}
  MayShutdown = TRUE
CHECK_DEADLOCK FALSE
INVARIANTS WaitsAreMutual NotReentered CompleteIsWhole
PROPERTIES SetErrorOnceUnlessCyclic LoadsFinish
