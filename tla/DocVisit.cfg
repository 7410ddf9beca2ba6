\* A docstring and two pages, two items among them; and an index that grows.
SPECIFICATION Spec
CONSTANTS
  Component = {"np", "ma", "fft", "core", "zeros", "shape", "os", "None", "builtins", "l", "web", "user", "index", "v"}
  Root = "np"
  BuiltinPrefix = {"builtins", "str"}
  Constant = {"None"}
  Importable <- MCImportable
  RoleConfig <- MCRoleConfig
  HandledRole <- MCHandledRole
  GithubSlug = FALSE
  MaxObjects = 4
  Docs <- MCDocs
  Packages <- MCPackages
  FileDir <- MCFileDir
  FileItems <- MCFileItems
  BaseName <- MCBaseName
  Aliases <- MCAliases
  Asked <- MCAsked
  Depth = 3
  MaxItems = 2
INVARIANTS LeftoversAreReported LabelsLeadToFirst LossHasACause PlotFiguresAreKept
PROPERTIES LinksMoveOnlyCloser AllVisited
CHECK_DEADLOCK FALSE
