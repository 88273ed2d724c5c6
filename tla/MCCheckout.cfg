CONSTANTS
    Files <- MCFiles
    Language <- MCLanguage
    Root <- MCRoot
    LogicalName <- MCLogicalName
    UniqueName <- MCUniqueName
    PathKey <- MCPathKey
    PackageIndex <- MCPackageIndex
    NameOrder <- MCNameOrder
    CycleExclude = {}
    IncludeTypeOnly = TRUE
    Rules <- MCRules
    Entries = {"app.ts", "main.py", "shop/view.py", "shop/task.py", "x/main.ts", "y/main.ts"}
    ConfigFiles = {}
    TestSources = {"app.test.ts", "test_core.py", "test_shop.py", "conftest.py"}
    TestSupport = {}
    Directory <- MCDirectory
    EntrypointBases = {"AppConfig"}
    UnusedImports = TRUE
    UnusedMethods = TRUE
    UnusedProperties = TRUE
    EntryGlobs = {"shop/task.py"}
    MethodEntrypoints = {"__init__"}
    ImplyContract = {"typescript"}
    OrphanModules = TRUE
    UnusedVariables = TRUE
    UnimportedDirShare = 100
    MinUnimported = 2
    MinRegistrations = 2
    Tests <- MCTests
    Setup = {"setup.ts"}
    GlobalTriggers = {"package.json", "conftest.py"}
    AssetName <- MCAssetName
    Full = FALSE
    StrictDynamic = FALSE
    UnreadableConfig = FALSE
    Repositories <- MCRepositories
    MaxEdits = 3
SPECIFICATION Spec
INVARIANTS
    CyclesAreExact
    NothingUsedIsDead
    IntroducedIsKept
    AffectedTestsSelected
    SelectedAreAffected
CHECK_DEADLOCK FALSE
