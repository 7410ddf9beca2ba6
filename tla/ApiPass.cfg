\* The objects of a package, their names, and the examples of their pages.
SPECIFICATION Spec
CONSTANTS
    Kind <- MCKind
    Full <- MCQual
    Value <- MCValue
    Root = "r"
    Packages <- MCPackages
    Private = {"_p"}
    Broken = Broken
INVARIANTS
    AllOwnedFound
    CanonicalNameLeadsHome
    ExamplesShownAsRun
    LingeringFigureHasACause
