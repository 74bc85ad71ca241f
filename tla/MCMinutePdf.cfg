SPECIFICATION PdfSpec
CONSTANTS
    edit = edit
    again = again
    Contents <- MCContents
    AiContent = "ai"
    Observations = {o1}
    MaxVersions = 2
    MaxMishaps = 1
    MaxOverlaps = 1
    MaxJobs = 3
SYMMETRY EditSymmetry
INVARIANTS VersionLine ReviewIsConsistent ObservationsOnVersions PdfTypeOK FinalIsPublished DraftPdfIsCurrent
PROPERTIES ImplementsDocument
CHECK_DEADLOCK FALSE
