\* The application and the tool on one database, one item of history; two images, a
\* text and a secret.
SPECIFICATION HistorySpec
CONSTANTS
    app = app
    tool = tool
    events = events
    push = push
    page = page
    shell = shell
    Processes = {app, tool}
    Recorders = {events, push}
    Commanders = {page, shell}
    ProcessOf <- MCProcessOf
    Entries = {x1, x2, text, secret}
    Images = {x1, x2}
    Secrets = {secret}
    Stamps = {1, 2}
    HistoryLimit = 1
    MaxCommands = 1
    Null = Null
SYMMETRY MCSymmetry
\* The commands are bounded, and everything else comes to rest.
CHECK_DEADLOCK FALSE
INVARIANTS
    HistoryTypeOK
    ImagesMatch
    HistoryBounded
