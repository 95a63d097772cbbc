\* Expected to be violated: see the findings in README.md.
SPECIFICATION ClipboardSpec
CONSTANTS
    d1 = d1
    d2 = d2
    text = text
    image = image
    files = files
    None = None
    Devices = {d1, d2}
    Items = {text, image}
    Filesets = {files}
    Oversized = {image}
    Macs = {d1}
    Watchers = {d1, d2}
    RingSize = 2
    SyncRoom = 2
    ServerRoom = 2
    MaxEngines = 2
    MaxEvents = 2
\* The users stop, and so does everything else.
CHECK_DEADLOCK FALSE
PROPERTY
    WatchGoesOn
