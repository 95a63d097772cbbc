\* Two devices; an image is too large to be sent, but is remembered.  A ring of two
\* hashes, so that it overflows, and a second synchronisation on the device
\* that runs the application, on Windows; the other one runs clip watch, on macOS.
SPECIFICATION ClipboardSpec
CONSTANTS
    d1 = d1
    d2 = d2
    text = text
    image = image
    files = files
    None = None
    Devices = {d1, d2}
    Items = {text, image}
    Filesets = {files}
    Oversized = {image}
    Macs = {d1}
    Watchers = {d1}
    RingSize = 2
    SyncRoom = 1
    ServerRoom = 1
    MaxEngines = 2
    MaxEvents = 3
\* The users stop, and so does everything else.
CHECK_DEADLOCK FALSE
INVARIANTS
    ClipboardTypeOK
    NoEcho
PROPERTY
    Settles
