SPECIFICATION TransferSpec
CONSTANTS
    s1 = s1
    s2 = s2
    media = media
    image = image
    video = video
    trip = trip
    above = above
    picture = picture
    Sender = {s1}
    FilesPerDrop = 2
    Urls <- MidUrl
    Chunks = 2
    OpenFails = TRUE
    DiskFills = TRUE
    Leaves = TRUE
    Mixes = FALSE
    MaxConnections = 2
    Parent <- DirTree
    Folder <- Files
    Outside = above
    MediaIcons = {image, video}
    Thumbed <- WithPicture
    OnDisk = {picture}
    PathOrder <- Order
    PerPage = 1
CHECK_DEADLOCK FALSE
INVARIANTS LaunchesRight
PROPERTIES SenderGoesOn EveryFileLaunched BrowserGoesOn
