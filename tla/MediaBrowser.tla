------------------------------ MODULE MediaBrowser ------------------------------
(***************************************************************************)
(* The list of all media on the wall's disk (SN_MediaStorage) and the      *)
(* window to browse it (SN_MediaBrowser), which a double click on the      *)
(* empty wall opens.  The window shows either its root icons, one for each *)
(* kind of media, or a panel with one page of the items of a directory.    *)
(*                                                                         *)
(* Everything runs in the GUI thread: what is hard here is the order of    *)
(* clicks.  A click needs something visible to click on.  A click on a     *)
(* file launches it and leaves the browser as it is.                       *)
(***************************************************************************)
EXTENDS Integers, Sequences, SequencesExt, FiniteSetsExt

CONSTANTS
    Parent,         \* the directory .sagenext/media and those below it, each with its parent
    Folder,         \* the media files, each with the directory it is in
    Outside,        \* the directories above .sagenext/media, of which nothing is listed
    MediaIcons,     \* the directories of the root icons: video, image, pdf, plugins
    Thumbed,        \* the files that a thumbnail can be made of
    OnDisk,         \* the files that are there when the wall starts
    PathOrder,      \* all directories and files in the order of their paths
    PerPage         \* _numItemsHorizontal * _numItemsVertical

Dir == DOMAIN Parent
Media == DOMAIN Folder

ASSUME DirsAssumption == /\ \A d \in Dir : Parent[d] \in Dir \union {Outside}
                         /\ \A m \in Media : Folder[m] \in Dir
                         /\ Outside \notin Dir
                     /\ MediaIcons \subseteq Dir
ASSUME OrderAssumption == /\ ToSet(PathOrder) = Dir \union Media
                          /\ PathOrder \in Seq(Dir \union Media) /\ IsInjective(PathOrder)
ASSUME PerPageAssumption == PerPage \in Nat \ {0}

VARIABLES
    mediaList,      \* the keys of GlobalMediaList
    isOpen,         \* there is a browser
    isRootWindow,   \* _isRootWindow
    rootIcons,      \* the icons of the root window are visible
    currentDir,     \* _currentDir
    currItems,      \* _currMediaItems
    currPage,       \* _currPage
    panel,          \* the items that are visible
    panelButtons,   \* the buttons to the root window and to the parent directory are visible
    arrows          \* the buttons to the pages before and after are visible

windowVars == <<isOpen, isRootWindow, rootIcons, currentDir, currItems, currPage, panel,
                panelButtons, arrows>>
browserVars == <<mediaList, windowVars>>

-------------------------------------------------------------------------------
(* The list                                                                  *)

\* A directory has a picture of its own, of a file one is made (_createThumbnail).
HasThumbnail(p) == p \in Dir \union Thumbed

\* _initMediaList(): what is below .sagenext/media.
InitMediaList == mediaList = {p \in Dir \union OnDisk : HasThumbnail(p)}
                                 \ {d \in Dir : Parent[d] = Outside}

\* addNewMedia(), a slot: the path is listed with or without a thumbnail.
AddNewMedia(p) == mediaList' = mediaList \union {p}

\* What is listed in a directory and has a thumbnail, by its places in the order of paths.
Places(d) == {i \in DOMAIN PathOrder :
                 LET p == PathOrder[i]
                 IN  /\ d = IF p \in Dir THEN Parent[p] ELSE Folder[p]
                     /\ p \in mediaList /\ HasThumbnail(p)}

\* getMediaListInDir(): in the order of the keys.
MediaListInDir(d) ==
    LET places == Places(d)
    IN  [n \in 1..Cardinality(places) |->
            PathOrder[CHOOSE i \in places : Cardinality({j \in places : j <= i}) = n]]

-------------------------------------------------------------------------------
(* The window                                                                *)

\* The constructor: a new browser shows its root window.
BrowserInit == /\ InitMediaList
               /\ isOpen = FALSE
               /\ isRootWindow = TRUE /\ rootIcons = TRUE
               /\ currentDir = Outside
               /\ currItems = <<>> /\ currPage = 0 /\ panel = <<>>
               /\ panelButtons = FALSE /\ arrows = FALSE

\* launchMediaBrowser(): the window appears.
OpenBrowser == /\ ~isOpen
               /\ isOpen' = TRUE
               /\ UNCHANGED <<mediaList, isRootWindow, rootIcons, currentDir, currItems, currPage,
                              panel, panelButtons, arrows>>

NumPages(items) == (Len(items) + PerPage - 1) \div PerPage

PageOf(items, page) ==
    SubSeq(items, page * PerPage + 1, Min({(page + 1) * PerPage, Len(items)}))

\* The iterator was moved beyond the end of the list and memory after it is read.
Wild == <<Outside>>

\* updateThumbnailPanel(): the arrows are shown when there is more than one page, and
\* stay visible afterwards.
UpdateThumbnailPanel(items, page) ==
    /\ panelButtons' = TRUE
    /\ arrows' = (arrows \/ NumPages(items) > 1)
    /\ panel' = IF page * PerPage > Len(items) THEN Wild ELSE PageOf(items, page)

\* _populateMediaItems(): of an empty directory nothing is shown, but the root icons are
\* hidden before that turns out.
PopulateMediaItems(d, page) ==
    LET items == MediaListInDir(d)
    IN  /\ currentDir' = d
        /\ rootIcons' = FALSE
        /\ IF items = <<>>
           THEN UNCHANGED <<currItems, isRootWindow, panel, panelButtons, arrows>>
           ELSE /\ currItems' = items
                /\ isRootWindow' = FALSE
                /\ UpdateThumbnailPanel(items, page)

Usable == isOpen /\ panel # Wild

ClickMediaIcon(d) == /\ Usable /\ rootIcons
                     /\ PopulateMediaItems(d, currPage)
                     /\ UNCHANGED <<mediaList, isOpen, currPage>>

\* launchMedia() of a directory.
OpenFolder(d) == /\ Usable /\ d \in ToSet(panel)
                 /\ PopulateMediaItems(d, currPage)
                 /\ UNCHANGED <<mediaList, isOpen, currPage>>

\* Mutant: the page stays when the directory changes.
ParentDirSamePage ==
    /\ Usable /\ panelButtons
    /\ currentDir # Outside
    /\ UNCHANGED currPage
    /\ PopulateMediaItems(Parent[currentDir], currPage)
    /\ UNCHANGED <<mediaList, isOpen>>

\* getParentDir(): up to the root of the file system; above .sagenext/media only the page
\* number is reset.
GetParentDir == /\ Usable /\ panelButtons
                /\ currPage' = 0
                /\ PopulateMediaItems(IF currentDir = Outside THEN Outside ELSE Parent[currentDir], 0)
                /\ UNCHANGED <<mediaList, isOpen>>

DisplayRootWindow == /\ Usable /\ panelButtons
                     /\ isRootWindow' = TRUE /\ rootIcons' = TRUE
                     /\ currItems' = <<>> /\ currPage' = 0 /\ panel' = <<>>
                     /\ panelButtons' = FALSE /\ arrows' = FALSE
                     /\ UNCHANGED <<mediaList, isOpen, currentDir>>

TurnTo(page) == /\ currPage' = page
                /\ UpdateThumbnailPanel(currItems, page)
                /\ UNCHANGED <<mediaList, isOpen, isRootWindow, rootIcons, currentDir, currItems>>

PrevPage == /\ Usable /\ arrows
            /\ currPage > 0
            /\ TurnTo(currPage - 1)

NextPage == /\ Usable /\ arrows
            /\ currPage # NumPages(currItems) - 1
            /\ TurnTo(currPage + 1)

BrowserNext == \/ OpenBrowser
               \/ \E d \in MediaIcons : ClickMediaIcon(d)
               \/ \E d \in Dir : OpenFolder(d)
               \/ GetParentDir \/ DisplayRootWindow
               \/ PrevPage \/ NextPage

-------------------------------------------------------------------------------
\* The user has something to click on: the root icons, or the way back to them.
HasWayOn == isOpen => rootIcons \/ panelButtons

\* The page is one of the pages of the items.
PageExists == isRootWindow \/ currPage < NumPages(currItems)

\* What is visible is the page.
ShowsPage == isRootWindow \/ panel = PageOf(currItems, currPage)

\* The browser fails its user in three ways only: opening an empty directory from the root
\* window leaves nothing to click on, opening a directory from a later page of its parent
\* runs over the end of its items, and going up beyond .sagenext/media leaves the later
\* page with the number of the first.  No other order of clicks does any of it.
BrowserGoesOn ==
    [][/\ HasWayOn => HasWayOn' \/ (isRootWindow /\ MediaListInDir(currentDir') = <<>>)
       /\ PageExists /\ ShowsPage =>
              \/ (PageExists /\ ShowsPage)'
              \/ currPage > 0 /\ currentDir' \in ToSet(panel) \union {Outside}
      ]_browserVars
===============================================================================
