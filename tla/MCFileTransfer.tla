---------------------------- MODULE MCFileTransfer ----------------------------
(* TLC instances of FileTransfer and the media browser: a wall with an empty       *)
(* directory of videos, a directory of images that has a picture and an empty      *)
(* directory in it and fills two pages, three when a file came, and drops of files *)
(* whose second may be a web address.                                              *)
EXTENDS FileTransfer

CONSTANTS s1, s2, media, image, video, trip, above, picture

DirTree == (media :> above) @@ (image :> media) @@ (video :> media) @@ (trip :> image)

FirstFiles == {f \in File : f[2] = 1}

MidUrl == {f \in File : f[2] = 2}

Files == (picture :> image) @@ [f \in FirstFiles |-> image]

WithPicture == {picture, <<s1, 1>>}

Order == <<media, image>> \o SetToSeq(FirstFiles) \o <<picture, trip, video>>
===============================================================================
