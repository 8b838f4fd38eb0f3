------------------------- MODULE MCChokidarWatcher -------------------------
(* A folder that has a folder with a file, for TLC.                         *)
EXTENDS ChokidarWatcher

Folder(ino) == [docType |-> "folder", md5sum |-> 0, ino |-> ino]
File(ino) == [docType |-> "file", md5sum |-> ino, ino |-> ino]

MCDisk == <<1>> :> Folder(2) @@ <<1, 2>> :> Folder(3) @@ <<1, 2, 3>> :> File(4)
MCPaths == {<<2>>, <<2, 2>>, <<1, 3>>, <<3>>}
=============================================================================
