----------------------------- MODULE MCTreeSync -----------------------------
(* A small tree for TLC: a folder in a folder, with a file, and a folder.    *)
EXTENDS TreeSync

Folder(dir, name) == [docType |-> "folder", dir |-> dir, name |-> name, md5sum |-> 0]
File(dir, name, md5sum) ==
  [docType |-> "file", dir |-> dir, name |-> name, md5sum |-> md5sum]

DeepTree == (2 :> Folder(Root, 1)) @@ (3 :> Folder(2, 2)) @@ (4 :> File(3, 3, 1))
            @@ (5 :> Folder(Root, 4))

FewNames == [file |-> {3}, folder |-> {1, 2}]
=============================================================================
