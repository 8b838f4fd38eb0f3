--------------------------- MODULE MCAtomWatcher ---------------------------
(* Model checking of AtomWatcher.                                           *)
EXTENDS AtomWatcher

MCPaths == {<<1>>, <<2>>, <<1, 3>>, <<2, 3>>, <<3>>, <<4>>, <<5>>}

MCKept == {<<4>>}

Dir(ino) == [kind |-> "directory", ino |-> ino, content |-> 0]
File(ino, content) == [kind |-> "file", ino |-> ino, content |-> content]

MCDisks ==
  {<<1>> :> Dir(1) @@ <<1, 3>> :> File(2, 1) @@ <<5>> :> File(3, 2)}
=============================================================================
