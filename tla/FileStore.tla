------------------------------ MODULE FileStore ------------------------------
(***************************************************************************)
(* What the file system promises: a tree of directories and text files in  *)
(* which each call takes effect at once.  A power cut is not an action: it *)
(* changes nothing here, whenever it comes.                                *)
(***************************************************************************)
EXTENDS Integers, Sequences

CONSTANTS Names, Contents

VARIABLE tree   \* set of [path, dir, content]

Node(path, dir, content) == [path |-> path, dir |-> dir, content |-> content]

FSInit == tree = {Node(<<>>, TRUE, <<>>)}

Under(p, q) == Len(p) <= Len(q) /\ SubSeq(q, 1, Len(p)) = p

\* Each call relates the tree t before it and the tree u after it.

Create(t, u, x, n, dir, content) ==
  /\ x.dir
  /\ \A y \in t : y.path # Append(x.path, n)
  /\ u = t \cup {Node(Append(x.path, n), dir, content)}

MakeDirectory(t, u) == \E x \in t, n \in Names : Create(t, u, x, n, TRUE, <<>>)

PutFile(t, u) == \E x \in t, n \in Names, c \in Contents :
                   Create(t, u, x, n, FALSE, c)

\* A directory goes with everything below it.
Remove(t, u) == \E x \in t : /\ x.path # <<>>
                             /\ u = {y \in t : ~Under(x.path, y.path)}

FSNext == \E t \in {tree}, u \in {tree'} :
            MakeDirectory(t, u) \/ PutFile(t, u) \/ Remove(t, u)

FSSpec == FSInit /\ [][FSNext]_tree
=============================================================================
