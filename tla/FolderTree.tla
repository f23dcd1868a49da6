------------------------------ MODULE FolderTree ------------------------------
(***************************************************************************)
(* GetProjectTree of internal/data/folder.go: the folders of a project,    *)
(* nested, from the rows that its queries returned.  A query's result is a *)
(* function from the ids to their rows; above is the folder that a row is  *)
(* in, None at the root, and order is what the readers sort by.            *)
(*                                                                         *)
(* A node of the tree is the sequence of the folders from its root down to *)
(* it.  Which node comes first among its siblings is left out.             *)
(***************************************************************************)
EXTENDS Integers, Sequences, FiniteSets

CONSTANT None

Last(p) == p[Len(p)]

Distinct(p) == \A m, n \in DOMAIN p : p[m] = p[n] => m = n

\* The first of some rows in the order of their query.
First(S, found) == CHOOSE k \in S : \A j \in S : found[k].order <= found[j].order

\* A folder is a child if its parent is another folder of those read; all others
\* are at the root: no parent, their own parent, or one of another project.
isChild(f, folders) == folders[f].above \in DOMAIN folders \ {f}

children(folders) ==
  [id \in DOMAIN folders |->
     {f \in DOMAIN folders : isChild(f, folders) /\ folders[f].above = id}]

boardsIn(boards, folder) == {b \in DOMAIN boards : boards[b].above = folder}

\* The nodes from id down.  A folder that is reached again below itself is a node, and
\* has no nodes of its own there: only a path without repetition goes on.
build(id, below) ==
  LET depth == 1 .. Cardinality(DOMAIN below) + 1
      level[n \in depth] ==
        IF n = 1 THEN {<<id>>}
        ELSE UNION {{Append(p, child) : child \in below[Last(p)]} :
                      p \in {q \in level[n - 1] : Distinct(q)}}
  IN  UNION {level[n] : n \in depth}

\* The folders reached from id, without going through one that is marked already.
markEmitted(id, below, emitted) ==
  emitted \cup {Last(p) : p \in {q \in build(id, below) : \A n \in DOMAIN q : q[n] \notin emitted}}

\* One folder taken for a root.
emit(acc, id, below) ==
  [nodes   |-> acc.nodes \cup build(id, below),
   emitted |-> markEmitted(id, below, acc.emitted)]

\* Mutant: no sweep for the folders of cycles.
RootsOnly(acc, folders, below) == acc

\* What no root has reached lies on a cycle or below one: the first of these is taken
\* for a root, until none is left.
sweep(acc, folders, below) ==
  LET swept[n \in 0 .. Cardinality(DOMAIN folders)] ==
        IF n = 0 THEN acc
        ELSE LET a == swept[n - 1]
                 left == DOMAIN folders \ a.emitted
             IN  IF left = {} THEN a ELSE emit(a, First(left, folders), below)
  IN  swept[Cardinality(DOMAIN folders)]

\* No root is reached from another, so that each marks its own.
GetProjectTree(folders, whiteboards, canvasBoards) ==
  LET below == children(folders)
      roots == {f \in DOMAIN folders : ~isChild(f, folders)}
      planted == [nodes   |-> UNION {build(r, below) : r \in roots},
                  emitted |-> UNION {markEmitted(r, below, {}) : r \in roots}]
  IN  [nodes  |-> sweep(planted, folders, below).nodes,
       boards |-> [f \in DOMAIN folders \cup {None} |->
                     boardsIn(whiteboards, f) \cup boardsIn(canvasBoards, f)]]

\* Some folders are each in another of them: then there is a cycle, and every cycle
\* is such a set.
Circular(folders) ==
  \E C \in (SUBSET DOMAIN folders) \ {{}} :
    \A f \in C : isChild(f, folders) /\ folders[f].above \in C
=============================================================================
