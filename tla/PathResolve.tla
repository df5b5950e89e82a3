----------------------------- MODULE PathResolve -----------------------------
(***************************************************************************)
(* Where a path leads (fs/path.rs), for calls of the file tools over one   *)
(* tree with symbolic links.  A call resolves its path, waits for its      *)
(* lock, and then reads or replaces what it has resolved; the other calls  *)
(* make directories and replace entries in between.  Nobody else does: of  *)
(* a link another program changes meanwhile nothing is said.               *)
(*                                                                         *)
(* An absolute path is the sequence of its names, "/" the empty one.  The  *)
(* links of the model hold absolute paths.                                 *)
(***************************************************************************)
EXTENDS Naturals, SequencesExt

CONSTANTS
    PathCall,   \* calls in progress
    Root,       \* the workspace, canonical
    Tree,       \* bound: the trees of the file system
    Request,    \* bound: the paths calls ask for, [absolute, names]
    Name,       \* the names of entries, among them
    Up, Here,   \* ".." and "."
    Hop,        \* bound: how many names and links a walk may take, from 0
    Nowhere     \* no path

\* A tree maps the path of each entry to [kind, to]: a directory, a file, or a
\* link to the path "to".  What lies above an entry is a directory.
IsTree(t) ==
    /\ DOMAIN t \subseteq Seq(Name)
    /\ \A p \in DOMAIN t :
          /\ t[p].kind \in {"dir", "file", "link"} /\ t[p].to \in Seq(Name)
          /\ \A k \in 1..(Len(p) - 1) :
                SubSeq(p, 1, k) \in DOMAIN t /\ t[SubSeq(p, 1, k)].kind = "dir"

ASSUME PathAssumption ==
    /\ Up # Here /\ {Up, Here} \subseteq Name /\ Nowhere \notin Seq(Name)
    /\ Hop \subseteq Nat /\ 0 \in Hop /\ \A h \in Hop \ {0} : h - 1 \in Hop
    /\ Root \in Seq(Name) /\ Up \notin ToSet(Root)
    /\ \A r \in Request : r.names \in Seq(Name)
    /\ \A t \in Tree : IsTree(t) /\ Root \in DOMAIN t /\ t[Root].kind = "dir"

VARIABLES
    pathPc,   \* idle, called, resolved, refused, done, failed
    tree,     \* the file system
    request,  \* the path of each call
    writes,   \* whether the call replaces the file, or reads it
    target,   \* what resolve_in_workspace returned
    landed    \* the entry the call read or replaced

pathVars == <<pathPc, tree, request, writes, target, landed>>

PathIdle ==
    /\ pathPc = [c \in PathCall |-> "idle"] /\ tree = CHOOSE t \in Tree : TRUE
    /\ request = [c \in PathCall |-> CHOOSE r \in Request : TRUE]
    /\ writes = [c \in PathCall |-> FALSE]
    /\ target = [c \in PathCall |-> Nowhere] /\ landed = [c \in PathCall |-> Nowhere]

PathInit ==
    /\ tree \in Tree /\ request \in [PathCall -> Request]
    /\ writes \in [PathCall -> BOOLEAN]
    /\ pathPc = [c \in PathCall |-> "called"]
    /\ target = [c \in PathCall |-> Nowhere] /\ landed = [c \in PathCall |-> Nowhere]

-----------------------------------------------------------------------------
(* The file system *)

\* One step of a walk: the next name is looked up below what has been reached.
WalkStep(t, walk) ==
    IF walk.todo = <<>> \/ walk.reached = Nowhere THEN walk
    ELSE LET at   == Append(walk.reached, Head(walk.todo))
             rest == Tail(walk.todo)
         IN  CASE at \notin DOMAIN t \/ (t[at].kind = "file" /\ rest # <<>>) ->
                    [reached |-> Nowhere, todo |-> <<>>]
               [] at \in DOMAIN t /\ t[at].kind = "link" ->
                    [reached |-> <<>>, todo |-> t[at].to \o rest]
               [] OTHER -> [reached |-> at, todo |-> rest]

Walk(t, start) ==
    LET walk[h \in Hop] == IF h = 0 THEN start ELSE WalkStep(t, walk[h - 1])
    IN  walk

\* canonicalize: the entry a path leads to through every link, or Nowhere.
Canonicalize(t, path) ==
    LET walk == Walk(t, [reached |-> <<>>, todo |-> path])
        ends == {h \in Hop : walk[h].todo = <<>>}
    IN  IF ends = {} THEN Nowhere ELSE walk[CHOOSE h \in ends : TRUE].reached

IsDir(t, path) == path = <<>> \/ (path \in DOMAIN t /\ t[path].kind = "dir")

-----------------------------------------------------------------------------
(* resolve_in_workspace *)

Joined(r) == IF r.absolute THEN r.names ELSE Root \o r.names

LexicalNormalize(path) ==
    FoldLeft(LAMBDA done, name :
                 CASE name = Here -> done
                   [] name = Up /\ done # <<>> -> Front(done)
                   [] OTHER -> Append(done, name),
             <<>>, path)

\* Mutated form of Redirected: links are not followed.
NotRedirected(t, path) == path

\* The deepest ancestor that exists, canonical, and the names below it.
Redirected(t, path) ==
    LET existing == {k \in 0..Len(path) : Canonicalize(t, SubSeq(path, 1, k)) # Nowhere}
        deepest  == Max(existing)
    IN  Canonicalize(t, SubSeq(path, 1, deepest)) \o SubSeq(path, deepest + 1, Len(path))

\* Mutated form of Inside: only the path itself is looked at.
InsideByName(path, real) == IsPrefix(Root, path)

Inside(path, real) == IsPrefix(Root, path) /\ IsPrefix(Root, real)

Resolve(c) ==
    /\ pathPc[c] = "called"
    /\ LET path == LexicalNormalize(Joined(request[c]))
           real == Redirected(tree, path)
       IN  IF Inside(path, real)
           THEN /\ target' = [target EXCEPT ![c] = real]
                /\ pathPc' = [pathPc EXCEPT ![c] = "resolved"]
           ELSE /\ pathPc' = [pathPc EXCEPT ![c] = "refused"]
                /\ UNCHANGED target
    /\ UNCHANGED <<tree, request, writes, landed>>

-----------------------------------------------------------------------------
(* What the tools do with it *)

Fail(c) == /\ pathPc' = [pathPc EXCEPT ![c] = "failed"]
           /\ UNCHANGED <<tree, landed>>

Land(c, entry) == /\ landed' = [landed EXCEPT ![c] = entry]
                  /\ pathPc' = [pathPc EXCEPT ![c] = "done"]

\* Opening a file follows every link again.
ReadTarget(c) ==
    /\ pathPc[c] = "resolved" /\ ~writes[c]
    /\ LET found == Canonicalize(tree, target[c])
       IN  IF found = Nowhere \/ IsDir(tree, found) THEN Fail(c)
           ELSE Land(c, found) /\ UNCHANGED tree
    /\ UNCHANGED <<request, writes, target>>

\* create_dir_all makes the parents that do not exist, unless a file or a
\* dangling link is in their place; rename replaces the last entry, link or
\* not, in the directory the parents lead to.
WriteTarget(c) ==
    /\ pathPc[c] = "resolved" /\ writes[c]
    /\ LET dir     == Redirected(tree, IF target[c] = <<>> THEN <<>> ELSE Front(target[c]))
           above   == {SubSeq(dir, 1, k) : k \in 0..Len(dir)}
           missing == {p \in above : Canonicalize(tree, p) = Nowhere}
           blocked == \E p \in above : IF p \in missing THEN p \in DOMAIN tree
                                      ELSE ~IsDir(tree, p)
           entry   == Append(dir, Last(target[c]))
       IN  IF target[c] = <<>> \/ blocked \/ IsDir(tree, entry) THEN Fail(c)
           ELSE /\ tree' = [p \in DOMAIN tree \cup missing \cup {entry} |->
                              CASE p = entry -> [kind |-> "file", to |-> <<>>]
                                [] p \in missing -> [kind |-> "dir", to |-> <<>>]
                                [] OTHER -> tree[p]]
                /\ Land(c, entry)
    /\ UNCHANGED <<request, writes, target>>

PathStep(c) == Resolve(c) \/ ReadTarget(c) \/ WriteTarget(c)
PathNext == \E c \in PathCall : PathStep(c)

PathSpec == PathInit /\ [][PathNext]_pathVars

-----------------------------------------------------------------------------
(* Properties *)

PathTypeOK ==
    /\ pathPc \in [PathCall -> {"idle", "called", "resolved", "refused", "done", "failed"}]
    /\ \A c \in PathCall : (target[c] # Nowhere) =
          (pathPc[c] \in {"resolved", "done", "failed"})
    /\ \A c \in PathCall : (landed[c] # Nowhere) = (pathPc[c] = "done")

\* The file a call reads or replaces is in the workspace, and is the one its
\* path was resolved to and its lock taken on (write.rs:13-16), as long as
\* only the tools change the tree.  The exception is a link that was dangling
\* when the path was resolved: another call may make it lead somewhere while
\* this one waits.  path.rs:29-55.
LandsWhereResolved ==
    [][\A c \in PathCall :
         pathPc[c] = "resolved" /\ pathPc'[c] = "done" =>
             /\ IsPrefix(Root, landed'[c])
             /\ \/ landed'[c] = target[c]
                \/ \E k \in DOMAIN target[c] :
                      LET p == SubSeq(target[c], 1, k)
                      IN  p \in DOMAIN tree /\ tree[p].kind = "link"
      ]_pathVars

\* The path the shell walks if its names hold no "..".
WithoutHere(path) ==
    FoldLeft(LAMBDA done, name : IF name = Here THEN done ELSE Append(done, name), <<>>, path)

\* The file tools and bash, whose working directory is the workspace, mean the
\* same file by a path without "..": an existing file is the one the shell
\* opens, and a path is refused only if that file is outside the workspace or
\* the place the path leads to is.  path.rs:14-56.
ShellAgrees ==
    [][\A c \in PathCall :
         LET r     == request[c]
             plain == WithoutHere(Joined(r))
             opens == Canonicalize(tree, plain)
         IN  (pathPc'[c] # pathPc[c] /\ pathPc[c] = "called" /\ Up \notin ToSet(r.names)) =>
                 /\ opens # Nowhere /\ pathPc'[c] = "resolved" => target'[c] = opens
                 /\ pathPc'[c] = "refused" => ~IsPrefix(Root, Redirected(tree, plain))
                                             \/ ~IsPrefix(Root, plain)
      ]_pathVars
=============================================================================
